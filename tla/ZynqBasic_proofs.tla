---------------------------- MODULE ZynqBasic_proofs ----------------------------
(* Proofs about ZynqBasic, for any number of ports, any image and any mask.    *)
EXTENDS ZynqBasic, SequenceTheorems, TLAPS

Setup == {"input", "output", "flag_argument"}
Loop == {"write_row", "write_flag", "acknowledge", "start", "poll", "read_row", "next_row"}
Contents == Rows \cup Seq(Seq(Rows))
HostStates == [at : Steps, port : Port, row : Nat, ready : SUBSET Port]

\* The loop stays in its range and reads only rows whose filter is full; the
\* line buffer keeps its size.
Phases ==
  /\ host.at \in Loop => host.row \in BlockRows
  /\ host.at \in Setup => host.row = 0
  /\ host.at # "poll" => host.ready = {}
  /\ host.at \in Setup \cup Loop => launch >= 1
  /\ host.at = "read_row" => host.row >= MaskHeight
  /\ host.at = "next_row" => host.port = 1
LinesKept == \A p \in Port : Len(lines[p]) = MaskHeight
Typed == TypeOK /\ Phases /\ LinesKept
-----------------------------------------------------------------------------
\* The blocks of the image.
LEMMA Halves == ASSUME NEW n \in Nat PROVE (2 * n) \div 2 = n
OBVIOUS

LEMMA BlockTotal ==
  ASSUME NEW h \in Nat, NEW n \in Nat \ {0}, NEW p \in 1..n
  PROVE  /\ ((p - 1) * h) \div n \in Nat /\ h \div n \in Nat
         /\ ((p - 1) * h) \div n + h \div n <= h
OBVIOUS

LEMMA BlockBounds ==
  /\ Port # {} /\ 1 \in Port /\ Port \subseteq Nat
  /\ BlockRows = 0..(MaskHeight + ImageHeight \div Ports) /\ Latency = MaskHeight
  /\ ImageHeight \div Ports \in Nat
  /\ \A p \in Port : Block(p) \in Nat /\ Block(p) + ImageHeight \div Ports <= ImageHeight
<1>1. /\ Ports \in Nat \ {0} /\ ImageHeight \in Nat \ {0} /\ MaskHeight \in Nat \ {0}
  BY ZynqAssumption
<1>2. (2 * MaskHeight) \div 2 = MaskHeight
  BY <1>1, Halves
<1>3. /\ \A p \in Port : Block(p) \in Nat /\ Block(p) + ImageHeight \div Ports <= ImageHeight
      /\ ImageHeight \div Ports \in Nat
  BY <1>1, BlockTotal DEF Port, Block
<1>4. Port # {} /\ 1 \in Port /\ Port \subseteq Nat
  BY <1>1 DEF Port
<1>5. Latency = MaskHeight /\ BlockRows = 0..(MaskHeight + ImageHeight \div Ports)
  <2>1. Latency = (2 * MaskHeight) \div 2
    BY DEF Latency
  <2>2. BlockRows = 0..((2 * MaskHeight) \div 2 + ImageHeight \div Ports)
    BY DEF BlockRows
  <2>3. QED
    BY <1>2, <2>1, <2>2
<1>6. QED
  BY <1>3, <1>4, <1>5

\* An element of a sequence is replaced, or nothing is where it does not exist.
LEMMA ReplaceInSeq ==
  ASSUME NEW S, NEW s \in Seq(S), NEW i, NEW e \in S
  PROVE  /\ [s EXCEPT ![i] = e] \in Seq(S)
         /\ Len([s EXCEPT ![i] = e]) = Len(s)
         /\ DOMAIN [s EXCEPT ![i] = e] = DOMAIN s
         /\ \A j \in DOMAIN s : [s EXCEPT ![i] = e][j] = IF j = i THEN e ELSE s[j]
<1>1. s \in [1..Len(s) -> S] /\ DOMAIN s = 1..Len(s) /\ Len(s) \in Nat
  BY LenProperties
<1>2. [s EXCEPT ![i] = e] \in [1..Len(s) -> S]
  BY <1>1
<1>3. [s EXCEPT ![i] = e] \in Seq(S)
  BY <1>1, <1>2, SeqDef
<1>4. DOMAIN [s EXCEPT ![i] = e] = 1..Len(s)
  BY <1>2
<1>5. Len([s EXCEPT ![i] = e]) = Len(s)
  <2>1. DOMAIN [s EXCEPT ![i] = e] = 1..Len([s EXCEPT ![i] = e]) /\ Len([s EXCEPT ![i] = e]) \in Nat
    BY <1>3, LenProperties
  <2>2. QED
    BY <1>1, <1>4, <2>1
<1>6. QED
  BY <1>1, <1>3, <1>4, <1>5

LEMMA ContentsTyped ==
  ASSUME launch \in 0..MaxLaunches
  PROVE  /\ Empty \in Rows /\ Empty \in Contents /\ Rows \subseteq Contents
         /\ \A r \in Nat : Row(r) \in Rows
         /\ \A l \in Seq(Rows) : Filtered(l) \in Contents
<1>1. \A l \in Seq(Rows) : Filtered(l) \in Seq(Seq(Rows))
  BY DEF Filtered
<1>2. Empty \in Rows /\ \A r \in Nat : Row(r) \in Rows
  BY DEF Rows, Row
<1>3. QED
  BY <1>1, <1>2 DEF Contents

\* The two ways in which the host goes on.
LEMMA HostGoes ==
  ASSUME host \in HostStates, NEW s \in Steps, Goto(s)
  PROVE  /\ host' \in HostStates /\ host'.at = s
         /\ host'.port = host.port /\ host'.row = host.row /\ host'.ready = host.ready
BY DEF Goto, HostStates

LEMMA HostGoesPort ==
  ASSUME host \in HostStates, NEW s \in Steps, NEW p \in Port, GotoPort(s, p)
  PROVE  /\ host' \in HostStates /\ host'.at = s
         /\ host'.port = p /\ host'.row = host.row /\ host'.ready = host.ready
BY DEF GotoPort, HostStates

LEMMA HostGoesNextPort ==
  ASSUME host \in HostStates, NEW s \in Steps, NEW after \in Steps, NextPort(s, after)
  PROVE  /\ host' \in HostStates /\ host'.row = host.row /\ host'.ready = host.ready
         /\ \/ host.port < Ports /\ host'.at = s /\ host'.port = host.port + 1
            \/ host.port = Ports /\ host'.at = after /\ host'.port = 1
<1>1. host.port \in Port /\ Ports \in Nat \ {0}
  BY ZynqAssumption DEF HostStates
<1>2. CASE host.port < Ports
  <2>1. host.port + 1 \in Port /\ GotoPort(s, host.port + 1)
    BY <1>1, <1>2 DEF NextPort, Port
  <2>2. QED
    BY <1>2, <2>1, HostGoesPort
<1>3. CASE ~(host.port < Ports)
  <2>1. host.port = Ports /\ 1 \in Port /\ GotoPort(after, 1)
    BY <1>1, <1>3 DEF NextPort, Port
  <2>2. QED
    BY <2>1, HostGoesPort
<1>4. QED
  BY <1>2, <1>3
-----------------------------------------------------------------------------
\* Type correctness, one action at a time.
LEMMA InitTyped == Init => Typed
<1> SUFFICES ASSUME Init PROVE Typed
  OBVIOUS
<1>1. 1 \in Port /\ MaskHeight \in Nat \ {0} /\ MaxLaunches \in Nat
  BY BlockBounds, ZynqAssumption
<1>2. host \in HostStates /\ Phases
  BY <1>1 DEF Init, HostStates, Steps, Phases, Loop, Setup
<1>3. launch \in 0..MaxLaunches
  BY <1>1 DEF Init
<1>4. \A p \in Port : lines[p] \in Seq(Rows) /\ Len(lines[p]) = MaskHeight
  <2>1. Empty \in Rows
    BY DEF Rows
  <2>2. \A p \in Port : lines[p] = [i \in 1..MaskHeight |-> Empty]
    BY DEF Init
  <2>3. [i \in 1..MaskHeight |-> Empty] \in [1..MaskHeight -> Rows]
    BY <2>1
  <2>4. \A p \in Port : lines[p] \in Seq(Rows)
    BY <1>1, <2>2, <2>3, SeqDef
  <2>5. \A p \in Port : DOMAIN lines[p] = 1..MaskHeight
    BY <2>2
  <2>6. QED
    BY <1>1, <2>4, <2>5, LenProperties
<1>5. \A S : <<>> \in Seq(S)
  BY EmptySeq
<1>6. DOMAIN out = {}
  BY DEF Init
<1>7. lines \in [Port -> Seq(Rows)]
  BY <1>4 DEF Init
<1>8. args \in [Port -> Seq(Buffers \cup {Data})] /\ dma \in [Port -> Seq(Rows \cup Seq(Seq(Rows)))]
  BY <1>5 DEF Init
<1>9. /\ regs \in [Port -> [input : Buffers, output : Buffers, first : BOOLEAN]]
      /\ filter \in [Port -> {"idle", "started", "loaded"}] /\ done \in [Port -> BOOLEAN]
      /\ left \subseteq Port
  BY DEF Init, Buffers
<1>10. QED
  BY <1>2, <1>3, <1>4, <1>6, <1>7, <1>8, <1>9 DEF Typed, TypeOK, LinesKept, HostStates

LEMMA OpenTyped == Typed /\ Open => Typed'
<1> SUFFICES ASSUME Typed, Open PROVE Typed'
  OBVIOUS
<1>1. host \in HostStates /\ Goto("idle") /\ host.at = "closed"
  BY DEF Typed, TypeOK, Open, At, HostStates
<1>2. host' \in HostStates /\ host'.at = "idle" /\ host'.ready = host.ready
  BY <1>1, HostGoes DEF Steps
<1>3. Phases'
  BY <1>1, <1>2 DEF Typed, Phases, Loop, Setup
<1>4. <<>> \in Seq(Buffers \cup {Data}) /\ DOMAIN <<>> = {}
  BY EmptySeq
<1>5. /\ launch' \in 0..MaxLaunches
      /\ args' \in [Port -> Seq(Buffers \cup {Data})]
      /\ DOMAIN out' \subseteq 0..(ImageHeight + MaskHeight)
      /\ left' \subseteq Port
  BY <1>4, ZynqAssumption DEF Open
<1>6. QED
  BY <1>2, <1>3, <1>5 DEF Typed, TypeOK, Open, HostStates, LinesKept

LEMMA CloseTyped == Typed /\ Close => Typed'
<1> SUFFICES ASSUME Typed, Close PROVE Typed'
  OBVIOUS
<1>1. host \in HostStates /\ Goto("closed") /\ host.at # "poll"
  BY DEF Typed, TypeOK, Close, At, HostStates
<1>2. host' \in HostStates /\ host'.at = "closed" /\ host'.ready = host.ready
  BY <1>1, HostGoes DEF Steps
<1>3. Phases'
  BY <1>1, <1>2 DEF Typed, Phases, Loop, Setup
<1>4. <<>> \in Seq(Buffers \cup {Data}) /\ <<>> \in Seq(Rows \cup Seq(Seq(Rows)))
  BY EmptySeq
<1>5. /\ args' \in [Port -> Seq(Buffers \cup {Data})]
      /\ dma' \in [Port -> Seq(Rows \cup Seq(Seq(Rows)))]
  BY <1>4 DEF Close
<1>6. QED
  BY <1>2, <1>3, <1>5 DEF Typed, TypeOK, Close, HostStates, LinesKept

LEMMA LaunchTyped == Typed /\ Launch => Typed'
<1> SUFFICES ASSUME Typed, Launch PROVE Typed'
  OBVIOUS
<1>1. host' \in HostStates /\ host'.at = "input" /\ host'.row = 0 /\ host'.ready = {}
  BY BlockBounds DEF Launch, HostStates, Steps
<1>2. launch \in 0..MaxLaunches /\ launch < MaxLaunches /\ launch' = launch + 1
  BY DEF Typed, TypeOK, Launch
<1>3. launch' \in 0..MaxLaunches /\ launch' >= 1
  BY <1>2, ZynqAssumption
<1>4. Phases'
  BY <1>1, <1>3 DEF Phases, Loop, Setup
<1>5. DOMAIN out' = {}
  BY DEF Launch
<1>6. QED
  BY <1>1, <1>3, <1>4, <1>5 DEF Typed, TypeOK, Launch, HostStates, LinesKept

\* Giving an argument to the driver.
LEMMA PointerTyped ==
  ASSUME Typed, NEW s \in {"input", "output"}, NEW after \in Setup, ArgumentPointer(s, after)
  PROVE  Typed'
<1> DEFINE p == host.port
<1>1. host \in HostStates /\ Goto(after) /\ host.at = s /\ p \in Port /\ after \in Steps
  BY DEF Typed, TypeOK, ArgumentPointer, At, HostStates, Setup, Steps
<1>2. /\ host' \in HostStates /\ host'.at = after /\ host'.row = host.row /\ host'.ready = host.ready
  BY <1>1, HostGoes
<1>3. Phases'
  BY <1>1, <1>2 DEF Typed, Phases, Loop, Setup, ArgumentPointer
<1>4. /\ args \in [Port -> Seq(Buffers \cup {Data})] /\ dma \in [Port -> Seq(Contents)]
      /\ regs \in [Port -> [input : Buffers, output : Buffers, first : BOOLEAN]]
      /\ args[p] \in Seq(Buffers \cup {Data}) /\ dma[p] \in Seq(Contents)
      /\ regs[p] \in [input : Buffers, output : Buffers, first : BOOLEAN]
  BY <1>1 DEF Typed, TypeOK, Contents
<1>5. Len(dma[p]) + 1 \in Buffers /\ 0 \in Buffers
  BY <1>4, LenProperties DEF Buffers
<1>6. /\ Append(args[p], Len(dma[p]) + 1) \in Seq(Buffers \cup {Data})
      /\ Append(args[p], 0) \in Seq(Buffers \cup {Data})
  BY <1>4, <1>5, AppendProperties
<1>7. Append(dma[p], Empty) \in Seq(Contents)
  BY <1>4, AppendProperties, ContentsTyped DEF Typed, TypeOK
<1>8. [regs[p] EXCEPT ![s] = Len(dma[p]) + 1] \in [input : Buffers, output : Buffers, first : BOOLEAN]
  <2>1. CASE s = "input"
    BY <1>4, <1>5, <2>1
  <2>2. CASE s = "output"
    BY <1>4, <1>5, <2>2
  <2>3. QED
    BY <2>1, <2>2
<1>9. PICK allocated \in AllocOutcomes :
        IF allocated
        THEN /\ dma' = [dma EXCEPT ![p] = Append(dma[p], Empty)]
             /\ args' = [args EXCEPT ![p] = Append(args[p], Len(dma[p]) + 1)]
             /\ regs' = [regs EXCEPT ![p] = [regs[p] EXCEPT ![s] = Len(dma[p]) + 1]]
        ELSE /\ args' = [args EXCEPT ![p] = Append(args[p], 0)]
             /\ UNCHANGED <<dma, regs>>
  BY DEF ArgumentPointer
<1>10. /\ args' \in [Port -> Seq(Buffers \cup {Data})] /\ dma' \in [Port -> Seq(Contents)]
       /\ regs' \in [Port -> [input : Buffers, output : Buffers, first : BOOLEAN]]
  <2>1. CASE allocated
    <3>1. args' = [args EXCEPT ![p] = Append(args[p], Len(dma[p]) + 1)]
      BY <1>9, <2>1
    <3>2. args' \in [Port -> Seq(Buffers \cup {Data})]
      BY <1>4, <1>6, <3>1
    <3>3. dma' = [dma EXCEPT ![p] = Append(dma[p], Empty)]
      BY <1>9, <2>1
    <3>4. dma' \in [Port -> Seq(Contents)]
      BY <1>4, <1>7, <3>3
    <3>5. regs' = [regs EXCEPT ![p] = [regs[p] EXCEPT ![s] = Len(dma[p]) + 1]]
      BY <1>9, <2>1
    <3>6. regs' \in [Port -> [input : Buffers, output : Buffers, first : BOOLEAN]]
      BY <1>4, <1>8, <3>5
    <3>7. QED
      BY <3>2, <3>4, <3>6
  <2>2. CASE ~allocated
    BY <1>4, <1>6, <1>9, <2>2
  <2>3. QED
    BY <2>1, <2>2
<1>11. UNCHANGED <<launch, filter, lines, done, out, left>>
  BY DEF ArgumentPointer
<1>12. QED
  BY <1>2, <1>3, <1>10, <1>11 DEF Typed, TypeOK, HostStates, LinesKept, Contents

LEMMA DataTyped == Typed /\ ArgumentData => Typed'
<1> SUFFICES ASSUME Typed, ArgumentData PROVE Typed'
  OBVIOUS
<1>1. host \in HostStates /\ NextPort("input", "write_row") /\ host.at = "flag_argument"
  BY DEF Typed, TypeOK, ArgumentData, At, HostStates
<1>2. /\ host' \in HostStates /\ host'.at \in {"input", "write_row"}
      /\ host'.row = host.row /\ host'.ready = host.ready
  BY <1>1, HostGoesNextPort DEF Steps
<1>3. host.row = 0 /\ 0 \in BlockRows /\ host.ready = {} /\ launch >= 1
  <2>1. MaskHeight \in Nat
    BY ZynqAssumption
  <2>2. 0 \in BlockRows
    BY <2>1, BlockBounds
  <2>3. QED
    BY <1>1, <2>2 DEF Typed, Phases, Setup
<1>4. Phases'
  BY <1>2, <1>3 DEF Phases, ArgumentData
<1>5. args[host.port] \in Seq(Buffers \cup {Data})
  BY <1>1 DEF Typed, TypeOK, HostStates
<1>6. Append(args[host.port], Data) \in Seq(Buffers \cup {Data})
  BY <1>5, AppendProperties
<1>7. args' \in [Port -> Seq(Buffers \cup {Data})]
  BY <1>6 DEF Typed, TypeOK, ArgumentData
<1>8. QED
  BY <1>2, <1>4, <1>7 DEF Typed, TypeOK, ArgumentData, HostStates, LinesKept

LEMMA WriteRowTyped == Typed /\ WriteRow => Typed'
<1> SUFFICES ASSUME Typed, WriteRow PROVE Typed'
  OBVIOUS
<1> DEFINE p == host.port
           buffer == args[p][1]
           value == Row(Block(p) + host.row)
<1>1. host \in HostStates /\ host.at = "write_row" /\ p \in Port
  BY DEF Typed, TypeOK, WriteRow, At, HostStates
<1>2. UNCHANGED <<launch, args, regs, filter, lines, done, out>>
  BY DEF WriteRow
<1>3. CASE buffer = 0
  <2>1. Goto("oops") /\ left' = Port /\ dma' = dma
    BY <1>3 DEF WriteRow
  <2>2. host' \in HostStates /\ host'.at = "oops" /\ host'.ready = host.ready
    BY <1>1, <2>1, HostGoes DEF Steps
  <2>3. Phases'
    BY <1>1, <2>2 DEF Typed, Phases, Loop, Setup
  <2>4. QED
    BY <1>2, <2>1, <2>2, <2>3 DEF Typed, TypeOK, HostStates, LinesKept
<1>4. CASE buffer # 0
  <2>1. Goto("write_flag") /\ left' = left /\ dma' = [dma EXCEPT ![p] = [dma[p] EXCEPT ![buffer] = value]]
    BY <1>4 DEF WriteRow
  <2>2. /\ host' \in HostStates /\ host'.at = "write_flag" /\ host'.ready = host.ready
        /\ host'.row = host.row
    BY <1>1, <2>1, HostGoes DEF Steps
  <2>3. Phases'
    BY <1>1, <1>2, <2>2 DEF Typed, Phases, Loop, Setup
  <2>4. value \in Contents
    <3>1. Block(p) + host.row \in Nat
      <4> DEFINE b == Block(p)
      <4>1. b \in Nat /\ host.row \in Nat
        BY <1>1, BlockBounds DEF HostStates
      <4> HIDE DEF b
      <4>2. b + host.row \in Nat
        BY <4>1
      <4>3. QED
        BY <4>2 DEF b
    <3>2. QED
      BY <3>1, ContentsTyped DEF Typed, TypeOK
  <2>5. dma[p] \in Seq(Contents)
    BY <1>1 DEF Typed, TypeOK, Contents
  <2> HIDE DEF value, buffer
  <2>6. [dma[p] EXCEPT ![buffer] = value] \in Seq(Contents)
    BY <2>4, <2>5, ReplaceInSeq
  <2>7. dma' \in [Port -> Seq(Contents)]
    BY <1>1, <2>1, <2>6 DEF Typed, TypeOK, Contents
  <2>8. QED
    BY <1>2, <2>1, <2>2, <2>3, <2>7 DEF Typed, TypeOK, HostStates, LinesKept, Contents
<1>5. QED
  BY <1>3, <1>4

LEMMA WriteFlagTyped == Typed /\ WriteFlag => Typed'
<1> SUFFICES ASSUME Typed, WriteFlag PROVE Typed'
  OBVIOUS
<1> DEFINE p == host.port
<1>1. host \in HostStates /\ host.at = "write_flag" /\ p \in Port /\ Goto("acknowledge")
  BY DEF Typed, TypeOK, WriteFlag, At, HostStates
<1>2. UNCHANGED <<launch, args, dma, filter, lines, done, out, left>>
  BY DEF WriteFlag
<1>3. /\ host' \in HostStates /\ host'.at = "acknowledge" /\ host'.ready = host.ready
      /\ host'.row = host.row
  BY <1>1, HostGoes DEF Steps
<1>4. Phases'
  BY <1>1, <1>2, <1>3 DEF Typed, Phases, Loop, Setup
<1>5. regs[p] \in [input : Buffers, output : Buffers, first : BOOLEAN]
  BY <1>1 DEF Typed, TypeOK
<1>6. [regs[p] EXCEPT !.first = (host.row = 0)] \in [input : Buffers, output : Buffers, first : BOOLEAN]
  BY <1>5
<1>7. regs' = [regs EXCEPT ![p] = [regs[p] EXCEPT !.first = (host.row = 0)]]
  BY DEF WriteFlag
<1>8. regs' \in [Port -> [input : Buffers, output : Buffers, first : BOOLEAN]]
  BY <1>6, <1>7 DEF Typed, TypeOK
<1>9. QED
  BY <1>2, <1>3, <1>4, <1>8 DEF Typed, TypeOK, HostStates, LinesKept

LEMMA AcknowledgeTyped == Typed /\ Acknowledge => Typed'
<1> SUFFICES ASSUME Typed, Acknowledge PROVE Typed'
  OBVIOUS
<1>1. host \in HostStates /\ host.at = "acknowledge" /\ Goto("start")
  BY DEF Typed, TypeOK, Acknowledge, At, HostStates
<1>2. UNCHANGED <<launch, args, dma, regs, filter, lines, out, left>>
  BY DEF Acknowledge
<1>3. /\ host' \in HostStates /\ host'.at = "start" /\ host'.ready = host.ready
      /\ host'.row = host.row
  BY <1>1, HostGoes DEF Steps
<1>4. Phases'
  BY <1>1, <1>2, <1>3 DEF Typed, Phases, Loop, Setup
<1>5. done' \in [Port -> BOOLEAN]
  BY DEF Acknowledge, Typed, TypeOK
<1>6. QED
  BY <1>2, <1>3, <1>4, <1>5 DEF Typed, TypeOK, HostStates, LinesKept

LEMMA StartTyped == Typed /\ Start => Typed'
<1> SUFFICES ASSUME Typed, Start PROVE Typed'
  OBVIOUS
<1>1. host \in HostStates /\ host.at = "start" /\ NextPort("write_row", "poll")
  BY DEF Typed, TypeOK, Start, At, HostStates
<1>2. UNCHANGED <<launch, args, dma, regs, lines, done, out, left>>
  BY DEF Start
<1>3. /\ host' \in HostStates /\ host'.at \in {"write_row", "poll"} /\ host'.ready = host.ready
      /\ host'.row = host.row
  BY <1>1, HostGoesNextPort DEF Steps
<1>4. Phases'
  BY <1>1, <1>2, <1>3 DEF Typed, Phases, Loop, Setup
<1>5. filter' \in [Port -> {"idle", "started", "loaded"}]
  BY DEF Start, Typed, TypeOK
<1>6. QED
  BY <1>2, <1>3, <1>4, <1>5 DEF Typed, TypeOK, HostStates, LinesKept

\* Where a poll leads: on to the next port, from the last port back to the first,
\* or out of the loop.
LEMMA PollGoes ==
  ASSUME Typed, Poll
  PROVE  /\ host \in HostStates /\ host.at = "poll" /\ host.port \in Port
         /\ host' \in HostStates /\ host'.row = host.row
         /\ \/ /\ host'.at = "poll" /\ host.port < Ports /\ host'.ready = Polled(host.ready)
               /\ left' = left
            \/ /\ host'.at = "poll" /\ host.port = Ports /\ host'.ready = {}
               /\ Polled(host.ready) = {} /\ left' = left
            \/ /\ host'.at = "read_row" /\ host'.ready = {} /\ host'.port = 1
               /\ host.row >= Latency /\ left' = left \cup (Port \ Polled(host.ready))
            \/ /\ host'.at = "next_row" /\ host'.ready = {} /\ host'.port = 1 /\ host.row < Latency
               /\ left' = left \cup (Port \ Polled(host.ready))
<1> DEFINE ready == Polled(host.ready)
           last == host.port = Ports
           ends == last /\ ready # {}
           at == CASE ~ends -> "poll"
                   [] ends /\ host.row >= Latency -> "read_row"
                   [] OTHER -> "next_row"
           port == IF last THEN 1 ELSE host.port + 1
<1>1. host \in HostStates /\ host.at = "poll" /\ host.port \in Port /\ host.ready \subseteq Port
  BY DEF Typed, TypeOK, Poll, At, HostStates
<1>2. ready \subseteq Port
  BY <1>1 DEF Polled
<1>3. Ports \in Nat \ {0} /\ MaskHeight \in Nat /\ Latency = MaskHeight
  BY ZynqAssumption, BlockBounds
<1>4. port \in Port
  BY <1>1, <1>3 DEF Port
<1>5. host' = [at |-> at, port |-> port, row |-> host.row, ready |-> IF last THEN {} ELSE ready]
  BY DEF Poll
<1>6. left' = IF ends THEN left \cup (Port \ ready) ELSE left
  BY DEF Poll
<1>7. host.row \in Nat
  BY <1>1 DEF HostStates
<1> HIDE DEF ready
<1>8. /\ at \in Steps
      /\ \/ at = "poll" /\ ~ends
         \/ at = "read_row" /\ ends /\ host.row >= Latency
         \/ at = "next_row" /\ ends /\ host.row < Latency
  BY <1>3, <1>7 DEF Steps
<1> HIDE DEF at
<1>9. host' \in HostStates
  BY <1>2, <1>4, <1>5, <1>7, <1>8 DEF HostStates
<1>10. /\ host'.at = at /\ host'.port = port /\ host'.row = host.row
       /\ host'.ready = IF last THEN {} ELSE ready
  BY <1>5
<1>11. host.port < Ports \/ host.port = Ports
  BY <1>1, <1>3 DEF Port
<1>12. QED
  BY <1>1, <1>6, <1>8, <1>9, <1>10, <1>11 DEF ready

LEMMA PollTyped == Typed /\ Poll => Typed'
<1> SUFFICES ASSUME Typed, Poll PROVE Typed'
  OBVIOUS
<1>1. /\ host' \in HostStates /\ host'.row = host.row /\ host.at = "poll"
      /\ host'.at \in {"poll", "read_row", "next_row"} /\ left' \subseteq Port
      /\ host'.at # "poll" => host'.ready = {}
      /\ host'.at = "read_row" => host.row >= MaskHeight
      /\ host'.at = "next_row" => host'.port = 1
  BY PollGoes, BlockBounds DEF Typed, TypeOK
<1>2. UNCHANGED <<launch, args, dma, regs, filter, lines, out>>
  BY DEF Poll
<1>3. Phases'
  BY <1>1, <1>2 DEF Typed, Phases, Loop, Setup
<1>4. done' \in [Port -> BOOLEAN]
  BY DEF Poll, Typed, TypeOK
<1>5. QED
  BY <1>1, <1>2, <1>3, <1>4 DEF Typed, TypeOK, HostStates, LinesKept

LEMMA ReadRowTyped == Typed /\ ReadRow => Typed'
<1> SUFFICES ASSUME Typed, ReadRow PROVE Typed'
  OBVIOUS
<1> DEFINE p == host.port
           buffer == args[p][2]
           r == Block(p) + host.row
           value == [row |-> dma[p][buffer], from |-> p]
<1>1. host \in HostStates /\ host.at = "read_row" /\ p \in Port
  BY DEF Typed, TypeOK, ReadRow, At, HostStates
<1>2. UNCHANGED <<launch, args, dma, regs, filter, lines, done>>
  BY DEF ReadRow
<1>3. CASE buffer = 0
  <2>1. Goto("oops") /\ left' = Port /\ out' = out
    BY <1>3 DEF ReadRow
  <2>2. host' \in HostStates /\ host'.at = "oops" /\ host'.ready = host.ready
    BY <1>1, <2>1, HostGoes DEF Steps
  <2>3. Phases'
    BY <1>1, <2>2 DEF Typed, Phases, Loop, Setup
  <2>4. QED
    BY <1>2, <2>1, <2>2, <2>3 DEF Typed, TypeOK, HostStates, LinesKept
<1>4. CASE buffer # 0
  <2>1. out' = ReadInto(r, value) /\ NextPort("read_row", "next_row") /\ left' = left
    BY <1>4 DEF ReadRow
  <2>2. /\ host' \in HostStates /\ host'.at \in {"read_row", "next_row"}
        /\ host'.row = host.row /\ host'.ready = host.ready
        /\ host'.at = "next_row" => host'.port = 1
    BY <1>1, <2>1, HostGoesNextPort DEF Steps
  <2>3. Phases'
    BY <1>1, <1>2, <2>2 DEF Typed, Phases, Loop, Setup
  <2>4. r \in 0..(ImageHeight + MaskHeight)
    <3>1. host.row \in 0..(MaskHeight + ImageHeight \div Ports)
      BY <1>1, BlockBounds DEF Typed, Phases, Loop
    <3>2. /\ Block(p) \in Nat /\ Block(p) + ImageHeight \div Ports <= ImageHeight
          /\ ImageHeight \div Ports \in Nat
      BY <1>1, BlockBounds
    <3>3. MaskHeight \in Nat /\ ImageHeight \in Nat
      BY ZynqAssumption
    <3> DEFINE b == Block(p)
               q == ImageHeight \div Ports
    <3> HIDE DEF b, q
    <3>4. host.row \in 0..(MaskHeight + q) /\ b \in Nat /\ q \in Nat /\ b + q <= ImageHeight
      BY <3>1, <3>2 DEF b, q
    <3>5. b + host.row \in 0..(ImageHeight + MaskHeight)
      BY <3>3, <3>4
    <3>6. QED
      BY <3>5 DEF b
  <2> HIDE DEF r, value
  <2>5. DOMAIN out' = DOMAIN out \cup {r}
    BY <2>1 DEF ReadInto
  <2>6. DOMAIN out' \subseteq 0..(ImageHeight + MaskHeight)
    BY <2>4, <2>5 DEF Typed, TypeOK
  <2>7. QED
    BY <1>2, <2>1, <2>2, <2>3, <2>6 DEF Typed, TypeOK, HostStates, LinesKept
<1>5. QED
  BY <1>3, <1>4

LEMMA LastOfRange ==
  ASSUME NEW n \in Nat, NEW r \in 0..n
  PROVE  r + 1 \in Nat /\ (r + 1 \in 0..n \/ r = n)
OBVIOUS

LEMMA NextRowGoes ==
  ASSUME Typed, NextRow
  PROVE  /\ host \in HostStates /\ host.at = "next_row"
         /\ host' \in HostStates /\ host'.row = host.row + 1 /\ host'.ready = {}
         /\ \/ host'.at = "write_row" /\ host.row + 1 \in BlockRows
            \/ host'.at = "idle" /\ host.row = MaskHeight + ImageHeight \div Ports
<1>1. host \in HostStates /\ host.at = "next_row" /\ host.ready = {} /\ host.row \in BlockRows
  BY DEF Typed, TypeOK, NextRow, At, HostStates, Phases, Loop
<1>2. /\ host.row + 1 \in Nat
      /\ host.row + 1 \in BlockRows \/ host.row = MaskHeight + ImageHeight \div Ports
  <2> DEFINE n == MaskHeight + ImageHeight \div Ports
  <2>1. BlockRows = 0..n
    BY BlockBounds
  <2>2. MaskHeight \in Nat /\ ImageHeight \div Ports \in Nat
    BY BlockBounds, ZynqAssumption
  <2>3. n \in Nat
    BY <2>2
  <2> HIDE DEF n
  <2>4. host.row \in 0..n
    BY <1>1, <2>1
  <2>5. host.row + 1 \in Nat /\ (host.row + 1 \in 0..n \/ host.row = n)
    BY <2>3, <2>4, LastOfRange
  <2>6. QED
    BY <2>1, <2>5 DEF n
<1>3. ASSUME NEW at \in Steps, host' = [host EXCEPT !.at = at, !.row = host.row + 1]
      PROVE  host' \in HostStates /\ host'.at = at /\ host'.row = host.row + 1 /\ host'.ready = {}
  BY <1>1, <1>2, <1>3 DEF HostStates
<1>4. CASE host.row + 1 \in BlockRows
  <2>1. host' = [host EXCEPT !.at = "write_row", !.row = host.row + 1]
    BY <1>4 DEF NextRow
  <2>2. QED
    BY <1>1, <1>3, <1>4, <2>1 DEF Steps
<1>5. CASE host.row + 1 \notin BlockRows
  <2>1. host' = [host EXCEPT !.at = "idle", !.row = host.row + 1]
    BY <1>5 DEF NextRow
  <2>2. QED
    BY <1>1, <1>2, <1>3, <1>5, <2>1 DEF Steps
<1>6. QED
  BY <1>4, <1>5

LEMMA NextRowTyped == Typed /\ NextRow => Typed'
<1> SUFFICES ASSUME Typed, NextRow PROVE Typed'
  OBVIOUS
<1>1. UNCHANGED <<launch, args, dma, regs, filter, lines, done, out, left>>
  BY DEF NextRow
<1>2. /\ host' \in HostStates /\ host'.ready = {} /\ host.at = "next_row"
      /\ (host'.at = "write_row" /\ host'.row \in BlockRows) \/ host'.at = "idle"
  BY NextRowGoes
<1>3. Phases'
  BY <1>1, <1>2 DEF Typed, Phases, Loop, Setup
<1>4. QED
  BY <1>1, <1>2, <1>3 DEF Typed, TypeOK, HostStates, LinesKept

\* The filters: the line buffer shifts by one row.
LEMMA Shifted ==
  ASSUME Typed, NEW p \in Port, Load(p)
  PROVE  /\ lines'[p] \in Seq(Rows) /\ Len(lines'[p]) = MaskHeight
         /\ lines'[p][MaskHeight] = Loaded(p) /\ Loaded(p) \in Rows
         /\ \A i \in 1..(MaskHeight - 1) : lines'[p][i] = lines[p][i + 1]
         /\ \A q \in Port \ {p} : lines'[q] = lines[q]
<1>1. lines[p] \in Seq(Rows) /\ Len(lines[p]) = MaskHeight /\ MaskHeight \in Nat \ {0}
  BY ZynqAssumption DEF Typed, TypeOK, LinesKept
<1>2. lines[p] # <<>>
  BY <1>1, EmptySeq
<1>3. Loaded(p) \in Rows
  BY ContentsTyped DEF Loaded, Typed, TypeOK
<1>4. /\ Tail(lines[p]) \in Seq(Rows) /\ Len(Tail(lines[p])) = MaskHeight - 1
      /\ \A i \in 1..(MaskHeight - 1) : Tail(lines[p])[i] = lines[p][i + 1]
  BY <1>1, <1>2, HeadTailProperties
<1> DEFINE t == Tail(lines[p])
           new == Append(t, Loaded(p))
<1> HIDE DEF t
<1>5. t \in Seq(Rows) /\ Len(t) = MaskHeight - 1 /\ \A i \in 1..(MaskHeight - 1) : t[i] = lines[p][i + 1]
  BY <1>4 DEF t
<1>6. new \in Seq(Rows) /\ Len(new) = Len(t) + 1 /\ new[Len(t) + 1] = Loaded(p)
      /\ \A i \in 1..Len(t) : new[i] = t[i]
  BY <1>3, <1>5, AppendProperties
<1>7. lines' = [lines EXCEPT ![p] = new]
  BY DEF Load, t
<1> HIDE DEF new
<1>8. lines'[p] = new /\ \A q \in Port \ {p} : lines'[q] = lines[q]
  BY <1>7 DEF Typed, TypeOK
<1>9. QED
  BY <1>1, <1>3, <1>5, <1>6, <1>8

LEMMA LoadTyped ==
  ASSUME Typed, NEW p \in Port, Load(p)
  PROVE  Typed'
<1>1. UNCHANGED <<host, launch, args, dma, regs, done, out, left>>
  BY DEF Load
<1>2. LinesKept'
  BY Shifted DEF Typed, LinesKept
<1>3. lines' \in [Port -> Seq(Rows)]
  BY Shifted DEF Load, Typed, TypeOK
<1>4. filter' \in [Port -> {"idle", "started", "loaded"}]
  BY DEF Load, Typed, TypeOK
<1>5. QED
  BY <1>1, <1>2, <1>3, <1>4 DEF Typed, TypeOK, Phases

LEMMA Stored ==
  ASSUME Typed, NEW p \in Port, Store(p)
  PROVE  /\ dma' \in [Port -> Seq(Contents)]
         /\ \A q \in Port \ {p} : dma'[q] = dma[q]
         /\ DOMAIN dma'[p] = DOMAIN dma[p] /\ Len(dma'[p]) = Len(dma[p])
         /\ \A j \in DOMAIN dma[p] :
              dma'[p][j] = IF j = regs[p].output THEN Filtered(lines[p]) ELSE dma[p][j]
<1>1. dma \in [Port -> Seq(Contents)] /\ lines[p] \in Seq(Rows) /\ launch \in 0..MaxLaunches
  BY DEF Typed, TypeOK, Contents
<1>2. Filtered(lines[p]) \in Contents
  BY <1>1, ContentsTyped
<1>3. CASE regs[p].output \in DOMAIN dma[p]
  <2> DEFINE new == [dma[p] EXCEPT ![regs[p].output] = Filtered(lines[p])]
  <2>1. dma' = [dma EXCEPT ![p] = new]
    BY <1>3 DEF Store, InBuffer
  <2>2. /\ new \in Seq(Contents) /\ Len(new) = Len(dma[p]) /\ DOMAIN new = DOMAIN dma[p]
        /\ \A j \in DOMAIN dma[p] : new[j] = IF j = regs[p].output THEN Filtered(lines[p]) ELSE dma[p][j]
    <3>1. dma[p] \in Seq(Contents)
      BY <1>1
    <3>2. ASSUME NEW e \in Contents, NEW b
          PROVE  /\ [dma[p] EXCEPT ![b] = e] \in Seq(Contents)
                 /\ Len([dma[p] EXCEPT ![b] = e]) = Len(dma[p])
                 /\ DOMAIN [dma[p] EXCEPT ![b] = e] = DOMAIN dma[p]
                 /\ \A j \in DOMAIN dma[p] : [dma[p] EXCEPT ![b] = e][j] = IF j = b THEN e ELSE dma[p][j]
      BY <3>1, ReplaceInSeq
    <3>3. QED
      BY <1>2, <3>2
  <2> HIDE DEF new
  <2>3. QED
    BY <1>1, <2>1, <2>2
<1>4. CASE regs[p].output \notin DOMAIN dma[p]
  <2>1. dma' = dma
    BY <1>4 DEF Store, InBuffer
  <2>2. QED
    BY <1>1, <1>4, <2>1
<1>5. QED
  BY <1>3, <1>4

LEMMA StoreTyped ==
  ASSUME Typed, NEW p \in Port, Store(p)
  PROVE  Typed'
<1>1. UNCHANGED <<host, launch, args, regs, lines, out, left>>
  BY DEF Store
<1>2. dma' \in [Port -> Seq(Contents)]
  BY Stored
<1>3. filter' \in [Port -> {"idle", "started", "loaded"}] /\ done' \in [Port -> BOOLEAN]
  BY DEF Store, Typed, TypeOK
<1>4. QED
  BY <1>1, <1>2, <1>3 DEF Typed, TypeOK, Phases, LinesKept, Contents

LEMMA StepTyped == Typed /\ [Next]_vars => Typed'
<1> SUFFICES ASSUME Typed, [Next]_vars PROVE Typed'
  OBVIOUS
<1>1. CASE UNCHANGED vars
  BY <1>1 DEF vars, Typed, TypeOK, Phases, LinesKept
<1>2. CASE ArgumentPointer("input", "output") \/ ArgumentPointer("output", "flag_argument")
  BY <1>2, PointerTyped DEF Setup
<1>3. CASE \E p \in Port : FilterStep(p)
  BY <1>3, LoadTyped, StoreTyped DEF FilterStep
<1>4. QED
  BY <1>1, <1>2, <1>3, OpenTyped, CloseTyped, LaunchTyped, DataTyped, WriteRowTyped, WriteFlagTyped,
     AcknowledgeTyped, StartTyped, PollTyped, ReadRowTyped, NextRowTyped DEF Next, HostStep

\* Every variable keeps its type; no row is read back outside the image.
LEMMA TypesKept == Spec => []Typed
BY InitTyped, StepTyped, PTL DEF Spec

THEOREM ZynqTypes == Spec => []TypeOK
<1>1. Typed => TypeOK
  BY DEF Typed
<1>2. QED
  BY <1>1, TypesKept, PTL

-----------------------------------------------------------------------------
\* How many arguments the driver of a port holds, and what they come with: a
\* driver that could allocate all of them has told the filter its buffers.
InHand == IF host.at = "input" THEN 0 ELSE IF host.at = "output" THEN 1 ELSE 2
Given(p) ==
  IF host.at = "closed" THEN 0
  ELSE IF host.at \notin Setup \/ p < host.port THEN 3 * launch
  ELSE 3 * launch - 3 + (IF p = host.port THEN InHand ELSE 0)
ArgsOK(p) ==
  /\ Len(args[p]) = Given(p)
  /\ Given(p) = 0 => Len(dma[p]) = 0
  /\ (\A i \in DOMAIN args[p] : args[p][i] # 0) =>
       /\ Given(p) >= 1 => regs[p].input \in DOMAIN dma[p]
       /\ Given(p) >= 2 => regs[p].output \in DOMAIN dma[p]
ArgsInv == \A p \in Port : ArgsOK(p)

LEMMA ArgsFrame ==
  ASSUME ArgsInv, args' = args,
         \A p \in Port : /\ regs'[p].input = regs[p].input /\ regs'[p].output = regs[p].output
                         /\ Len(dma'[p]) = Len(dma[p]) /\ DOMAIN dma'[p] = DOMAIN dma[p]
                         /\ Given(p)' = Given(p)
  PROVE  ArgsInv'
<1> SUFFICES ASSUME NEW p \in Port PROVE ArgsOK(p)'
  BY DEF ArgsInv
<1>1. ArgsOK(p)
  BY DEF ArgsInv
<1> HIDE DEF Given
<1>2. QED
  BY <1>1 DEF ArgsOK

LEMMA GivenInLoop ==
  ASSUME host.at \in Loop \cup {"idle", "oops"}, NEW p
  PROVE  Given(p) = 3 * launch
BY DEF Given, Loop, Setup

LEMMA GivenAfterLoop ==
  ASSUME host'.at \in Loop \cup {"idle", "oops"}, launch' = launch, NEW p
  PROVE  Given(p)' = 3 * launch
BY DEF Given, Loop, Setup

\* The loop of a launch leaves the buffers and their addresses as they are.
LEMMA BuffersKept ==
  ASSUME Typed, Typed', NEW p \in Port,
         WriteRow \/ WriteFlag \/ Acknowledge \/ Start \/ Poll \/ ReadRow \/ NextRow
  PROVE  /\ regs'[p].input = regs[p].input /\ regs'[p].output = regs[p].output
         /\ Len(dma'[p]) = Len(dma[p]) /\ DOMAIN dma'[p] = DOMAIN dma[p]
<1>1. CASE UNCHANGED <<dma, regs>>
  BY <1>1
<1>2. CASE WriteFlag
  <2>1. regs[p] \in [input : Buffers, output : Buffers, first : BOOLEAN] /\ dma' = dma
    BY <1>2 DEF WriteFlag, Typed, TypeOK
  <2>2. regs'[p] = regs[p] \/ regs'[p] = [regs[p] EXCEPT !.first = (host.row = 0)]
    BY <1>2 DEF WriteFlag, Typed, TypeOK
  <2>3. QED
    BY <2>1, <2>2
<1>3. CASE WriteRow /\ dma' # dma
  <2> DEFINE b == args[host.port][1]
             v == Row(Block(host.port) + host.row)
  <2>1. dma' = [dma EXCEPT ![host.port] = [dma[host.port] EXCEPT ![b] = v]] /\ regs' = regs
    BY <1>3 DEF WriteRow
  <2>2. dma[p] \in Seq(Contents) /\ dma'[p] \in Seq(Contents)
    BY DEF Typed, TypeOK, Contents
  <2> HIDE DEF b, v
  <2>3. DOMAIN dma'[p] = DOMAIN dma[p]
    BY <2>1 DEF Typed, TypeOK
  <2>4. QED
    BY <2>1, <2>2, <2>3, LenProperties
<1>4. QED
  BY <1>1, <1>2, <1>3 DEF WriteRow, Acknowledge, Start, Poll, ReadRow, NextRow

LEMMA ArgsInLoop ==
  ASSUME Typed, Typed', ArgsInv,
         WriteRow \/ WriteFlag \/ Acknowledge \/ Start \/ Poll \/ ReadRow \/ NextRow
  PROVE  ArgsInv'
<1>1. host \in HostStates /\ host.at \in Loop /\ launch' = launch /\ args' = args
  BY DEF Typed, TypeOK, HostStates, Loop, At, WriteRow, WriteFlag, Acknowledge, Start, Poll, ReadRow, NextRow
<1>2. host'.at \in Loop \cup {"idle", "oops"}
  <2>1. CASE WriteRow \/ WriteFlag \/ Acknowledge
    <3>1. Goto("oops") \/ Goto("write_flag") \/ Goto("acknowledge") \/ Goto("start")
      BY <2>1 DEF WriteRow, WriteFlag, Acknowledge
    <3>2. QED
      BY <1>1, <3>1, HostGoes DEF Loop, Steps
  <2>2. CASE Start \/ ReadRow
    <3>1. Goto("oops") \/ NextPort("write_row", "poll") \/ NextPort("read_row", "next_row")
      BY <2>2 DEF Start, ReadRow
    <3>2. QED
      BY <1>1, <3>1, HostGoes, HostGoesNextPort DEF Loop, Steps
  <2>3. CASE Poll
    BY <2>3, PollGoes DEF Loop
  <2>4. CASE NextRow
    BY <2>4, NextRowGoes DEF Loop
  <2>5. QED
    BY <2>1, <2>2, <2>3, <2>4
<1>3. ASSUME NEW p \in Port PROVE Given(p)' = Given(p)
  BY <1>1, <1>2, GivenInLoop, GivenAfterLoop
<1>4. \A p \in Port :
        /\ regs'[p].input = regs[p].input /\ regs'[p].output = regs[p].output
        /\ Len(dma'[p]) = Len(dma[p]) /\ DOMAIN dma'[p] = DOMAIN dma[p]
  BY BuffersKept
<1>5. QED
  BY <1>1, <1>3, <1>4, ArgsFrame

\* Appending to the arguments of one port, all others untouched.
LEMMA ArgsAppended ==
  ASSUME Typed, ArgsInv, NEW q \in Port, NEW e \in Buffers \cup {Data},
         args' = [args EXCEPT ![q] = Append(@, e)]
  PROVE  /\ Len(args'[q]) = Len(args[q]) + 1
         /\ args'[q][Len(args[q]) + 1] = e
         /\ \A i \in 1..Len(args[q]) : args'[q][i] = args[q][i]
         /\ (\A i \in DOMAIN args'[q] : args'[q][i] # 0) =>
              e # 0 /\ \A i \in DOMAIN args[q] : args[q][i] # 0
         /\ \A p \in Port \ {q} : args'[p] = args[p]
<1>1. args[q] \in Seq(Buffers \cup {Data}) /\ args'[q] = Append(args[q], e)
  BY DEF Typed, TypeOK
<1>2. /\ Append(args[q], e) \in Seq(Buffers \cup {Data}) /\ Len(Append(args[q], e)) = Len(args[q]) + 1
      /\ \A i \in 1..Len(args[q]) : Append(args[q], e)[i] = args[q][i]
      /\ Append(args[q], e)[Len(args[q]) + 1] = e
  BY <1>1, AppendProperties
<1>3. /\ DOMAIN args[q] = 1..Len(args[q]) /\ Len(args[q]) \in Nat
      /\ DOMAIN Append(args[q], e) = 1..(Len(args[q]) + 1)
  BY <1>1, <1>2, LenProperties
<1>4. \A p \in Port \ {q} : args'[p] = args[p]
  BY DEF Typed, TypeOK
<1>5. QED
  BY <1>1, <1>2, <1>3, <1>4

LEMMA LaunchesCounted == Typed => launch \in Nat
<1>1. MaxLaunches \in Nat
  BY ZynqAssumption
<1>2. Typed => launch \in 0..MaxLaunches
  BY DEF Typed, TypeOK
<1>3. QED
  BY <1>1, <1>2

\* What ArgumentPointer does to the driver of its port: the argument is NULL,
\* or a new buffer whose address the filter is told.
LEMMA PointerGiven ==
  ASSUME Typed, NEW q \in Port, q = host.port,
         NEW s \in {"input", "output"}, NEW after, ArgumentPointer(s, after)
  PROVE  \E e \in Buffers :
           /\ args' = [args EXCEPT ![q] = Append(args[q], e)]
           /\ e = 0 => UNCHANGED <<dma, regs>>
           /\ e # 0 => /\ e = Len(dma[q]) + 1 /\ Len(dma'[q]) = e /\ DOMAIN dma'[q] = 1..e
                       /\ DOMAIN dma[q] \subseteq 1..e
                       /\ regs'[q] = [regs[q] EXCEPT ![s] = e]
                       /\ \A p \in Port \ {q} : dma'[p] = dma[p] /\ regs'[p] = regs[p]
<1>1. dma[q] \in Seq(Contents) /\ Empty \in Contents
  BY ContentsTyped DEF Typed, TypeOK, Contents
<1>2. Len(dma[q]) \in Nat /\ DOMAIN dma[q] = 1..Len(dma[q])
  BY <1>1, LenProperties
<1>3. /\ Append(dma[q], Empty) \in Seq(Contents)
      /\ Len(Append(dma[q], Empty)) = Len(dma[q]) + 1
  BY <1>1, AppendProperties
<1>4. DOMAIN Append(dma[q], Empty) = 1..(Len(dma[q]) + 1)
  BY <1>3, LenProperties
<1>5. PICK allocated \in AllocOutcomes :
        IF allocated
        THEN /\ dma' = [dma EXCEPT ![q] = Append(dma[q], Empty)]
             /\ args' = [args EXCEPT ![q] = Append(args[q], Len(dma[q]) + 1)]
             /\ regs' = [regs EXCEPT ![q] = [regs[q] EXCEPT ![s] = Len(dma[q]) + 1]]
        ELSE /\ args' = [args EXCEPT ![q] = Append(args[q], 0)]
             /\ UNCHANGED <<dma, regs>>
  BY DEF ArgumentPointer
<1>6. CASE allocated
  <2> DEFINE e == Len(dma[q]) + 1
  <2>1. e \in Buffers /\ e # 0 /\ DOMAIN dma[q] \subseteq 1..e
    BY <1>2 DEF Buffers
  <2>2. /\ dma' = [dma EXCEPT ![q] = Append(dma[q], Empty)]
        /\ args' = [args EXCEPT ![q] = Append(args[q], e)]
        /\ regs' = [regs EXCEPT ![q] = [regs[q] EXCEPT ![s] = e]]
    BY <1>5, <1>6
  <2>3. Len(dma'[q]) = e /\ DOMAIN dma'[q] = 1..e
    BY <1>3, <1>4, <2>2 DEF Typed, TypeOK
  <2> HIDE DEF e
  <2>4. /\ regs'[q] = [regs[q] EXCEPT ![s] = e]
        /\ \A p \in Port \ {q} : dma'[p] = dma[p] /\ regs'[p] = regs[p]
    BY <2>2 DEF Typed, TypeOK
  <2>5. QED
    BY <2>1, <2>2, <2>3, <2>4 DEF e
<1>7. CASE ~allocated
  BY <1>5, <1>7 DEF Buffers
<1>8. QED
  BY <1>6, <1>7

LEMMA ArgsPointer ==
  ASSUME Typed, Typed', ArgsInv,
         NEW s, NEW after,
         (s = "input" /\ after = "output") \/ (s = "output" /\ after = "flag_argument"),
         ArgumentPointer(s, after)
  PROVE  ArgsInv'
<1>0. PICK q \in Port : q = host.port
  BY DEF Typed, TypeOK
<1>1. /\ host \in HostStates /\ host.at = s /\ Goto(after) /\ after \in Steps
      /\ s \in {"input", "output"} /\ after \in Setup /\ launch' = launch /\ launch \in Nat /\ launch >= 1
  <2>1. host \in HostStates /\ host.at = s /\ Goto(after) /\ launch' = launch
    BY DEF Typed, TypeOK, ArgumentPointer, At, HostStates
  <2>2. after \in Steps /\ s \in {"input", "output"} /\ after \in Setup /\ s \in Setup
    BY DEF Setup, Steps
  <2>3. launch \in Nat
    BY LaunchesCounted
  <2>4. QED
    BY <2>1, <2>2, <2>3 DEF Typed, Phases
<1>2. host'.at = after /\ host'.port = q
  BY <1>0, <1>1, HostGoes
<1>3. Port \subseteq Nat
  BY BlockBounds
<1>4. /\ Given(q)' = Given(q) + 1 /\ Given(q) \in Nat
      /\ (s = "input" /\ Given(q) >= 1 => Given(q) >= 2)
      /\ (s = "output" => Given(q) >= 1)
  <2>1. q \in Nat /\ host.port = q /\ host'.port = q
    BY <1>0, <1>2, <1>3
  <2>2. ~(q < q)
    BY <2>1
  <2>3. Given(q) = 3 * launch - 3 + InHand /\ Given(q)' = 3 * launch - 3 + InHand'
    BY <1>1, <1>2, <2>1, <2>2 DEF Given, Setup
  <2>4. \/ s = "input" /\ InHand = 0 /\ InHand' = 1
        \/ s = "output" /\ InHand = 1 /\ InHand' = 2
    BY <1>1, <1>2 DEF InHand
  <2>5. QED
    BY <1>1, <2>3, <2>4
<1>5. \A p \in Port \ {q} : Given(p)' = Given(p)
  BY <1>0, <1>1, <1>2 DEF Given, Setup
<1>6. PICK e \in Buffers :
        /\ args' = [args EXCEPT ![q] = Append(args[q], e)]
        /\ e = 0 => UNCHANGED <<dma, regs>>
        /\ e # 0 => /\ e = Len(dma[q]) + 1 /\ Len(dma'[q]) = e /\ DOMAIN dma'[q] = 1..e
                    /\ DOMAIN dma[q] \subseteq 1..e
                    /\ regs'[q] = [regs[q] EXCEPT ![s] = e]
                    /\ \A p \in Port \ {q} : dma'[p] = dma[p] /\ regs'[p] = regs[p]
  BY <1>0, <1>1, PointerGiven
<1>7. /\ Len(args'[q]) = Len(args[q]) + 1
      /\ (\A i \in DOMAIN args'[q] : args'[q][i] # 0) => e # 0 /\ \A i \in DOMAIN args[q] : args[q][i] # 0
      /\ \A p \in Port \ {q} : args'[p] = args[p]
  BY <1>6, ArgsAppended
<1>8. ArgsOK(q)
  BY DEF ArgsInv
<1> HIDE DEF Given
<1>9. Len(args'[q]) = Given(q)' /\ Given(q)' >= 1
  BY <1>4, <1>7, <1>8 DEF ArgsOK
<1>10. ASSUME \A i \in DOMAIN args'[q] : args'[q][i] # 0
       PROVE  /\ regs'[q].input \in DOMAIN dma'[q]
              /\ Given(q)' >= 2 => regs'[q].output \in DOMAIN dma'[q]
  <2>1. /\ Given(q) >= 1 => regs[q].input \in DOMAIN dma[q]
        /\ Given(q) >= 2 => regs[q].output \in DOMAIN dma[q]
    BY <1>7, <1>8, <1>10 DEF ArgsOK
  <2>2. /\ DOMAIN dma'[q] = 1..e /\ DOMAIN dma[q] \subseteq 1..e /\ e \in 1..e
        /\ regs'[q] = [regs[q] EXCEPT ![s] = e]
    BY <1>6, <1>7, <1>10 DEF Buffers
  <2>3. regs[q] \in [input : Buffers, output : Buffers, first : BOOLEAN]
    BY DEF Typed, TypeOK
  <2>4. CASE s = "input"
    BY <1>4, <2>1, <2>2, <2>3, <2>4
  <2>5. CASE s = "output"
    BY <1>4, <2>1, <2>2, <2>3, <2>5
  <2>6. QED
    BY <1>1, <2>4, <2>5
<1>11. ArgsOK(q)'
  BY <1>4, <1>9, <1>10 DEF ArgsOK
<1>12. ASSUME NEW p \in Port \ {q} PROVE ArgsOK(p)'
  <2>1. ArgsOK(p) /\ args'[p] = args[p] /\ dma'[p] = dma[p] /\ regs'[p] = regs[p] /\ Given(p)' = Given(p)
    BY <1>5, <1>6, <1>7 DEF ArgsInv
  <2>2. QED
    BY <2>1 DEF ArgsOK
<1>13. QED
  BY <1>11, <1>12 DEF ArgsInv

LEMMA ArgsData == Typed /\ ArgsInv /\ ArgumentData => ArgsInv'
<1> SUFFICES ASSUME Typed, ArgsInv, ArgumentData PROVE ArgsInv'
  OBVIOUS
<1>0. PICK q \in Port : q = host.port
  BY DEF Typed, TypeOK
<1>1. /\ host \in HostStates /\ host.at = "flag_argument"
      /\ NextPort("input", "write_row") /\ launch' = launch /\ launch \in Nat /\ launch >= 1
  <2>1. host \in HostStates /\ host.at = "flag_argument" /\ NextPort("input", "write_row") /\ launch' = launch
    BY DEF Typed, TypeOK, ArgumentData, At, HostStates
  <2>2. launch \in Nat
    BY LaunchesCounted
  <2>3. QED
    BY <2>1, <2>2 DEF Typed, Phases, Setup
<1>2. \/ host.port < Ports /\ host'.at = "input" /\ host'.port = host.port + 1
      \/ host.port = Ports /\ host'.at = "write_row" /\ host'.port = 1
  BY <1>1, HostGoesNextPort DEF Steps
<1>3. Port \subseteq Nat /\ Ports \in Nat /\ \A p \in Port : p <= Ports
  BY BlockBounds, ZynqAssumption DEF Port
<1>4. Given(q)' = Given(q) + 1 /\ Given(q) \in Nat /\ Given(q) >= 2
  <2>1. q \in Nat /\ host.port = q /\ ~(q < q) /\ q < q + 1
    BY <1>0, <1>3
  <2>2. Given(q) = 3 * launch - 3 + 2
    BY <1>1, <2>1 DEF Given, InHand, Setup
  <2>3. Given(q)' = 3 * launch
    BY <1>1, <1>2, <2>1 DEF Given, Setup
  <2>4. QED
    BY <1>1, <2>2, <2>3
<1>5. ASSUME NEW p \in Port \ {q} PROVE Given(p)' = Given(p)
  <2>1. p \in Nat /\ q \in Nat /\ p # q /\ host.port = q /\ p <= Ports
    BY <1>0, <1>3
  <2>2. CASE p < q
    <3>1. p < q + 1 /\ Given(p) = 3 * launch
      BY <1>1, <2>1, <2>2 DEF Given
    <3>2. Given(p)' = 3 * launch
      BY <1>1, <1>2, <2>1, <3>1 DEF Given, Setup
    <3>3. QED
      BY <3>1, <3>2
  <2>3. CASE ~(p < q)
    <3>1. q < Ports /\ ~(p < q + 1)
      BY <1>3, <2>1, <2>3
    <3>2. Given(p) = 3 * launch - 3
      BY <1>1, <2>1, <2>3 DEF Given, Setup
    <3>3. host'.at = "input" /\ host'.port = q + 1
      BY <1>2, <2>1, <3>1
    <3>4. InHand' = 0
      BY <3>3 DEF InHand
    <3>5. Given(p)' = 3 * launch - 3
      BY <1>1, <3>1, <3>3, <3>4 DEF Given, Setup
    <3>6. QED
      BY <3>2, <3>5
  <2>4. QED
    BY <2>2, <2>3
<1>6. UNCHANGED <<dma, regs>> /\ args' = [args EXCEPT ![q] = Append(args[q], Data)]
  BY <1>0 DEF ArgumentData
<1>7. /\ Len(args'[q]) = Len(args[q]) + 1
      /\ (\A i \in DOMAIN args'[q] : args'[q][i] # 0) => \A i \in DOMAIN args[q] : args[q][i] # 0
      /\ \A p \in Port \ {q} : args'[p] = args[p]
  BY <1>1, <1>6, ArgsAppended
<1> HIDE DEF Given
<1>8. ArgsOK(q)'
  <2>1. ArgsOK(q)
    BY <1>1 DEF ArgsInv
  <2>2. QED
    BY <1>4, <1>6, <1>7, <2>1 DEF ArgsOK
<1>9. ASSUME NEW p \in Port \ {q} PROVE ArgsOK(p)'
  <2>1. ArgsOK(p) /\ args'[p] = args[p] /\ dma'[p] = dma[p] /\ regs'[p] = regs[p] /\ Given(p)' = Given(p)
    BY <1>5, <1>6, <1>7 DEF ArgsInv
  <2>2. QED
    BY <2>1 DEF ArgsOK
<1>10. QED
  BY <1>8, <1>9 DEF ArgsInv

LEMMA ArgsNext == Typed /\ Typed' /\ ArgsInv /\ [Next]_vars => ArgsInv'
<1> SUFFICES ASSUME Typed, Typed', ArgsInv, [Next]_vars PROVE ArgsInv'
  OBVIOUS
<1>1. Len(<<>>) = 0
  BY EmptySeq
<1>2. CASE Open
  <2>1. host' = [host EXCEPT !.at = "idle"] /\ host \in HostStates /\ host.at = "closed"
    BY <1>2 DEF Open, Goto, At, Typed, TypeOK, HostStates
  <2>2. ASSUME NEW p \in Port PROVE ArgsOK(p)'
    <3>1. Given(p) = 0 /\ Given(p)' = 0
      <4>1. host'.at = "idle" /\ launch' = 0
        BY <1>2, <2>1 DEF Open, HostStates
      <4>2. QED
        BY <2>1, <4>1 DEF Given, Setup
    <3>2. Len(dma'[p]) = 0
      BY <1>2, <3>1 DEF Open, ArgsInv, ArgsOK
    <3>3. args'[p] = <<>>
      BY <1>2 DEF Open
    <3> HIDE DEF Given
    <3>4. QED
      BY <1>1, <3>1, <3>2, <3>3 DEF ArgsOK
  <2>3. QED
    BY <2>2 DEF ArgsInv
<1>3. CASE Close
  <2>1. ASSUME NEW p \in Port PROVE ArgsOK(p)'
    <3>1. host \in HostStates /\ Goto("closed")
      BY <1>3 DEF Close, Typed, TypeOK, HostStates
    <3>2. Given(p)' = 0
      BY <3>1, HostGoes DEF Given, Steps
    <3>3. args'[p] = <<>> /\ dma'[p] = <<>>
      BY <1>3 DEF Close
    <3> HIDE DEF Given
    <3>4. QED
      BY <1>1, <3>2, <3>3 DEF ArgsOK
  <2>2. QED
    BY <2>1 DEF ArgsInv
<1>4. CASE Launch
  <2>1. host.at = "idle" /\ launch' = launch + 1 /\ UNCHANGED <<args, dma, regs>> /\ launch \in Nat
    BY <1>4, ZynqAssumption DEF Launch, At, Typed, TypeOK
  <2>2. host'.at = "input" /\ host'.port = 1
    BY <1>4 DEF Launch
  <2>3. \A p \in Port : p \in Nat /\ ~(p < 1)
    BY ZynqAssumption DEF Port
  <2>4. \A p \in Port : Given(p)' = Given(p)
    BY <2>1, <2>2, <2>3 DEF Given, InHand, Setup
  <2>5. QED
    BY <2>1, <2>4, ArgsFrame
<1>5. CASE ArgumentPointer("input", "output") \/ ArgumentPointer("output", "flag_argument")
  BY <1>5, ArgsPointer
<1>6. CASE ArgumentData
  BY <1>6, ArgsData
<1>7. CASE WriteRow \/ WriteFlag \/ Acknowledge \/ Start \/ Poll \/ ReadRow \/ NextRow
  BY <1>7, ArgsInLoop
<1>8. ASSUME NEW p \in Port, FilterStep(p) PROVE ArgsInv'
  <2>1. UNCHANGED <<host, launch, args, regs>>
    BY <1>8 DEF FilterStep, Load, Store
  <2>2. \A q \in Port : Given(q)' = Given(q)
    BY <2>1 DEF Given, InHand
  <2>3. \A q \in Port : Len(dma'[q]) = Len(dma[q]) /\ DOMAIN dma'[q] = DOMAIN dma[q]
    BY <1>8, Stored DEF FilterStep, Load
  <2>4. QED
    BY <2>1, <2>2, <2>3, ArgsFrame
<1>9. CASE UNCHANGED vars
  <2>1. UNCHANGED <<host, launch, args, regs, dma>>
    BY <1>9 DEF vars
  <2>2. \A q \in Port : Given(q)' = Given(q)
    BY <2>1 DEF Given, InHand
  <2>3. QED
    BY <2>1, <2>2, ArgsFrame
<1>10. QED
  BY <1>2, <1>3, <1>4, <1>5, <1>6, <1>7, <1>8, <1>9 DEF Next, HostStep

LEMMA InitArgs == Init => ArgsInv
<1> SUFFICES ASSUME Init, NEW p \in Port PROVE ArgsOK(p)
  BY DEF ArgsInv
<1>1. args[p] = <<>> /\ dma[p] = <<>> /\ host.at = "closed"
  BY DEF Init
<1>2. Len(<<>>) = 0
  BY EmptySeq
<1>3. QED
  BY <1>1, <1>2 DEF ArgsOK, Given

-----------------------------------------------------------------------------
\* The filters the host has started in this row.  One it has not left behind
\* runs only then, and its done bit tells whether it does.
Started(p) ==
  \/ host.at = "poll"
  \/ host.at \in {"write_row", "write_flag", "acknowledge", "start"} /\ p < host.port
FilterOK(p) ==
  /\ filter[p] # "idle" => Started(p) /\ ~done[p] /\ p \notin host.ready
  /\ host.at = "start" /\ host.port = p => ~done[p]
FilterInv == \A p \in Port \ left : FilterOK(p)

\* The step of the host does not change which filters it has started.
LEMMA FilterFrame ==
  ASSUME FilterInv, NEW p \in Port \ left, filter'[p] = filter[p],
         host'.ready = host.ready \/ host'.ready = {},
         host'.at # "start", done'[p] = done[p] \/ done'[p] = FALSE,
         Started(p) => Started(p)'
  PROVE  FilterOK(p)'
<1>1. FilterOK(p)
  BY DEF FilterInv
<1> HIDE DEF Started
<1>2. QED
  BY <1>1 DEF FilterOK

LEMMA FilterAtRest ==
  ASSUME FilterInv, NEW p \in Port \ left, host.at \notin Loop \/ host.at \in {"read_row", "next_row"}
  PROVE  filter[p] = "idle"
BY DEF FilterInv, FilterOK, Started, Loop

LEMMA FilterOutside ==
  ASSUME Typed, FilterInv,
         Open \/ Close \/ Launch \/ ArgumentData \/ ReadRow \/ NextRow
         \/ ArgumentPointer("input", "output") \/ ArgumentPointer("output", "flag_argument")
  PROVE  FilterInv'
<1>1. host \in HostStates /\ (host.at \notin Loop \/ host.at \in {"read_row", "next_row"})
  BY DEF Typed, TypeOK, HostStates, Open, Close, Launch, ArgumentData, ReadRow, NextRow, ArgumentPointer, At, Loop
<1>2. filter' = filter
  BY DEF Open, Close, Launch, ArgumentData, ReadRow, NextRow, ArgumentPointer
<1>3. \A p \in Port \ left' : filter[p] = "idle"
  <2>1. CASE Open
    BY <2>1 DEF Open
  <2>2. CASE ~Open
    <3>1. left' = left \/ left' = Port
      BY <2>2 DEF Close, Launch, ArgumentData, ReadRow, NextRow, ArgumentPointer
    <3>2. QED
      BY <1>1, <3>1, FilterAtRest
  <2>3. QED
    BY <2>1, <2>2
<1>4. host'.at # "start"
  <2>1. CASE Open \/ Close
    <3>1. Goto("idle") \/ Goto("closed")
      BY <2>1 DEF Open, Close
    <3>2. QED
      BY <1>1, <3>1, HostGoes DEF Steps
  <2>2. CASE Launch
    BY <2>2 DEF Launch
  <2>3. CASE ArgumentPointer("input", "output") \/ ArgumentPointer("output", "flag_argument")
    <3>1. Goto("output") \/ Goto("flag_argument")
      BY <2>3 DEF ArgumentPointer
    <3>2. QED
      BY <1>1, <3>1, HostGoes DEF Steps
  <2>4. CASE ArgumentData \/ ReadRow
    <3>1. NextPort("input", "write_row") \/ Goto("oops") \/ NextPort("read_row", "next_row")
      BY <2>4 DEF ArgumentData, ReadRow
    <3>2. QED
      BY <1>1, <3>1, HostGoes, HostGoesNextPort DEF Steps
  <2>5. CASE NextRow
    BY <2>5, NextRowGoes
  <2>6. QED
    BY <2>1, <2>2, <2>3, <2>4, <2>5
<1>5. QED
  BY <1>2, <1>3, <1>4 DEF FilterInv, FilterOK

LEMMA FilterWrites ==
  ASSUME Typed, FilterInv, WriteRow \/ WriteFlag \/ Acknowledge
  PROVE  FilterInv'
<1>1. host \in HostStates /\ host.at \in {"write_row", "write_flag", "acknowledge"} /\ filter' = filter
  BY DEF Typed, TypeOK, HostStates, WriteRow, WriteFlag, Acknowledge, At
<1>2. CASE WriteRow /\ left' = Port
  BY <1>2 DEF FilterInv
<1>3. CASE WriteRow /\ left' # Port
  <2>1. Goto("write_flag") /\ left' = left /\ done' = done
    BY <1>3 DEF WriteRow
  <2>2. host'.at = "write_flag" /\ host'.port = host.port /\ host'.ready = host.ready
    BY <1>1, <2>1, HostGoes DEF Steps
  <2>3. \A p : Started(p) => Started(p)'
    BY <1>1, <2>2 DEF Started
  <2>4. QED
    BY <1>1, <2>1, <2>2, <2>3, FilterFrame DEF FilterInv
<1>4. CASE WriteFlag
  <2>1. Goto("acknowledge") /\ left' = left /\ done' = done
    BY <1>4 DEF WriteFlag
  <2>2. host'.at = "acknowledge" /\ host'.port = host.port /\ host'.ready = host.ready
    BY <1>1, <2>1, HostGoes DEF Steps
  <2>3. \A p : Started(p) => Started(p)'
    BY <1>1, <2>2 DEF Started
  <2>4. QED
    BY <1>1, <2>1, <2>2, <2>3, FilterFrame DEF FilterInv
<1>5. CASE Acknowledge
  <2>1. Goto("start") /\ left' = left /\ done' = [done EXCEPT ![host.port] = FALSE]
    BY <1>5 DEF Acknowledge
  <2>2. host'.at = "start" /\ host'.port = host.port /\ host'.ready = host.ready
    BY <1>1, <2>1, HostGoes DEF Steps
  <2>3. \A p : Started(p) => Started(p)'
    BY <1>1, <2>2 DEF Started
  <2>4. ASSUME NEW p \in Port \ left PROVE FilterOK(p)'
    <3>1. FilterOK(p) /\ filter'[p] = filter[p] /\ host'.ready = host.ready
      BY <1>1, <2>2 DEF FilterInv
    <3>2. done'[p] = IF p = host.port THEN FALSE ELSE done[p]
      BY <2>1 DEF Typed, TypeOK
    <3>3. Started(p) => Started(p)'
      BY <2>3
    <3> HIDE DEF Started
    <3>4. QED
      BY <2>2, <3>1, <3>2, <3>3 DEF FilterOK
  <2>5. QED
    BY <2>1, <2>4 DEF FilterInv
<1>6. QED
  BY <1>2, <1>3, <1>4, <1>5

LEMMA FilterStarts == Typed /\ FilterInv /\ Start => FilterInv'
<1> SUFFICES ASSUME Typed, FilterInv, Start, NEW p \in Port \ left PROVE FilterOK(p)'
  BY DEF FilterInv, Start
<1>1. /\ host \in HostStates /\ host.at = "start" /\ NextPort("write_row", "poll")
      /\ done' = done /\ host.ready = {}
  BY DEF Typed, TypeOK, HostStates, Start, At, Phases
<1>2. PICK q \in Port : q = host.port
  BY <1>1 DEF HostStates
<1>3. /\ host'.ready = host.ready
      /\ \/ host'.at = "write_row" /\ host'.port = q + 1
         \/ host'.at = "poll"
  BY <1>1, <1>2, HostGoesNextPort DEF Steps
<1>4. p \in Nat /\ q \in Nat
  BY BlockBounds
<1>5. p < q \/ p = q => Started(p)'
  <2>1. p < q \/ p = q => p < q + 1
    BY <1>4
  <2>2. QED
    BY <1>3, <2>1 DEF Started
<1>6. Started(p) => p < q
  BY <1>1, <1>2 DEF Started
<1>7. FilterOK(p)
  BY DEF FilterInv
<1>8. p # q => filter'[p] = filter[p]
  BY <1>2 DEF Start, Typed, TypeOK
<1> HIDE DEF Started
<1>9. QED
  BY <1>1, <1>2, <1>3, <1>5, <1>6, <1>7, <1>8 DEF FilterOK

LEMMA FilterPolled == Typed /\ FilterInv /\ Poll => FilterInv'
<1> SUFFICES ASSUME Typed, FilterInv, Poll, NEW p \in Port \ left' PROVE FilterOK(p)'
  BY DEF FilterInv
<1>1. /\ host.at = "poll" /\ filter' = filter
      /\ done' = [done EXCEPT ![host.port] = FALSE]
      /\ host'.at \in {"poll", "read_row", "next_row"}
      /\ left \subseteq left'
      /\ host'.at # "poll" => left' = left \cup (Port \ Polled(host.ready)) /\ host'.ready = {}
      /\ host'.ready = Polled(host.ready) \/ host'.ready = {}
  BY PollGoes DEF Poll
<1>2. done'[p] = done[p] \/ done'[p] = FALSE
  BY <1>1 DEF Typed, TypeOK
<1>3. FilterOK(p)
  BY <1>1 DEF FilterInv
<1>4. filter[p] # "idle" => ~done[p] /\ p \notin Polled(host.ready)
  BY <1>3 DEF FilterOK, Polled
<1>5. Started(p)' \/ filter[p] = "idle"
  BY <1>1, <1>4 DEF Started
<1> HIDE DEF Started
<1>6. QED
  BY <1>1, <1>2, <1>4, <1>5 DEF FilterOK

LEMMA FilterRuns ==
  ASSUME Typed, FilterInv, NEW q \in Port, FilterStep(q)
  PROVE  FilterInv'
<1> SUFFICES ASSUME NEW p \in Port \ left PROVE FilterOK(p)'
  BY DEF FilterInv, FilterStep, Load, Store
<1>1. host' = host /\ FilterOK(p) /\ filter[q] # "idle" /\ (Started(p)' = Started(p))
  BY DEF FilterInv, FilterStep, Load, Store, Started
<1>2. CASE p # q
  <2>1. filter'[p] = filter[p] /\ done'[p] = done[p]
    BY <1>2 DEF FilterStep, Load, Store, Typed, TypeOK
  <2> HIDE DEF Started
  <2>2. QED
    BY <1>1, <2>1 DEF FilterOK
<1>3. CASE p = q
  <2>1. Started(p) /\ ~done[p] /\ p \notin host.ready
    BY <1>1, <1>3 DEF FilterOK
  <2>2. ~(host.at = "start" /\ host.port = p)
    <3>1. p \in Nat /\ ~(p < p)
      BY BlockBounds
    <3>2. QED
      BY <2>1, <3>1 DEF Started
  <2>3. \/ filter'[p] = "loaded" /\ done' = done
        \/ filter'[p] = "idle"
    BY <1>3 DEF FilterStep, Load, Store, Typed, TypeOK
  <2> HIDE DEF Started
  <2>4. QED
    BY <1>1, <2>1, <2>2, <2>3 DEF FilterOK
<1>4. QED
  BY <1>2, <1>3

LEMMA FilterNext == Typed /\ FilterInv /\ [Next]_vars => FilterInv'
<1> SUFFICES ASSUME Typed, FilterInv, [Next]_vars PROVE FilterInv'
  OBVIOUS
<1>1. CASE UNCHANGED vars
  BY <1>1 DEF vars, FilterInv, FilterOK, Started
<1>2. CASE HostStep
  BY <1>2, FilterOutside, FilterWrites, FilterStarts, FilterPolled DEF HostStep
<1>3. CASE \E q \in Port : FilterStep(q)
  BY <1>3, FilterRuns
<1>4. QED
  BY <1>1, <1>2, <1>3 DEF Next

LEMMA InitFilter == Init => FilterInv
BY DEF Init, FilterInv, FilterOK

Kept == Typed /\ ArgsInv /\ FilterInv
LEMMA KeptAlways == Spec => []Kept
<1>1. Init => Kept
  BY InitTyped, InitArgs, InitFilter DEF Kept
<1>2. Kept /\ [Next]_vars => Kept'
  BY StepTyped, ArgsNext, FilterNext DEF Kept
<1>3. QED
  BY <1>1, <1>2, PTL DEF Spec

\* A filter the host waits for runs only inside a launch, after its driver was
\* given all arguments: if all were allocated, it knows its two buffers and
\* release, which only runs outside a launch, has not freed them.
THEOREM NoBufferFreedUnderFilter == Spec => []NoFreedBuffer
<1>1. Kept => NoFreedBuffer
  <2> SUFFICES ASSUME Kept, NEW p \in Port \ left, filter[p] # "idle",
                      \A i \in DOMAIN args[p] : args[p][i] # 0
               PROVE  {regs[p].input, regs[p].output} \subseteq DOMAIN dma[p]
    BY DEF NoFreedBuffer
  <2>1. Typed /\ ArgsOK(p) /\ FilterOK(p)
    BY DEF Kept, ArgsInv, FilterInv
  <2>2. host.at \in Loop
    BY <2>1 DEF FilterOK, Started, Loop
  <2>3. launch \in Nat /\ launch >= 1
    BY <2>1, <2>2, LaunchesCounted DEF Typed, Phases
  <2>4. Given(p) = 3 * launch
    BY <2>2, GivenInLoop
  <2>5. Given(p) >= 2 /\ Given(p) >= 1
    BY <2>3, <2>4
  <2>6. QED
    BY <2>1, <2>5 DEF ArgsOK
<1>2. QED
  BY <1>1, KeptAlways, PTL

-----------------------------------------------------------------------------
\* The rows read back.  Of the block of a port, those are in the output that
\* are below Reach and that the host reads: from row MaskHeight on.
Reach(p) ==
  IF host.at = "idle" /\ launch > 0 THEN MaskHeight + ImageHeight \div Ports + 1
  ELSE IF host.at = "next_row" \/ (host.at = "read_row" /\ p < host.port) THEN host.row + 1
  ELSE IF host.at \in Loop THEN host.row
  ELSE 0
RowRead(p, j) == Block(p) + j \in DOMAIN out
ReadBack ==
  \A p \in Port : \A j \in Nat : MaskHeight <= j /\ j < Reach(p) => RowRead(p, j)

LEMMA ReachIsNat == Typed => \A p \in Port : Reach(p) \in Nat
<1>1. MaskHeight + ImageHeight \div Ports + 1 \in Nat
  <2>1. MaskHeight \in Nat /\ ImageHeight \div Ports \in Nat
    BY BlockBounds, ZynqAssumption
  <2>2. QED
    BY <2>1
<1>2. Typed => host.row \in Nat /\ host.row + 1 \in Nat
  BY DEF Typed, TypeOK
<1>3. QED
  BY <1>1, <1>2 DEF Reach

\* A step that loses no row and promises no more, but rows it never reads.
LEMMA ReadFrame ==
  ASSUME Typed, ReadBack, DOMAIN out \subseteq DOMAIN out',
         \A p \in Port : Reach(p)' = Reach(p) \/ Reach(p)' \in 0..MaskHeight
  PROVE  ReadBack'
<1> SUFFICES ASSUME NEW p \in Port, NEW j \in Nat, MaskHeight <= j, j < Reach(p)'
             PROVE  RowRead(p, j)'
  BY DEF ReadBack
<1>1. MaskHeight \in Nat
  BY ZynqAssumption
<1> HIDE DEF Reach
<1>2. Reach(p)' = Reach(p)
  <2>1. ~(Reach(p)' \in 0..MaskHeight)
    BY <1>1
  <2>2. QED
    BY <2>1
<1>3. RowRead(p, j)
  BY <1>2 DEF ReadBack
<1>4. Block(p)' = Block(p)
  BY DEF Block
<1>5. QED
  BY <1>3, <1>4 DEF RowRead

\* Outside the loop and before its first row nothing is promised.
LEMMA ReadReset ==
  ASSUME Typed',
         host'.at \notin Loop \cup {"idle"} \/ (host'.at = "idle" /\ launch' = 0)
           \/ (host'.at = "write_row" /\ host'.row = 0)
  PROVE  ReadBack'
<1> SUFFICES ASSUME NEW p \in Port, NEW j \in Nat, MaskHeight <= j, j < Reach(p)'
             PROVE  FALSE
  BY DEF ReadBack
<1>1. MaskHeight \in Nat
  BY ZynqAssumption
<1>2. ~(0 > 0)
  OBVIOUS
<1>3. Reach(p)' = 0
  BY <1>2 DEF Reach, Loop
<1>4. QED
  BY <1>1, <1>3

LEMMA ReadOutside ==
  ASSUME Typed, Typed', ReadBack,
         Open \/ Close \/ Launch \/ ArgumentData
         \/ ArgumentPointer("input", "output") \/ ArgumentPointer("output", "flag_argument")
  PROVE  ReadBack'
<1>1. host \in HostStates
  BY DEF Typed, TypeOK, HostStates
<1>2. CASE Open
  <2>1. Goto("idle") /\ launch' = 0
    BY <1>2 DEF Open
  <2>2. host'.at = "idle"
    BY <1>1, <2>1, HostGoes DEF Steps
  <2>3. QED
    BY <2>1, <2>2, ReadReset
<1>3. CASE Close \/ ArgumentPointer("input", "output") \/ ArgumentPointer("output", "flag_argument")
  <2>1. Goto("closed") \/ Goto("output") \/ Goto("flag_argument")
    BY <1>3 DEF Close, ArgumentPointer
  <2>2. host'.at \notin Loop \cup {"idle"}
    BY <1>1, <2>1, HostGoes DEF Steps, Loop
  <2>3. QED
    BY <2>2, ReadReset
<1>4. CASE Launch
  <2>1. host'.at \notin Loop \cup {"idle"}
    BY <1>4 DEF Launch, Loop
  <2>2. QED
    BY <2>1, ReadReset
<1>5. CASE ArgumentData
  <2>1. NextPort("input", "write_row") /\ host.row = 0
    BY <1>5 DEF ArgumentData, At, Typed, Phases, Setup
  <2>2. host'.at = "input" \/ (host'.at = "write_row" /\ host'.row = 0)
    BY <1>1, <2>1, HostGoesNextPort DEF Steps
  <2>3. QED
    BY <2>2, ReadReset DEF Loop
<1>6. QED
  BY <1>2, <1>3, <1>4, <1>5

\* Writing, starting and polling reads no row: a poll that skips the reading
\* does so only in the first MaskHeight rows.
LEMMA ReadInLoop ==
  ASSUME Typed, Typed', ReadBack,
         WriteRow \/ WriteFlag \/ Acknowledge \/ Start \/ Poll
  PROVE  ReadBack'
<1>1. /\ host \in HostStates /\ out' = out /\ launch' = launch
      /\ host.at \in Loop \ {"read_row", "next_row"}
  BY DEF Typed, TypeOK, HostStates, WriteRow, WriteFlag, Acknowledge, Start, Poll, At, Loop
<1>2. \A p \in Port : Reach(p) = host.row
  BY <1>1 DEF Reach, Loop
<1>3. CASE WriteRow /\ Goto("oops")
  <2>1. host'.at = "oops"
    BY <1>1, <1>3, HostGoes DEF Steps
  <2>2. QED
    BY <2>1, ReadReset DEF Loop
<1>4. CASE Goto("write_flag") \/ Goto("acknowledge") \/ Goto("start") \/ NextPort("write_row", "poll")
  <2>1. /\ host'.at \in {"write_flag", "acknowledge", "start", "write_row", "poll"}
        /\ host'.row = host.row
    BY <1>1, <1>4, HostGoes, HostGoesNextPort DEF Steps
  <2>2. \A p \in Port : Reach(p)' = host.row
    BY <2>1 DEF Reach, Loop
  <2>3. QED
    BY <1>1, <1>2, <2>2, ReadFrame
<1>5. CASE Poll
  <2>1. /\ host'.row = host.row
        /\ \/ host'.at = "poll"
           \/ host'.at = "read_row" /\ host'.port = 1
           \/ host'.at = "next_row" /\ host.row < Latency
    BY <1>5, PollGoes
  <2>2. Latency = MaskHeight /\ MaskHeight \in Nat /\ host.row \in Nat /\ Port \subseteq Nat \ {0}
    BY <1>1, BlockBounds, ZynqAssumption DEF HostStates, Port
  <2>3. CASE host'.at = "poll" \/ host'.at = "read_row"
    <3>1. \A p \in Port : ~(p < 1)
      BY <2>2
    <3>2. \A p \in Port : Reach(p)' = host.row
      BY <2>1, <2>3, <3>1 DEF Reach, Loop
    <3>3. QED
      BY <1>1, <1>2, <3>2, ReadFrame
  <2>4. CASE host'.at = "next_row"
    <3>1. host.row + 1 \in 0..MaskHeight
      BY <2>1, <2>2, <2>4
    <3>2. \A p \in Port : Reach(p)' = host.row + 1
      BY <2>1, <2>4 DEF Reach
    <3>3. QED
      BY <1>1, <3>1, <3>2, ReadFrame
  <2>5. QED
    BY <2>1, <2>3, <2>4
<1>6. QED
  BY <1>3, <1>4, <1>5 DEF WriteRow, WriteFlag, Acknowledge, Start

LEMMA ReadGrows == Typed /\ Typed' /\ ReadBack /\ ReadRow => ReadBack'
<1> SUFFICES ASSUME Typed, Typed', ReadBack, ReadRow PROVE ReadBack'
  OBVIOUS
<1>1. host \in HostStates /\ host.at = "read_row" /\ host.row \in Nat
  BY DEF Typed, TypeOK, HostStates, ReadRow, At
<1>2. PICK q \in Port : q = host.port
  BY <1>1 DEF HostStates
<1>3. CASE Goto("oops")
  <2>1. host'.at = "oops"
    BY <1>1, <1>3, HostGoes DEF Steps
  <2>2. QED
    BY <2>1, ReadReset DEF Loop
<1>4. CASE ~Goto("oops")
  <2>1. /\ NextPort("read_row", "next_row")
        /\ DOMAIN out' = DOMAIN out \cup {Block(q) + host.row}
    BY <1>2, <1>4 DEF ReadRow, ReadInto
  <2>2. /\ host'.row = host.row
        /\ \/ host'.at = "read_row" /\ host'.port = q + 1
           \/ host'.at = "next_row" /\ q = Ports
    BY <1>1, <1>2, <2>1, HostGoesNextPort DEF Steps
  <2>3. ASSUME NEW p \in Port, NEW j \in Nat, MaskHeight <= j, j < Reach(p)'
        PROVE  RowRead(p, j)'
    <3>1. p \in Nat /\ q \in Nat /\ p <= Ports /\ Ports \in Nat
      BY BlockBounds, ZynqAssumption DEF Port
    <3>2. Reach(p)' = IF p <= q THEN host.row + 1 ELSE host.row
      <4>1. CASE host'.at = "next_row"
        BY <2>2, <3>1, <4>1 DEF Reach
      <4>2. CASE host'.at = "read_row" /\ host'.port = q + 1
        <5>1. p < q + 1 <=> p <= q
          BY <3>1
        <5>2. QED
          BY <2>2, <4>2, <5>1 DEF Reach, Loop
      <4>3. QED
        BY <2>2, <4>1, <4>2
    <3>3. Reach(p) = IF p < q THEN host.row + 1 ELSE host.row
      BY <1>1, <1>2 DEF Reach, Loop
    <3> HIDE DEF Reach
    <3>4. j < Reach(p) \/ (p = q /\ j = host.row)
      BY <1>1, <2>3, <3>1, <3>2, <3>3
    <3>5. Block(p)' = Block(p)
      BY DEF Block
    <3>6. CASE j < Reach(p)
      <4>1. RowRead(p, j)
        BY <2>3, <3>6 DEF ReadBack
      <4>2. QED
        BY <2>1, <3>5, <4>1 DEF RowRead
    <3>7. CASE p = q /\ j = host.row
      BY <2>1, <3>5, <3>7 DEF RowRead
    <3>8. QED
      BY <3>4, <3>6, <3>7
  <2>4. QED
    BY <2>3 DEF ReadBack
<1>5. QED
  BY <1>3, <1>4

LEMMA ReadNextRow == Typed /\ Typed' /\ ReadBack /\ NextRow => ReadBack'
<1> SUFFICES ASSUME Typed, Typed', ReadBack, NextRow PROVE ReadBack'
  OBVIOUS
<1>1. out' = out /\ launch' = launch
  BY DEF NextRow
<1>2. /\ host.at = "next_row" /\ host'.row = host.row + 1 /\ host \in HostStates
      /\ \/ host'.at = "write_row"
         \/ host'.at = "idle" /\ host.row = MaskHeight + ImageHeight \div Ports
  BY NextRowGoes
<1>3. launch \in Nat /\ launch >= 1 /\ launch > 0
  <2>1. launch \in Nat /\ launch >= 1
    BY <1>2, LaunchesCounted DEF Typed, Phases, Loop
  <2>2. QED
    BY <2>1
<1>4. \A p \in Port : Reach(p) = host.row + 1
  BY <1>2 DEF Reach
<1>5. \A p \in Port : Reach(p)' = host.row + 1
  BY <1>1, <1>2, <1>3 DEF Reach, Loop
<1>6. QED
  BY <1>1, <1>4, <1>5, ReadFrame

LEMMA ReadNext == Typed /\ Typed' /\ ReadBack /\ [Next]_vars => ReadBack'
<1> SUFFICES ASSUME Typed, Typed', ReadBack, [Next]_vars PROVE ReadBack'
  OBVIOUS
<1>1. ASSUME UNCHANGED <<host, launch, out>> PROVE ReadBack'
  <2>1. \A p \in Port : Reach(p)' = Reach(p)
    BY <1>1 DEF Reach
  <2>2. QED
    BY <1>1, <2>1, ReadFrame
<1>2. CASE UNCHANGED vars
  BY <1>1, <1>2 DEF vars
<1>3. CASE \E p \in Port : FilterStep(p)
  BY <1>1, <1>3 DEF FilterStep, Load, Store
<1>4. QED
  BY <1>2, <1>3, ReadOutside, ReadInLoop, ReadGrows, ReadNextRow DEF Next, HostStep

LEMMA InitReadBack == Init => ReadBack
<1>1. ASSUME Init, NEW p PROVE Reach(p) = 0
  BY <1>1 DEF Init, Reach, Loop
<1>2. MaskHeight \in Nat
  BY ZynqAssumption
<1>3. \A j \in Nat : ~(MaskHeight <= j /\ j < 0)
  BY <1>2
<1>4. QED
  BY <1>1, <1>3 DEF ReadBack

LEMMA Quotient ==
  ASSUME NEW q \in Nat \ {0}, NEW d \in Nat
  PROVE  d \div q \in Nat /\ (d \div q) * q <= d /\ d < (d \div q) * q + q
OBVIOUS

LEMMA Cancel ==
  ASSUME NEW q \in Nat \ {0}, NEW a \in Nat, NEW b \in Nat, a * q < b * q
  PROVE  a < b
OBVIOUS

LEMMA Product ==
  ASSUME NEW a \in Nat, NEW b \in Nat
  PROVE  a * b \in Nat /\ a * b = b * a
OBVIOUS

LEMMA Distribute ==
  ASSUME NEW a \in Nat, NEW b \in Nat, NEW n \in Nat
  PROVE  (a + b) * n = a * n + b * n
OBVIOUS

\* The blocks leave no gap, also where the ports do not divide the height: the
\* last block that starts at or above a row reaches it.
LEMMA BlocksTile ==
  ASSUME NEW d \in 0..(ImageHeight - 1)
  PROVE  \E p \in Port : Block(p) <= d /\ d <= Block(p) + ImageHeight \div Ports
<1>1. Ports \in Nat \ {0} /\ ImageHeight \in Nat \ {0} /\ d \in Nat /\ d + 1 \in Nat
  BY ZynqAssumption
<1> DEFINE n == Ports
           h == ImageHeight
           m == (d + 1) * n - 1
           k == m \div h
           b == (k * h) \div n
           q == h \div n
<1> HIDE DEF n, h
<1>2. n \in Nat \ {0} /\ h \in Nat \ {0} /\ d < h
  BY <1>1 DEF n, h
<1>3. (d + 1) * n = d * n + n /\ d * n \in Nat /\ m \in Nat
  <2>1. (d + 1) * n = d * n + 1 * n /\ 1 * n = n
    BY <1>1, <1>2, Distribute
  <2>2. d * n \in Nat
    BY <1>1, <1>2, Product
  <2>3. QED
    BY <1>2, <2>1, <2>2
<1> HIDE DEF m
<1>4. k \in Nat /\ k * h <= m /\ m < k * h + h
  BY <1>2, <1>3, Quotient
<1> HIDE DEF k
<1>5. k * h \in Nat
  BY <1>2, <1>4, Product
<1>6. b \in Nat /\ b * n <= k * h /\ k * h < b * n + n
  BY <1>2, <1>5, Quotient
<1>7. q \in Nat /\ q * n <= h /\ h < q * n + n
  BY <1>2, Quotient
<1> HIDE DEF b, q
<1>8. b * n \in Nat /\ q * n \in Nat
  BY <1>2, <1>6, <1>7, Product
<1>9. b <= d
  <2>1. b * n < (d + 1) * n
    BY <1>2, <1>3, <1>4, <1>5, <1>6, <1>8 DEF m
  <2>2. b < d + 1
    BY <1>1, <1>2, <1>6, <2>1, Cancel
  <2>3. QED
    BY <1>1, <1>6, <2>2
<1>10. d <= b + q
  <2>1. b + q \in Nat /\ b + q + 2 \in Nat
    BY <1>6, <1>7
  <2>2. (b + q + 2) * n = b * n + q * n + 2 * n
    <3>1. (b + q) * n = b * n + q * n
      BY <1>2, <1>6, <1>7, Distribute
    <3>2. ((b + q) + 2) * n = (b + q) * n + 2 * n
      BY <1>2, <2>1, Distribute
    <3>3. QED
      BY <3>1, <3>2
  <2>3. (d + 1) * n < (b + q + 2) * n
    BY <1>2, <1>3, <1>4, <1>5, <1>6, <1>7, <1>8, <2>2 DEF m
  <2>4. d + 1 < b + q + 2
    BY <1>1, <1>2, <2>1, <2>3, Cancel
  <2>5. QED
    BY <1>1, <1>6, <1>7, <2>4
<1>11. k < n
  <2>1. k * h < n * h
    <3>1. (h - 1 - d) * n \in Nat /\ (h - 1 - d) \in Nat
      BY <1>1, <1>2, Product
    <3>2. ((d + 1) + (h - 1 - d)) * n = (d + 1) * n + (h - 1 - d) * n
      BY <1>1, <1>2, <3>1, Distribute
    <3>3. (d + 1) + (h - 1 - d) = h
      BY <1>1, <1>2
    <3>4. h * n = n * h /\ h * n \in Nat
      BY <1>2, Product
    <3>5. h * n = (d + 1) * n + (h - 1 - d) * n
      BY <3>2, <3>3
    <3>6. QED
      BY <1>2, <1>3, <1>4, <1>5, <3>1, <3>4, <3>5 DEF m
  <2>2. QED
    BY <1>2, <1>4, <2>1, Cancel
<1>12. k + 1 \in Port /\ (k + 1) - 1 = k
  BY <1>2, <1>4, <1>11 DEF Port, n
<1>13. Block(k + 1) = b
  BY <1>12 DEF Block, b, n, h
<1>14. QED
  BY <1>9, <1>10, <1>12, <1>13 DEF q, n, h

\* The blocks leave no gap, and each port reads all rows of its block back: a
\* launch that returns has read as many rows as the image has, one after the
\* other, for any height and any number of ports.
THEOREM RowsReadWithoutGap == Spec => []RowsWithoutGap
<1>1. Typed /\ ReadBack => RowsWithoutGap
  <2> SUFFICES ASSUME Typed, ReadBack, host.at = "idle", launch > 0
               PROVE  \E first \in DOMAIN out : first..(first + ImageHeight - 1) \subseteq DOMAIN out
    BY DEF RowsWithoutGap, At
  <2>1. MaskHeight \in Nat /\ ImageHeight \in Nat \ {0} /\ ImageHeight \div Ports \in Nat
    BY BlockBounds, ZynqAssumption
  <2>2. ASSUME NEW r \in MaskHeight..(MaskHeight + ImageHeight - 1) PROVE r \in DOMAIN out
    <3>1. r - MaskHeight \in 0..(ImageHeight - 1)
      BY <2>1
    <3>2. PICK p \in Port : Block(p) <= r - MaskHeight /\ r - MaskHeight <= Block(p) + ImageHeight \div Ports
      BY <3>1, BlocksTile
    <3>3. Block(p) \in Nat
      BY BlockBounds
    <3>4. Reach(p) = MaskHeight + ImageHeight \div Ports + 1
      BY DEF Reach
    <3> DEFINE b == Block(p)
               q == ImageHeight \div Ports
               j == r - b
    <3>5. b \in Nat /\ q \in Nat /\ b <= r - MaskHeight /\ r - MaskHeight <= b + q /\ Reach(p) = MaskHeight + q + 1
      BY <2>1, <3>2, <3>3, <3>4
    <3> HIDE DEF b, q
    <3>6. j \in Nat /\ MaskHeight <= j /\ j < MaskHeight + q + 1 /\ b + j = r
      BY <2>1, <3>5
    <3> HIDE DEF j
    <3>7. RowRead(p, j)
      BY <3>5, <3>6 DEF ReadBack
    <3>8. QED
      BY <3>6, <3>7 DEF RowRead, b
  <2>3. MaskHeight \in MaskHeight..(MaskHeight + ImageHeight - 1)
    BY <2>1
  <2>4. MaskHeight \in DOMAIN out
    BY <2>2, <2>3
  <2>5. QED
    BY <2>2, <2>4
<1>2. Spec => [](Typed /\ ReadBack)
  <2>1. Init => Typed /\ ReadBack
    BY InitTyped, InitReadBack
  <2>2. Typed /\ ReadBack /\ [Next]_vars => (Typed /\ ReadBack)'
    BY StepTyped, ReadNext
  <2>3. QED
    BY <2>1, <2>2, PTL DEF Spec
<1>3. QED
  BY <1>1, <1>2, PTL

-----------------------------------------------------------------------------
\* The first launch.  Every driver has one buffer at most for the input and one
\* for the output, which no earlier launch has used.
BuffersOK(p) ==
  /\ Len(args[p]) >= 1 /\ args[p][1] # 0 => args[p][1] = 1 /\ regs[p].input = 1 /\ Len(dma[p]) >= 1
  /\ Len(args[p]) = 1 /\ args[p][1] # 0 => Len(dma[p]) = 1
  /\ Len(args[p]) >= 2 /\ args[p][1] # 0 /\ args[p][2] # 0 =>
       args[p][2] = 2 /\ regs[p].output = 2 /\ Len(dma[p]) >= 2
FirstBuffers == launch = 1 => \A p \in Port : BuffersOK(p)

LEMMA BuffersFrame ==
  ASSUME FirstBuffers, launch' = launch, args' = args,
         \A p \in Port : /\ regs'[p].input = regs[p].input /\ regs'[p].output = regs[p].output
                         /\ Len(dma'[p]) = Len(dma[p])
  PROVE  FirstBuffers'
BY DEF FirstBuffers, BuffersOK

LEMMA BuffersPointer ==
  ASSUME Typed, Typed', ArgsInv, FirstBuffers, NEW s, NEW after,
         (s = "input" /\ after = "output") \/ (s = "output" /\ after = "flag_argument"),
         ArgumentPointer(s, after)
  PROVE  FirstBuffers'
<1> SUFFICES ASSUME launch' = 1, NEW p \in Port PROVE BuffersOK(p)'
  BY DEF FirstBuffers
<1>1. /\ host.at = s /\ launch = 1 /\ BuffersOK(p) /\ s \in {"input", "output"}
      /\ Len(args[p]) = Given(p) /\ (Given(p) = 0 => Len(dma[p]) = 0)
  BY DEF ArgumentPointer, At, FirstBuffers, ArgsInv, ArgsOK
<1>2. PICK q \in Port : q = host.port
  BY DEF Typed, TypeOK
<1>3. PICK e \in Buffers :
        /\ args' = [args EXCEPT ![q] = Append(args[q], e)]
        /\ e = 0 => UNCHANGED <<dma, regs>>
        /\ e # 0 => /\ e = Len(dma[q]) + 1 /\ Len(dma'[q]) = e /\ DOMAIN dma'[q] = 1..e
                    /\ DOMAIN dma[q] \subseteq 1..e
                    /\ regs'[q] = [regs[q] EXCEPT ![s] = e]
                    /\ \A o \in Port \ {q} : dma'[o] = dma[o] /\ regs'[o] = regs[o]
  BY <1>1, <1>2, PointerGiven
<1>4. /\ Len(args'[q]) = Len(args[q]) + 1 /\ args'[q][Len(args[q]) + 1] = e
      /\ \A i \in 1..Len(args[q]) : args'[q][i] = args[q][i]
      /\ \A o \in Port \ {q} : args'[o] = args[o]
  BY <1>3, ArgsAppended
<1>5. CASE p # q
  BY <1>1, <1>3, <1>4, <1>5 DEF BuffersOK
<1>6. CASE p = q
  <2>1. regs[q] \in [input : Buffers, output : Buffers, first : BOOLEAN]
    BY DEF Typed, TypeOK
  <2>2. q \in Nat /\ ~(q < q)
    BY BlockBounds
  <2>3. Given(q) = IF s = "input" THEN 0 ELSE 1
    BY <1>1, <1>2, <2>2 DEF Given, InHand, Setup
  <2>4. CASE s = "input"
    <3>1. Len(args[q]) = 0 /\ Len(dma[q]) = 0
      BY <1>1, <1>6, <2>3, <2>4
    <3>2. Len(args'[q]) = 1 /\ args'[q][1] = e
      BY <1>4, <3>1
    <3>3. e # 0 => e = 1 /\ Len(dma'[q]) = 1 /\ regs'[q].input = 1
      BY <1>3, <2>1, <2>4, <3>1
    <3>4. QED
      BY <1>6, <3>2, <3>3 DEF BuffersOK
  <2>5. CASE s = "output"
    <3>1. Len(args[q]) = 1
      BY <1>1, <1>6, <2>3, <2>5
    <3>2. Len(args'[q]) = 2 /\ args'[q][1] = args[q][1] /\ args'[q][2] = e
      BY <1>4, <3>1
    <3>3. args[q][1] # 0 => Len(dma[q]) = 1 /\ args[q][1] = 1 /\ regs[q].input = 1
      BY <1>1, <1>6, <3>1 DEF BuffersOK
    <3> SUFFICES ASSUME args[q][1] # 0 PROVE BuffersOK(p)'
      BY <1>6, <3>2 DEF BuffersOK
    <3>4. Len(dma[q]) = 1 /\ regs[q].input = 1
      BY <3>3
    <3>5. CASE e = 0
      <4>1. dma'[q] = dma[q] /\ regs'[q] = regs[q]
        BY <1>3, <3>5
      <4>2. regs'[q].input = 1 /\ Len(dma'[q]) = 1
        BY <3>4, <4>1
      <4>3. QED
        BY <1>6, <3>2, <3>3, <3>5, <4>2 DEF BuffersOK
    <3>6. CASE e # 0
      <4>1. e = Len(dma[q]) + 1 /\ Len(dma'[q]) = e /\ regs'[q] = [regs[q] EXCEPT ![s] = e]
        BY <1>3, <3>6
      <4>2. regs'[q].output = e /\ regs'[q].input = regs[q].input
        BY <2>1, <2>5, <4>1
      <4>3. e = 2 /\ Len(dma'[q]) = 2
        BY <3>4, <4>1
      <4>4. QED
        BY <1>6, <3>2, <3>3, <4>2, <4>3 DEF BuffersOK
    <3>7. QED
      BY <3>5, <3>6
  <2>6. QED
    BY <1>1, <2>4, <2>5
<1>7. QED
  BY <1>5, <1>6

LEMMA BuffersData ==
  ASSUME Typed, ArgsInv, FirstBuffers, ArgumentData
  PROVE  FirstBuffers'
<1> SUFFICES ASSUME launch' = 1, NEW p \in Port PROVE BuffersOK(p)'
  BY DEF FirstBuffers
<1>1. PICK q \in Port : q = host.port
  BY DEF Typed, TypeOK
<1>2. /\ launch = 1 /\ host.at = "flag_argument" /\ UNCHANGED <<dma, regs>>
      /\ args' = [args EXCEPT ![q] = Append(args[q], Data)] /\ BuffersOK(p)
  BY <1>1 DEF ArgumentData, At, FirstBuffers
<1>3. /\ Len(args'[q]) = Len(args[q]) + 1
      /\ \A i \in 1..Len(args[q]) : args'[q][i] = args[q][i]
      /\ \A o \in Port \ {q} : args'[o] = args[o]
  BY <1>2, ArgsAppended
<1>4. CASE p # q
  BY <1>2, <1>3, <1>4 DEF BuffersOK
<1>5. CASE p = q
  <2>1. q \in Nat /\ ~(q < q)
    BY BlockBounds
  <2>2. Given(q) = 2
    BY <1>1, <1>2, <2>1 DEF Given, InHand, Setup
  <2>3. Len(args[q]) = 2
    BY <2>2 DEF ArgsInv, ArgsOK
  <2>4. Len(args'[q]) = 3 /\ args'[q][1] = args[q][1] /\ args'[q][2] = args[q][2]
    BY <1>3, <2>3
  <2>5. QED
    BY <1>2, <1>5, <2>3, <2>4 DEF BuffersOK
<1>6. QED
  BY <1>4, <1>5

LEMMA BuffersNext ==
  ASSUME Typed, Typed', ArgsInv, FirstBuffers, [Next]_vars
  PROVE  FirstBuffers'
<1>1. CASE Open
  BY <1>1 DEF Open, FirstBuffers
<1>2. CASE Launch
  <2> SUFFICES ASSUME launch' = 1, NEW p \in Port PROVE BuffersOK(p)'
    BY DEF FirstBuffers
  <2>1. launch' = launch + 1 /\ args' = args /\ host.at = "idle" /\ launch \in Nat
    BY <1>2, LaunchesCounted DEF Launch, At
  <2>2. launch = 0
    BY <2>1
  <2>3. Given(p) = 0
    BY <2>1, <2>2 DEF Given, Setup
  <2>4. Len(args'[p]) = 0
    BY <2>1, <2>3 DEF ArgsInv, ArgsOK
  <2>5. QED
    BY <2>4 DEF BuffersOK
<1>3. CASE Close
  <2>1. \A p \in Port : args'[p] = <<>>
    BY <1>3 DEF Close
  <2>2. Len(<<>>) = 0
    BY EmptySeq
  <2>3. QED
    BY <2>1, <2>2 DEF FirstBuffers, BuffersOK
<1>4. CASE WriteRow \/ WriteFlag \/ Acknowledge \/ Start \/ Poll \/ ReadRow \/ NextRow
  <2>1. launch' = launch /\ args' = args
    BY <1>4 DEF WriteRow, WriteFlag, Acknowledge, Start, Poll, ReadRow, NextRow
  <2>2. QED
    BY <1>4, <2>1, BuffersKept, BuffersFrame
<1>5. ASSUME NEW q \in Port, FilterStep(q) PROVE FirstBuffers'
  <2>1. UNCHANGED <<launch, args, regs>>
    BY <1>5 DEF FilterStep, Load, Store
  <2>2. \A p \in Port : Len(dma'[p]) = Len(dma[p])
    BY <1>5, Stored DEF FilterStep, Load
  <2>3. QED
    BY <2>1, <2>2, BuffersFrame
<1>6. CASE UNCHANGED vars
  BY <1>6, BuffersFrame DEF vars
<1>7. CASE ArgumentPointer("input", "output") \/ ArgumentPointer("output", "flag_argument")
  BY <1>7, BuffersPointer
<1>8. CASE ArgumentData
  BY <1>8, BuffersData
<1>9. QED
  BY <1>1, <1>2, <1>3, <1>4, <1>5, <1>6, <1>7, <1>8 DEF Next, HostStep

\* How far the current row is on this port, from "waiting" to "answered".
Phase(p) ==
  IF host.at \in {"read_row", "next_row"} THEN "answered"
  ELSE IF Started(p) THEN (IF filter[p] = "idle" THEN "finished" ELSE filter[p])
  ELSE IF p = host.port /\ host.at = "write_flag" THEN "written"
  ELSE IF p = host.port /\ host.at \in {"acknowledge", "start"} THEN "flagged"
  ELSE "waiting"

\* The line buffer ends with the rows of the block up to row k.
Upto(p, k) ==
  \A i \in 1..MaskHeight : k + i >= MaskHeight => lines[p][i] = Row(Block(p) + k - MaskHeight + i)

\* What every phase has made of the buffers, the flag and the line buffer.
RowOK(p) ==
  /\ Phase(p) # "waiting" => args[p][1] # 0
  /\ Phase(p) \in {"written", "flagged", "started"} => dma[p][1] = Row(Block(p) + host.row)
  /\ Phase(p) \in {"flagged", "started"} => (regs[p].first <=> host.row = 0)
  /\ Phase(p) \in {"waiting", "written", "flagged", "started"} => Upto(p, host.row - 1)
  /\ Phase(p) \in {"loaded", "finished", "answered"} => Upto(p, host.row)
  /\ Phase(p) \in {"finished", "answered"} /\ args[p][2] # 0 => dma[p][2] = Filtered(lines[p])
FirstRows == launch = 1 /\ host.at \in Loop => \A p \in Port \ left : RowOK(p)

\* All that the proofs of the rows rest on.
First == Kept /\ FirstBuffers /\ FirstRows

LEMMA RowFrame ==
  ASSUME NEW p \in Port, RowOK(p), Phase(p)' = Phase(p), host'.row = host.row, launch' = launch,
         args' = args, lines'[p] = lines[p], dma'[p] = dma[p], regs'[p].first = regs[p].first
  PROVE  RowOK(p)'
<1>1. Block(p)' = Block(p)
  BY DEF Block
<1>2. Upto(p, host.row - 1)' <=> Upto(p, host.row - 1)
  BY <1>1 DEF Upto, Row
<1>3. Upto(p, host.row)' <=> Upto(p, host.row)
  BY <1>1 DEF Upto, Row
<1>4. Row(Block(p) + host.row)' = Row(Block(p) + host.row)
  BY <1>1 DEF Row
<1> HIDE DEF Phase
<1>5. QED
  BY <1>1, <1>2, <1>3, <1>4 DEF RowOK, Filtered

\* The buffers of a port that was given all its arguments.
LEMMA FirstBuffersThere ==
  ASSUME First, launch = 1, host.at \in Loop, NEW p \in Port
  PROVE  /\ args[p][1] # 0 => args[p][1] = 1 /\ regs[p].input = 1 /\ 1 \in DOMAIN dma[p]
         /\ args[p][1] # 0 /\ args[p][2] # 0 =>
              args[p][2] = 2 /\ regs[p].output = 2 /\ 2 \in DOMAIN dma[p]
         /\ dma[p] \in Seq(Contents)
<1>1. BuffersOK(p) /\ Len(args[p]) = Given(p) /\ dma[p] \in Seq(Contents)
  BY DEF First, Kept, FirstBuffers, ArgsInv, ArgsOK, Typed, TypeOK, Contents
<1>2. Given(p) = 3
  BY GivenInLoop
<1>3. Len(dma[p]) \in Nat /\ DOMAIN dma[p] = 1..Len(dma[p])
  BY <1>1, LenProperties
<1>4. Len(args[p]) >= 1 /\ Len(args[p]) >= 2
  BY <1>1, <1>2
<1>5. ASSUME args[p][1] # 0 PROVE args[p][1] = 1 /\ regs[p].input = 1 /\ 1 \in DOMAIN dma[p]
  <2>1. args[p][1] = 1 /\ regs[p].input = 1 /\ Len(dma[p]) >= 1
    BY <1>1, <1>4, <1>5 DEF BuffersOK
  <2>2. QED
    BY <1>3, <2>1
<1>6. ASSUME args[p][1] # 0, args[p][2] # 0
      PROVE  args[p][2] = 2 /\ regs[p].output = 2 /\ 2 \in DOMAIN dma[p]
  <2>1. args[p][2] = 2 /\ regs[p].output = 2 /\ Len(dma[p]) >= 2
    BY <1>1, <1>4, <1>6 DEF BuffersOK
  <2>2. QED
    BY <1>3, <2>1
<1>7. QED
  BY <1>1, <1>5, <1>6

LEMMA RowsWritten == First /\ WriteRow => FirstRows'
<1> SUFFICES ASSUME First, WriteRow, launch' = 1, host'.at \in Loop, NEW p \in Port \ left'
             PROVE  RowOK(p)'
  BY DEF FirstRows
<1>1. /\ host \in HostStates /\ host.at = "write_row" /\ host.at \in Loop
      /\ UNCHANGED <<launch, args, regs, filter, lines>>
  BY DEF First, Kept, Typed, TypeOK, HostStates, WriteRow, At, Loop
<1>2. PICK q \in Port : q = host.port
  BY <1>1 DEF HostStates
<1>3. ~Goto("oops")
  BY <1>1, HostGoes DEF Steps, Loop
<1> DEFINE v == Row(Block(q) + host.row)
           b == args[q][1]
<1>4. /\ b # 0 /\ dma' = [dma EXCEPT ![q] = [dma[q] EXCEPT ![b] = v]]
      /\ Goto("write_flag") /\ left' = left
  BY <1>2, <1>3 DEF WriteRow
<1>5. host'.at = "write_flag" /\ host'.port = q /\ host'.row = host.row
  BY <1>1, <1>2, <1>4, HostGoes DEF Steps
<1>6. RowOK(p)
  BY <1>1, <1>4 DEF First, FirstRows
<1> HIDE DEF v
<1>7. CASE p # q
  <2>1. dma'[p] = dma[p]
    BY <1>4, <1>7 DEF First, Kept, Typed, TypeOK
  <2>2. Phase(p)' = Phase(p)
    BY <1>1, <1>2, <1>5, <1>7 DEF Phase, Started
  <2>3. QED
    BY <1>1, <1>5, <1>6, <2>1, <2>2, RowFrame
<1>8. CASE p = q
  <2>1. q \in Nat /\ ~(q < q)
    BY BlockBounds
  <2>2. Phase(p) = "waiting" /\ Phase(p)' = "written"
    BY <1>1, <1>2, <1>5, <1>8, <2>1 DEF Phase, Started
  <2>3. b = 1 /\ 1 \in DOMAIN dma[q] /\ dma[q] \in Seq(Contents)
    BY <1>1, <1>4, FirstBuffersThere
  <2>4. dma'[q] = [dma[q] EXCEPT ![1] = v]
    BY <1>4, <2>3 DEF First, Kept, Typed, TypeOK
  <2>5. dma'[q][1] = v
    BY <2>3, <2>4
  <2>6. Block(p)' = Block(p)
    BY DEF Block
  <2>7. dma'[p][1] = Row(Block(p) + host.row)'
    BY <1>1, <1>5, <1>8, <2>5, <2>6 DEF v, Row
  <2>8. Upto(p, host.row - 1)
    BY <1>6, <2>2 DEF RowOK
  <2>9. Upto(p, host.row - 1)'
    BY <1>1, <1>5, <2>6, <2>8 DEF Upto, Row
  <2>10. args'[p][1] # 0
    BY <1>1, <1>4, <1>8
  <2> HIDE DEF Phase
  <2>11. QED
    BY <2>2, <2>7, <2>9, <2>10 DEF RowOK
<1>9. QED
  BY <1>7, <1>8

LEMMA RowsFlagged == First /\ WriteFlag => FirstRows'
<1> SUFFICES ASSUME First, WriteFlag, launch' = 1, NEW p \in Port \ left'
             PROVE  RowOK(p)'
  BY DEF FirstRows
<1>1. /\ host \in HostStates /\ host.at = "write_flag" /\ host.at \in Loop
      /\ UNCHANGED <<launch, args, dma, filter, lines, left>> /\ Goto("acknowledge")
  BY DEF First, Kept, Typed, TypeOK, HostStates, WriteFlag, At, Loop
<1>2. PICK q \in Port : q = host.port
  BY <1>1 DEF HostStates
<1>3. host'.at = "acknowledge" /\ host'.port = q /\ host'.row = host.row
  BY <1>1, <1>2, HostGoes DEF Steps
<1>4. RowOK(p)
  BY <1>1 DEF First, FirstRows
<1>5. PICK v \in BOOLEAN : v = (host.row = 0)
  OBVIOUS
<1>6. regs' = [regs EXCEPT ![q] = [regs[q] EXCEPT !.first = v]]
  BY <1>2, <1>5 DEF WriteFlag
<1>7. CASE p # q
  <2>1. regs'[p] = regs[p]
    BY <1>6, <1>7 DEF First, Kept, Typed, TypeOK
  <2>2. Phase(p)' = Phase(p)
    BY <1>1, <1>2, <1>3, <1>7 DEF Phase, Started
  <2>3. QED
    BY <1>1, <1>3, <1>4, <2>1, <2>2, RowFrame
<1>8. CASE p = q
  <2>1. q \in Nat /\ ~(q < q)
    BY BlockBounds
  <2>2. Phase(p) = "written" /\ Phase(p)' = "flagged"
    BY <1>1, <1>2, <1>3, <1>8, <2>1 DEF Phase, Started
  <2>3. regs[q] \in [input : Buffers, output : Buffers, first : BOOLEAN]
    BY DEF First, Kept, Typed, TypeOK
  <2>4. regs'[q] = [regs[q] EXCEPT !.first = v]
    BY <1>6 DEF First, Kept, Typed, TypeOK
  <2>5. regs'[q].first = v
    BY <2>3, <2>4
  <2>6. regs'[p].first <=> host'.row = 0
    BY <1>3, <1>5, <1>8, <2>5
  <2>7. Block(p)' = Block(p)
    BY DEF Block
  <2>8. args[p][1] # 0 /\ dma[p][1] = Row(Block(p) + host.row) /\ Upto(p, host.row - 1)
    BY <1>4, <2>2 DEF RowOK
  <2>9. Upto(p, host.row - 1)'
    BY <1>1, <1>3, <2>7, <2>8 DEF Upto, Row
  <2>10. args'[p][1] # 0 /\ dma'[p][1] = Row(Block(p) + host.row)'
    BY <1>1, <1>3, <2>7, <2>8 DEF Row
  <2> HIDE DEF Phase
  <2>11. QED
    BY <2>2, <2>6, <2>9, <2>10 DEF RowOK
<1>9. QED
  BY <1>7, <1>8

LEMMA RowsStarted == First /\ (Acknowledge \/ Start) => FirstRows'
<1> SUFFICES ASSUME First, Acknowledge \/ Start, launch' = 1, NEW p \in Port \ left'
             PROVE  RowOK(p)'
  BY DEF FirstRows
<1>1. /\ host \in HostStates /\ host.at \in {"acknowledge", "start"} /\ host.at \in Loop
      /\ UNCHANGED <<launch, args, dma, regs, lines, left>>
  BY DEF First, Kept, Typed, TypeOK, HostStates, Acknowledge, Start, At, Loop
<1>2. PICK q \in Port : q = host.port
  BY <1>1 DEF HostStates
<1>3. RowOK(p)
  BY <1>1 DEF First, FirstRows
<1>4. CASE Acknowledge
  <2>1. Goto("start") /\ filter' = filter /\ host.at = "acknowledge"
    BY <1>4 DEF Acknowledge, At
  <2>2. host'.at = "start" /\ host'.port = q /\ host'.row = host.row
    BY <1>1, <1>2, <2>1, HostGoes DEF Steps
  <2>3. Phase(p)' = Phase(p)
    BY <1>2, <2>1, <2>2 DEF Phase, Started
  <2>4. QED
    BY <1>1, <1>3, <2>2, <2>3, RowFrame
<1>5. CASE Start
  <2>1. /\ NextPort("write_row", "poll") /\ host.at = "start"
        /\ filter' = [filter EXCEPT ![q] = IF @ = "idle" THEN "started" ELSE @]
    BY <1>2, <1>5 DEF Start, At
  <2>2. /\ host'.row = host.row
        /\ \/ host'.at = "write_row" /\ host'.port = q + 1
           \/ host'.at = "poll" /\ q = Ports
    BY <1>1, <1>2, <2>1, HostGoesNextPort DEF Steps
  <2>3. p \in Nat /\ q \in Nat /\ Ports \in Nat /\ p <= Ports /\ ~(q < q)
    BY BlockBounds, ZynqAssumption DEF Port
  <2>4. CASE p # q
    <3>1. filter'[p] = filter[p]
      BY <2>1, <2>4 DEF First, Kept, Typed, TypeOK
    <3>2. p < q + 1 <=> p < q
      BY <2>3, <2>4
    <3>3. q = Ports => p < q
      BY <2>3, <2>4
    <3>4. Phase(p)' = Phase(p)
      BY <1>2, <2>1, <2>2, <2>4, <3>1, <3>2, <3>3 DEF Phase, Started
    <3>5. QED
      BY <1>1, <1>3, <2>2, <3>4, RowFrame
  <2>5. CASE p = q
    <3>1. ~Started(q) /\ Phase(q) = "flagged"
      BY <1>2, <2>1, <2>3 DEF Phase, Started
    <3>2. filter[q] = "idle"
      BY <1>1, <2>5, <3>1 DEF First, Kept, FilterInv, FilterOK
    <3>3. filter'[q] = "started"
      BY <2>1, <3>2 DEF First, Kept, Typed, TypeOK
    <3>4. q < q + 1
      BY <2>3
    <3>5. Phase(q)' = "started"
      BY <2>2, <3>3, <3>4 DEF Phase, Started
    <3>6. Block(p)' = Block(p)
      BY DEF Block
    <3>7. /\ args[p][1] # 0 /\ dma[p][1] = Row(Block(p) + host.row) /\ Upto(p, host.row - 1)
          /\ (regs[p].first <=> host.row = 0)
      BY <1>3, <2>5, <3>1 DEF RowOK
    <3>8. Upto(p, host.row - 1)'
      BY <1>1, <2>2, <3>6, <3>7 DEF Upto, Row
    <3>9. /\ args'[p][1] # 0 /\ dma'[p][1] = Row(Block(p) + host.row)'
          /\ (regs'[p].first <=> host'.row = 0)
      BY <1>1, <2>2, <3>6, <3>7 DEF Row
    <3> HIDE DEF Phase
    <3>10. QED
      BY <2>5, <3>5, <3>8, <3>9 DEF RowOK
  <2>6. QED
    BY <2>4, <2>5
<1>6. QED
  BY <1>4, <1>5

\* A poll that ends the loop takes only those ports along that have answered.
LEMMA RowsAnswered == First /\ (Poll \/ ReadRow) => FirstRows'
<1> SUFFICES ASSUME First, Poll \/ ReadRow, launch' = 1, host'.at \in Loop, NEW p \in Port \ left'
             PROVE  RowOK(p)'
  BY DEF FirstRows
<1>1. /\ host \in HostStates /\ host.at \in {"poll", "read_row"} /\ host.at \in Loop
      /\ UNCHANGED <<launch, args, dma, regs, filter, lines>>
  BY DEF First, Kept, Typed, TypeOK, HostStates, Poll, ReadRow, At, Loop
<1>2. CASE Poll
  <2>1. /\ host'.row = host.row /\ host.at = "poll" /\ left \subseteq left'
        /\ \/ host'.at = "poll"
           \/ /\ host'.at \in {"read_row", "next_row"}
              /\ left' = left \cup (Port \ Polled(host.ready))
    BY <1>2, PollGoes DEF First, Kept
  <2>2. RowOK(p) /\ FilterOK(p)
    BY <1>1, <2>1 DEF First, FirstRows, Kept, FilterInv
  <2>3. CASE host'.at = "poll"
    <3>1. Phase(p)' = Phase(p)
      BY <1>1, <2>1, <2>3 DEF Phase, Started
    <3>2. QED
      BY <1>1, <2>1, <2>2, <3>1, RowFrame
  <2>4. CASE host'.at \in {"read_row", "next_row"}
    <3>1. p \in Polled(host.ready)
      BY <2>1, <2>4
    <3>2. filter[p] = "idle"
      BY <2>2, <3>1 DEF FilterOK, Polled
    <3>3. Phase(p) = "finished" /\ Phase(p)' = "answered"
      BY <2>1, <2>4, <3>2 DEF Phase, Started
    <3>4. Block(p)' = Block(p)
      BY DEF Block
    <3>5. /\ args[p][1] # 0 /\ Upto(p, host.row)
          /\ args[p][2] # 0 => dma[p][2] = Filtered(lines[p])
      BY <2>2, <3>3 DEF RowOK
    <3>6. Upto(p, host.row)'
      BY <1>1, <2>1, <3>4, <3>5 DEF Upto, Row
    <3>7. /\ args'[p][1] # 0
          /\ args'[p][2] # 0 => dma'[p][2] = Filtered(lines[p])'
      BY <1>1, <3>5 DEF Filtered
    <3> HIDE DEF Phase
    <3>8. QED
      BY <3>3, <3>6, <3>7 DEF RowOK
  <2>5. QED
    BY <2>1, <2>3, <2>4
<1>3. CASE ReadRow
  <2>1. ~Goto("oops") /\ host.at = "read_row"
    BY <1>1, <1>3, HostGoes DEF Steps, Loop, ReadRow, At
  <2>2. NextPort("read_row", "next_row") /\ left' = left
    BY <1>3, <2>1 DEF ReadRow
  <2>3. host'.row = host.row /\ host'.at \in {"read_row", "next_row"}
    BY <1>1, <2>2, HostGoesNextPort DEF Steps
  <2>4. RowOK(p)
    BY <1>1, <2>2 DEF First, FirstRows
  <2>5. Phase(p)' = Phase(p)
    BY <2>1, <2>3 DEF Phase
  <2>6. QED
    BY <1>1, <2>3, <2>4, <2>5, RowFrame
<1>4. QED
  BY <1>2, <1>3

LEMMA RowsNext == First /\ NextRow => FirstRows'
<1> SUFFICES ASSUME First, NextRow, launch' = 1, host'.at \in Loop, NEW p \in Port \ left'
             PROVE  RowOK(p)'
  BY DEF FirstRows
<1>1. UNCHANGED <<launch, args, dma, regs, filter, lines, left>>
  BY DEF NextRow
<1>2. /\ host.at = "next_row" /\ host \in HostStates /\ host'.row = host.row + 1
      /\ host'.at = "write_row"
  BY NextRowGoes DEF First, Kept, Loop
<1>3. host.port = 1 /\ host.row \in Nat
  BY <1>2 DEF First, Kept, Typed, Phases, HostStates
<1>4. host'.port = 1
  <2>1. host' = [host EXCEPT !.at = IF host.row + 1 \in BlockRows THEN "write_row" ELSE "idle",
                             !.row = host.row + 1]
    BY DEF NextRow
  <2>2. host'.port = host.port
    BY <1>2, <2>1 DEF HostStates
  <2>3. QED
    BY <1>3, <2>2
<1>5. RowOK(p)
  BY <1>1, <1>2 DEF First, FirstRows, Loop
<1>6. p \in Nat /\ ~(p < 1)
  BY ZynqAssumption DEF Port
<1>7. Phase(p) = "answered" /\ Phase(p)' = "waiting"
  BY <1>2, <1>4, <1>6 DEF Phase, Started
<1>8. Block(p)' = Block(p) /\ host'.row - 1 = host.row
  BY <1>2, <1>3 DEF Block
<1>9. Upto(p, host.row)
  BY <1>5, <1>7 DEF RowOK
<1>10. Upto(p, host.row - 1)'
  BY <1>1, <1>8, <1>9 DEF Upto, Row
<1> HIDE DEF Phase
<1>11. QED
  BY <1>7, <1>10 DEF RowOK

LEMMA RowsBegin == First /\ ArgumentData => FirstRows'
<1> SUFFICES ASSUME First, ArgumentData, launch' = 1, host'.at \in Loop, NEW p \in Port \ left'
             PROVE  RowOK(p)'
  BY DEF FirstRows
<1>1. /\ host \in HostStates /\ NextPort("input", "write_row") /\ host.row = 0
  BY DEF First, Kept, Typed, TypeOK, Phases, HostStates, ArgumentData, At, Setup
<1>2. host'.at = "write_row" /\ host'.port = 1 /\ host'.row = 0
  BY <1>1, HostGoesNextPort DEF Steps, Loop
<1>3. p \in Nat /\ ~(p < 1)
  BY ZynqAssumption DEF Port
<1>4. Phase(p)' = "waiting"
  BY <1>2, <1>3 DEF Phase, Started
<1>5. \A i \in 1..MaskHeight : ~(0 - 1 + i >= MaskHeight)
  BY ZynqAssumption
<1>6. Upto(p, host.row - 1)'
  BY <1>2, <1>5 DEF Upto
<1> HIDE DEF Phase
<1>7. QED
  BY <1>4, <1>6 DEF RowOK

\* The row a filter loads is the one the host has just written for it.
LEMMA RowLoaded ==
  ASSUME First, launch = 1, NEW p \in Port \ left, Load(p)
  PROVE  /\ host.at \in Loop /\ RowOK(p) /\ Phase(p) = "started" /\ Phase(p)' = "loaded"
         /\ lines'[p][MaskHeight] = Row(Block(p) + host.row)
<1>1. Typed /\ FilterOK(p) /\ filter[p] = "started" /\ host' = host
  BY DEF First, Kept, FilterInv, Load
<1>2. Started(p) /\ host.at \in Loop
  BY <1>1 DEF FilterOK, Started, Loop
<1>3. RowOK(p)
  BY <1>2 DEF First, FirstRows
<1>4. host.at \notin {"read_row", "next_row"}
  BY <1>2 DEF Started
<1>5. filter'[p] = "loaded"
  BY <1>1 DEF Load, Typed, TypeOK
<1>6. Phase(p) = "started" /\ Phase(p)' = "loaded"
  BY <1>1, <1>2, <1>4, <1>5 DEF Phase, Started
<1> HIDE DEF Phase
<1>7. args[p][1] # 0 /\ dma[p][1] = Row(Block(p) + host.row)
  BY <1>3, <1>6 DEF RowOK
<1>8. regs[p].input = 1 /\ 1 \in DOMAIN dma[p]
  BY <1>2, <1>7, FirstBuffersThere
<1>9. Row(Block(p) + host.row) \in Rows
  <2>1. Block(p) \in Nat /\ host.row \in Nat
    BY <1>1, BlockBounds DEF Typed, TypeOK
  <2> DEFINE b == Block(p)
  <2> HIDE DEF b
  <2>2. b + host.row \in Nat
    BY <2>1 DEF b
  <2>3. QED
    BY <1>1, <2>2, ContentsTyped DEF Typed, TypeOK, b
<1>10. Loaded(p) = Row(Block(p) + host.row)
  BY <1>7, <1>8, <1>9 DEF Loaded, InBuffer
<1>11. QED
  BY <1>1, <1>2, <1>3, <1>6, <1>10, Shifted

LEMMA RowsLoaded ==
  ASSUME First, NEW q \in Port, Load(q)
  PROVE  FirstRows'
<1> SUFFICES ASSUME launch' = 1, host'.at \in Loop, NEW p \in Port \ left' PROVE RowOK(p)'
  BY DEF FirstRows
<1>1. UNCHANGED <<host, launch, args, dma, regs, done, left>> /\ Typed
  BY DEF Load, First, Kept
<1>2. RowOK(p)
  BY <1>1 DEF First, FirstRows
<1>3. CASE p # q
  <2>1. lines'[p] = lines[p] /\ filter'[p] = filter[p]
    BY <1>1, <1>3, Shifted DEF Load, Typed, TypeOK
  <2>2. Phase(p)' = Phase(p)
    BY <1>1, <2>1 DEF Phase, Started
  <2>3. QED
    BY <1>1, <1>2, <2>1, <2>2, RowFrame
<1>4. CASE p = q
  <2>1. /\ Phase(p) = "started" /\ Phase(p)' = "loaded"
        /\ lines'[p][MaskHeight] = Row(Block(p) + host.row)
    BY <1>1, <1>4, RowLoaded
  <2>2. \A i \in 1..(MaskHeight - 1) : lines'[p][i] = lines[p][i + 1]
    BY <1>1, <1>4, Shifted
  <2> HIDE DEF Phase
  <2>3. args[p][1] # 0 /\ Upto(p, host.row - 1)
    BY <1>2, <2>1 DEF RowOK
  <2>4. MaskHeight \in Nat \ {0} /\ host.row \in Nat /\ Block(p) \in Nat
    BY <1>1, ZynqAssumption, BlockBounds DEF Typed, TypeOK
  <2>5. ASSUME NEW i \in 1..MaskHeight, host.row + i >= MaskHeight
        PROVE  lines'[p][i] = Row(Block(p) + host.row - MaskHeight + i)
    <3> DEFINE b == Block(p)
    <3> HIDE DEF b
    <3>1. CASE i = MaskHeight
      <4>1. b + host.row - MaskHeight + i = b + host.row
        BY <2>4, <3>1 DEF b
      <4>2. QED
        BY <2>1, <3>1, <4>1 DEF b
    <3>2. CASE i # MaskHeight
      <4>1. /\ i \in 1..(MaskHeight - 1) /\ i + 1 \in 1..MaskHeight
            /\ (host.row - 1) + (i + 1) >= MaskHeight
            /\ b + (host.row - 1) - MaskHeight + (i + 1) = b + host.row - MaskHeight + i
        BY <2>4, <2>5, <3>2 DEF b
      <4>2. lines[p][i + 1] = Row(b + (host.row - 1) - MaskHeight + (i + 1))
        BY <2>3, <4>1 DEF Upto, b
      <4>3. QED
        BY <2>2, <4>1, <4>2 DEF b
    <3>3. QED
      BY <3>1, <3>2
  <2>6. Block(p)' = Block(p)
    BY DEF Block
  <2>7. Upto(p, host.row)'
    BY <1>1, <2>5, <2>6 DEF Upto, Row
  <2>8. QED
    BY <1>1, <2>1, <2>3, <2>7 DEF RowOK
<1>5. QED
  BY <1>3, <1>4

LEMMA RowsStored ==
  ASSUME First, NEW q \in Port, Store(q)
  PROVE  FirstRows'
<1> SUFFICES ASSUME launch' = 1, host'.at \in Loop, NEW p \in Port \ left' PROVE RowOK(p)'
  BY DEF FirstRows
<1>1. UNCHANGED <<host, launch, args, regs, lines, left>> /\ Typed
  BY DEF Store, First, Kept
<1>2. RowOK(p) /\ FilterOK(p)
  BY <1>1 DEF First, FirstRows, Kept, FilterInv
<1>3. CASE p # q
  <2>1. dma'[p] = dma[p]
    BY <1>1, <1>3, Stored
  <2>2. filter'[p] = filter[p]
    BY <1>1, <1>3 DEF Store, Typed, TypeOK
  <2>3. Phase(p)' = Phase(p)
    BY <1>1, <2>2 DEF Phase, Started
  <2>4. QED
    BY <1>1, <1>2, <2>1, <2>3, RowFrame
<1>4. CASE p = q
  <2>1. filter[p] = "loaded" /\ filter'[p] = "idle"
    BY <1>1, <1>4 DEF Store, Typed, TypeOK
  <2>2. Started(p)
    BY <1>2, <2>1 DEF FilterOK
  <2>3. Phase(p) = "loaded" /\ Phase(p)' = "finished"
    BY <1>1, <2>1, <2>2 DEF Phase, Started
  <2> HIDE DEF Phase
  <2>4. args[p][1] # 0 /\ Upto(p, host.row)
    BY <1>2, <2>3 DEF RowOK
  <2>5. ASSUME args[p][2] # 0 PROVE dma'[p][2] = Filtered(lines[p])
    <3>1. regs[p].output = 2 /\ 2 \in DOMAIN dma[p]
      BY <1>1, <2>4, <2>5, FirstBuffersThere
    <3>2. QED
      BY <1>1, <1>4, <3>1, Stored
  <2>6. Block(p)' = Block(p)
    BY DEF Block
  <2>7. Upto(p, host.row)'
    BY <1>1, <2>4, <2>6 DEF Upto, Row
  <2>8. Filtered(lines[p])' = Filtered(lines[p])
    BY <1>1 DEF Filtered
  <2>9. QED
    BY <1>1, <2>3, <2>4, <2>5, <2>7, <2>8 DEF RowOK
<1>5. QED
  BY <1>3, <1>4

LEMMA FirstNext == First /\ [Next]_vars => First'
<1> SUFFICES ASSUME First, [Next]_vars PROVE First'
  OBVIOUS
<1>1. Kept /\ Kept'
  BY StepTyped, ArgsNext, FilterNext DEF First, Kept
<1>2. FirstBuffers'
  BY <1>1, BuffersNext DEF First, Kept
<1>3. FirstRows'
  <2>1. CASE UNCHANGED vars
    <3>1. ASSUME NEW p \in Port, RowOK(p) PROVE RowOK(p)'
      <4>1. Phase(p)' = Phase(p)
        BY <2>1 DEF vars, Phase, Started
      <4>2. QED
        BY <2>1, <3>1, <4>1, RowFrame DEF vars
    <3>2. QED
      BY <2>1, <3>1 DEF First, FirstRows, vars
  <2>2. CASE Open \/ Close \/ Launch \/ ArgumentPointer("input", "output")
             \/ ArgumentPointer("output", "flag_argument")
    <3>1. host \in HostStates
      BY <1>1 DEF Kept, Typed, TypeOK, HostStates
    <3>2. \/ Goto("idle") \/ Goto("closed") \/ Goto("output") \/ Goto("flag_argument")
          \/ host'.at = "input"
      BY <2>2 DEF Open, Close, Launch, ArgumentPointer
    <3>3. host'.at \notin Loop
      BY <3>1, <3>2, HostGoes DEF Steps, Loop
    <3>4. QED
      BY <3>3 DEF FirstRows
  <2>3. CASE \E q \in Port : FilterStep(q)
    BY <2>3, RowsLoaded, RowsStored DEF FilterStep
  <2>4. QED
    BY <2>1, <2>2, <2>3, RowsWritten, RowsFlagged, RowsStarted, RowsAnswered, RowsNext, RowsBegin
       DEF Next, HostStep
<1>4. QED
  BY <1>1, <1>2, <1>3 DEF First

LEMMA InitFirst == Init => First
<1>1. Init => FirstBuffers /\ FirstRows
  BY DEF Init, FirstBuffers, FirstRows
<1>2. QED
  BY <1>1, InitTyped, InitArgs, InitFilter DEF First, Kept

\* A row read from a port that was awaited is the filter of the rows around it.
LEMMA FullWindow ==
  ASSUME First, launch = 1, host.at = "read_row", NEW p \in Port \ left, args[p][2] # 0
  PROVE  dma[p][args[p][2]] = Window(Block(p) + host.row)
<1>1. RowOK(p) /\ host.at \in Loop
  BY DEF First, FirstRows, Loop
<1>2. Phase(p) = "answered"
  BY DEF Phase
<1>3. args[p][1] # 0 /\ Upto(p, host.row) /\ dma[p][2] = Filtered(lines[p])
  BY <1>1, <1>2 DEF RowOK
<1>4. args[p][2] = 2
  BY <1>1, <1>3, FirstBuffersThere
<1>5. lines[p] \in Seq(Rows) /\ Len(lines[p]) = MaskHeight /\ host.row >= MaskHeight /\ host.row \in Nat
  BY DEF First, Kept, Typed, TypeOK, LinesKept, Phases
<1>6. MaskHeight \in Nat \ {0} /\ Block(p) \in Nat
  BY ZynqAssumption, BlockBounds
<1>7. DOMAIN lines[p] = 1..MaskHeight /\ lines[p] \in [1..MaskHeight -> Rows]
  BY <1>5, LenProperties
<1> DEFINE b == Block(p)
           r == b + host.row
<1> HIDE DEF b
<1>8. ASSUME NEW i \in 1..MaskHeight PROVE lines[p][i] = Row(r - MaskHeight + i)
  <2>1. host.row + i >= MaskHeight
    BY <1>5, <1>6
  <2>2. lines[p][i] = Row(b + host.row - MaskHeight + i)
    BY <1>3, <2>1 DEF Upto, b
  <2>3. b + host.row - MaskHeight + i = r - MaskHeight + i
    BY <1>5, <1>6 DEF b
  <2>4. QED
    BY <2>2, <2>3
<1> HIDE DEF r
<1>9. lines[p] = [i \in 1..MaskHeight |-> Row(r - MaskHeight + i)]
  BY <1>7, <1>8
<1>10. Filtered(lines[p]) = Window(r)
  BY <1>9 DEF Window
<1>11. QED
  BY <1>3, <1>4, <1>10 DEF r, b

LEMMA AwaitedNext == First /\ AwaitedRowsRight /\ [Next]_vars => AwaitedRowsRight'
<1> SUFFICES ASSUME First, AwaitedRowsRight, [Next]_vars, launch' = 1,
                    NEW r \in DOMAIN out', out'[r].from \notin left'
             PROVE  out'[r].row = Window(r)'
  BY DEF AwaitedRowsRight
<1>1. ASSUME out' = out, launch' = launch, left \subseteq left' PROVE out'[r].row = Window(r)'
  BY <1>1 DEF AwaitedRowsRight, Window, Row, Filtered
<1>2. CASE Open \/ Launch
  <2>1. DOMAIN out' = {}
    BY <1>2 DEF Open, Launch
  <2>2. QED
    BY <2>1
<1>3. CASE ReadRow
  <2>1. PICK q \in Port : q = host.port
    BY DEF First, Kept, Typed, TypeOK
  <2>2. host.at = "read_row" /\ launch' = launch
    BY <1>3 DEF ReadRow, At
  <2>3. CASE args[q][2] = 0
    <3>1. out' = out /\ left' = Port
      BY <1>3, <2>1, <2>3 DEF ReadRow
    <3>2. left \subseteq left'
      BY <3>1 DEF First, Kept, Typed, TypeOK
    <3>3. QED
      BY <1>1, <2>2, <3>1, <3>2
  <2>4. CASE args[q][2] # 0
    <3> DEFINE new == Block(q) + host.row
               value == [row |-> dma[q][args[q][2]], from |-> q]
    <3>1. out' = ReadInto(new, value) /\ left' = left
      BY <1>3, <2>1, <2>4 DEF ReadRow
    <3>2. Window(r)' = Window(r)
      BY <2>2 DEF Window, Row, Filtered
    <3>3. CASE r = new
      <4>1. out'[r] = value
        BY <3>1, <3>3 DEF ReadInto
      <4>2. value.row = dma[q][args[q][2]] /\ value.from = q
        OBVIOUS
      <4>3. q \in Port \ left
        BY <3>1, <4>1, <4>2
      <4>4. dma[q][args[q][2]] = Window(new)
        BY <2>2, <2>4, <4>3, FullWindow
      <4> HIDE DEF value, new
      <4>5. QED
        BY <3>2, <3>3, <4>1, <4>2, <4>4
    <3>4. CASE r # new
      <4> HIDE DEF new, value
      <4>1. r \in DOMAIN out /\ out'[r] = out[r]
        BY <3>1, <3>4 DEF ReadInto
      <4>2. QED
        BY <2>2, <3>1, <3>2, <4>1 DEF AwaitedRowsRight
    <3>5. QED
      BY <3>3, <3>4
  <2>5. QED
    BY <2>3, <2>4
<1>4. CASE Poll
  <2>1. left \subseteq left'
    BY <1>4, PollGoes DEF First, Kept
  <2>2. QED
    BY <1>1, <1>4, <2>1 DEF Poll
<1>5. CASE WriteRow
  <2>1. left \subseteq left'
    BY <1>5 DEF WriteRow, First, Kept, Typed, TypeOK
  <2>2. QED
    BY <1>1, <1>5, <2>1 DEF WriteRow
<1>6. CASE \/ Close \/ ArgumentPointer("input", "output") \/ ArgumentPointer("output", "flag_argument")
           \/ ArgumentData \/ WriteFlag \/ Acknowledge \/ Start \/ NextRow
  BY <1>1, <1>6 DEF Close, ArgumentPointer, ArgumentData, WriteFlag, Acknowledge, Start, NextRow
<1>7. CASE \/ UNCHANGED vars \/ \E p \in Port : FilterStep(p)
  BY <1>1, <1>7 DEF vars, FilterStep, Load, Store
<1>8. QED
  BY <1>2, <1>3, <1>4, <1>5, <1>6, <1>7 DEF Next, HostStep

LEMMA FirstAlways == Spec => []First
BY InitFirst, FirstNext, PTL DEF Spec

\* The poll leaves filters behind, but what the host reads in the first launch
\* from a port it has always waited for is right: the row was written before
\* the filter was started, the filter loaded each row once and in order, and its
\* answer came after it had stored the result.
THEOREM AwaitedRowsAreRight == Spec => []AwaitedRowsRight
<1>1. Init => AwaitedRowsRight
  BY DEF Init, AwaitedRowsRight
<1>2. QED
  BY <1>1, FirstAlways, AwaitedNext, PTL DEF Spec

\* A filter the host waits for loads the first row of its block with the flag,
\* and no other row of the first launch.
THEOREM FlagComesWithFirstRow == Spec => FlagWithFirstRow
<1>1. ASSUME First, [Next]_vars, NEW p \in Port \ left,
             launch = 1, filter[p] = "started", filter'[p] = "loaded"
      PROVE  regs[p].first <=> lines'[p][MaskHeight] = Row(Block(p))
  <2>1. Load(p)
    <3>1. filter'[p] # filter[p]
      BY <1>1
    <3>2. CASE HostStep
      <4>1. filter' = filter \/ Start
        BY <3>2 DEF HostStep, Open, Close, Launch, ArgumentPointer, ArgumentData, WriteRow,
                    WriteFlag, Acknowledge, Poll, ReadRow, NextRow
      <4>2. Start => filter'[p] \in {"started", filter[p]}
        BY DEF Start, First, Kept, Typed, TypeOK
      <4>3. QED
        BY <1>1, <4>1, <4>2
    <3>3. ASSUME NEW q \in Port, FilterStep(q) PROVE Load(p)
      <4>1. p = q
        <5>1. \/ filter' = [filter EXCEPT ![q] = "loaded"]
              \/ filter' = [filter EXCEPT ![q] = "idle"]
          BY <3>3 DEF FilterStep, Load, Store
        <5>2. filter \in [Port -> {"idle", "started", "loaded"}]
          BY <1>1 DEF First, Kept, Typed, TypeOK
        <5>3. QED
          BY <3>1, <5>1, <5>2
      <4>2. ~Store(p)
        BY <1>1 DEF Store
      <4>3. QED
        BY <3>3, <4>1, <4>2 DEF FilterStep
    <3>4. QED
      BY <1>1, <3>1, <3>2, <3>3 DEF Next, vars
  <2>2. /\ RowOK(p) /\ Phase(p) = "started"
        /\ lines'[p][MaskHeight] = Row(Block(p) + host.row)
    BY <1>1, <2>1, RowLoaded
  <2>3. regs[p].first <=> host.row = 0
    BY <2>2 DEF RowOK
  <2>4. host.row \in Nat /\ Block(p) \in Nat
    BY <1>1, BlockBounds DEF First, Kept, Typed, TypeOK
  <2> DEFINE b == Block(p)
  <2> HIDE DEF b
  <2>5. b + host.row = b <=> host.row = 0
    BY <2>4 DEF b
  <2>6. Row(b + host.row) = Row(b) <=> b + host.row = b
    BY DEF Row
  <2>7. QED
    BY <2>2, <2>3, <2>5, <2>6 DEF b
<1>2. First /\ [Next]_vars =>
        [\A p \in Port \ left : launch = 1 /\ filter[p] = "started" /\ filter'[p] = "loaded" =>
           (regs[p].first <=> lines'[p][MaskHeight] = Row(Block(p)))]_vars
  BY <1>1
<1>3. QED
  BY <1>2, FirstAlways, PTL DEF Spec, FlagWithFirstRow

=============================================================================
