------------------------------ MODULE ZynqBasic ------------------------------
(***************************************************************************)
(* The zynq_basic device: pocl_zynq_basic_run drives one image filter per  *)
(* AXI port (ACP, HP0..HP3) through one character device per port.  The    *)
(* image is cut into one block of rows per port.  For each row the host    *)
(* writes a row of every block, starts every filter, polls, and reads a    *)
(* row of every block back.                                                *)
(*                                                                         *)
(* The drivers of the ports are copies of each other; the filters run      *)
(* concurrently with the host.                                             *)
(***************************************************************************)
EXTENDS Integers, Sequences

CONSTANTS
  Ports,            \* number of AXI ports: 5 in the code
  ImageHeight,      \* IMAGE_HEIGHT: 1080
  MaskHeight,       \* MASK_HEIGHT and MASK_WIDTH: 7
  MaxLaunches,      \* bound: kernel launches of one process
  AllocOutcomes     \* what dma_alloc_coherent may do: TRUE it succeeds

ASSUME ZynqAssumption ==
  /\ {Ports, ImageHeight, MaskHeight} \subseteq Nat \ {0}
  /\ MaxLaunches \in Nat
  /\ AllocOutcomes \subseteq BOOLEAN

VARIABLES
  host,     \* host.at: the next step of the process; the port and row it is at,
            \* and ready, the ports whose ready bit this poll read as 1: the
            \* code's isIdle is their number
  launch,   \* kernel launches since the devices were opened
  args,     \* args[p]: fpga_arguments_list, as buffer numbers: 0 is a NULL
            \* buffer, Data an argument that lives in a register
  dma,      \* dma[p]: the contents of the buffers dma_alloc_coherent returned
  regs,     \* regs[p]: the argument registers of the filter
  filter,   \* filter[p]: "idle", "started", or "loaded" once it has its row
  lines,    \* lines[p]: lineBuffer, the last MaskHeight rows loaded
  done,     \* done[p]: bit 1 of the control register, cleared by a read
  out,      \* out[r]: row r of the output image, for the rows read back so far,
            \* and the port it came from
  left      \* history: the ports whose filter the host has not waited for: it
            \* left a poll before they answered, or it was ended

vars == <<host, launch, args, dma, regs, filter, lines, done, out, left>>

Port == 1..Ports
Data == -1
Empty == <<>>                      \* nothing written there yet
Row(r) == <<launch, r>>            \* row r of the input of this launch
Rows == (0..MaxLaunches) \X Nat \cup {Empty}
Filtered(rows) == <<rows>>         \* the result of the filter for those rows
\* Mutant: the blocks do not overlap by the rows of the mask.
BlockRowsAlone == 0..ImageHeight \div Ports - 1
\* The rows of a block the host writes: "2*MASK_HEIGHT/2" is MASK_HEIGHT.
BlockRows == 0..(2 * MaskHeight) \div 2 + ImageHeight \div Ports
Latency == (2 * MaskHeight) \div 2
Block(p) == ((p - 1) * ImageHeight) \div Ports

At(s) == host.at = s
Goto(s) == host' = [host EXCEPT !.at = s]
GotoPort(s, p) == host' = [host EXCEPT !.at = s, !.port = p]
\* Mutant: <= for <.
NextPortTooFar(s, after) ==
  IF host.port <= Ports THEN GotoPort(s, host.port + 1) ELSE GotoPort(after, 1)
\* The next port, or the step that follows the last one.
NextPort(s, after) ==
  IF host.port < Ports THEN GotoPort(s, host.port + 1) ELSE GotoPort(after, 1)
-----------------------------------------------------------------------------
\* The process opens the devices: open forgets the arguments of the driver.
Open ==
  /\ At("closed")
  /\ Goto("idle")
  /\ launch' = 0
  /\ args' = [p \in Port |-> <<>>]
  /\ out' = <<>>
  /\ left' = {p \in Port : filter[p] # "idle"}
  /\ UNCHANGED <<dma, regs, filter, lines, done>>

\* The process ends, or the kernel ends it: release frees the buffers, and
\* does not look whether the filter is running.
Close ==
  /\ At("idle") \/ At("oops")
  /\ Goto("closed")
  /\ args' = [p \in Port |-> <<>>]
  /\ dma' = [p \in Port |-> <<>>]
  /\ UNCHANGED <<launch, regs, filter, lines, done, out, left>>

\* pocl_zynq_basic_run is called for another image.
Launch ==
  /\ At("idle") /\ launch < MaxLaunches
  /\ launch' = launch + 1
  /\ host' = [at |-> "input", port |-> 1, row |-> 0, ready |-> {}]
  /\ out' = <<>>
  /\ UNCHANGED <<args, dma, regs, filter, lines, done, left>>

\* FPGACL_ARGUMEN_POINTER: append an argument, allocate its buffer, and write
\* the buffer's address to the register.  The host ignores the result.
ArgumentPointer(s, after) ==
  LET p == host.port
  IN  /\ At(s) /\ Goto(after)
      /\ \E allocated \in AllocOutcomes :
           IF allocated
           THEN /\ dma' = [dma EXCEPT ![p] = Append(@, Empty)]
                /\ args' = [args EXCEPT ![p] = Append(@, Len(dma[p]) + 1)]
                /\ regs' = [regs EXCEPT ![p][s] = Len(dma[p]) + 1]
           ELSE /\ args' = [args EXCEPT ![p] = Append(@, 0)]
                /\ UNCHANGED <<dma, regs>>
      /\ UNCHANGED <<launch, filter, lines, done, out, left>>

\* FPGACL_ARGUMEN_DATA: append an argument without a buffer.
ArgumentData ==
  /\ At("flag_argument")
  /\ args' = [args EXCEPT ![host.port] = Append(@, Data)]
  /\ NextPort("input", "write_row")
  /\ UNCHANGED <<launch, dma, regs, filter, lines, done, out, left>>

\* write: the row of this port's block goes to the buffer of argument 0, found
\* by its position in the list.
WriteRow ==
  LET p == host.port
      buffer == args[p][1]
  IN  /\ At("write_row")
      /\ IF buffer = 0
         THEN Goto("oops") /\ left' = Port /\ UNCHANGED dma
         ELSE /\ dma' = [dma EXCEPT ![p][buffer] = Row(Block(p) + host.row)]
              /\ Goto("write_flag") /\ UNCHANGED left
      /\ UNCHANGED <<launch, args, regs, filter, lines, done, out>>

\* Mutant: the flag is set for row 0 and stays set.
FlagStays ==
  /\ At("write_flag") /\ args[host.port][3] = Data
  /\ regs' = [regs EXCEPT ![host.port].first = @ \/ host.row = 0]
  /\ Goto("acknowledge")
  /\ UNCHANGED <<launch, args, dma, filter, lines, done, out, left>>

\* write: argument 2 is the first flag, a register.
WriteFlag ==
  /\ At("write_flag") /\ args[host.port][3] = Data
  /\ regs' = [regs EXCEPT ![host.port].first = (host.row = 0)]
  /\ Goto("acknowledge")
  /\ UNCHANGED <<launch, args, dma, filter, lines, done, out, left>>

\* FPGACL_START reads the control register, which clears its done bit, ...
Acknowledge ==
  /\ At("acknowledge")
  /\ done' = [done EXCEPT ![host.port] = FALSE]
  /\ Goto("start")
  /\ UNCHANGED <<launch, args, dma, regs, filter, lines, out, left>>

\* ... and writes the start bit, which a running filter does not notice.
Start ==
  LET p == host.port
  IN  /\ At("start")
      /\ filter' = [filter EXCEPT ![p] = IF @ = "idle" THEN "started" ELSE @]
      /\ NextPort("write_row", "poll")
      /\ UNCHANGED <<launch, args, dma, regs, lines, done, out, left>>

\* Mutants: the answer of the port is dropped; it is taken for ready unseen.
PollIgnores(ready) == ready
PollBlind(ready) == ready \cup {host.port}
\* The ready bit the driver returns is added to those of the other ports.
Polled(ready) == IF done[host.port] THEN ready \cup {host.port} ELSE ready

\* FPGACL_CTRL on one port; after the last one the loop ends when any port
\* has answered 1.
Poll ==
  LET ready == Polled(host.ready)
      last == host.port = Ports
      ends == last /\ ready # {}
  IN  /\ At("poll")
      /\ done' = [done EXCEPT ![host.port] = FALSE]
      /\ host' =
           [at |-> CASE ~ends -> "poll"
                     [] ends /\ host.row >= Latency -> "read_row"
                     [] OTHER -> "next_row",
            port |-> IF last THEN 1 ELSE host.port + 1,
            row |-> host.row,
            ready |-> IF last THEN {} ELSE ready]
      /\ left' = IF ends THEN left \cup (Port \ ready) ELSE left
      /\ UNCHANGED <<launch, args, dma, regs, filter, lines, out>>

ReadInto(r, content) ==
  [x \in DOMAIN out \cup {r} |-> IF x = r THEN content ELSE out[x]]

\* read: the buffer of argument 1 becomes a row of the output image.
ReadRow ==
  LET p == host.port
      buffer == args[p][2]
  IN  /\ At("read_row")
      /\ IF buffer = 0
         THEN Goto("oops") /\ left' = Port /\ UNCHANGED out
         ELSE /\ out' = ReadInto(Block(p) + host.row, [row |-> dma[p][buffer], from |-> p])
              /\ NextPort("read_row", "next_row") /\ UNCHANGED left
      /\ UNCHANGED <<launch, args, dma, regs, filter, lines, done>>

NextRow ==
  /\ At("next_row")
  /\ host' = [host EXCEPT !.at = IF host.row + 1 \in BlockRows THEN "write_row" ELSE "idle",
                          !.row = @ + 1]
  /\ UNCHANGED <<launch, args, dma, regs, filter, lines, done, out, left>>
-----------------------------------------------------------------------------
\* The filter: shift the line buffer and load the row the register points to,
\* then compute, write the output buffer and raise done.
InBuffer(p, b) == b \in DOMAIN dma[p]
\* What the filter finds there, as a row: Empty if it is not one.
Loaded(p) ==
  LET b == regs[p].input
  IN  IF InBuffer(p, b) /\ dma[p][b] \in Rows THEN dma[p][b] ELSE Empty

Load(p) ==
  /\ filter[p] = "started"
  /\ lines' = [lines EXCEPT ![p] = Append(Tail(@), Loaded(p))]
  /\ filter' = [filter EXCEPT ![p] = "loaded"]
  /\ UNCHANGED <<host, launch, args, dma, regs, done, out, left>>

Store(p) ==
  /\ filter[p] = "loaded"
  /\ dma' = IF InBuffer(p, regs[p].output)
            THEN [dma EXCEPT ![p][regs[p].output] = Filtered(lines[p])] ELSE dma
  /\ filter' = [filter EXCEPT ![p] = "idle"]
  /\ done' = [done EXCEPT ![p] = TRUE]
  /\ UNCHANGED <<host, launch, args, regs, lines, out, left>>
-----------------------------------------------------------------------------
Init ==
  /\ host = [at |-> "closed", port |-> 1, row |-> 0, ready |-> {}]
  /\ launch = 0
  /\ args = [p \in Port |-> <<>>] /\ dma = [p \in Port |-> <<>>]
  /\ regs = [p \in Port |-> [input |-> 0, output |-> 0, first |-> FALSE]]
  /\ filter = [p \in Port |-> "idle"]
  /\ lines = [p \in Port |-> [i \in 1..MaskHeight |-> Empty]]
  /\ done = [p \in Port |-> FALSE]
  /\ out = <<>> /\ left = {}

HostStep ==
  \/ Open \/ Close \/ Launch
  \/ ArgumentPointer("input", "output") \/ ArgumentPointer("output", "flag_argument")
  \/ ArgumentData
  \/ WriteRow \/ WriteFlag \/ Acknowledge \/ Start \/ Poll \/ ReadRow \/ NextRow

FilterStep(p) == Load(p) \/ Store(p)

Next == HostStep \/ \E p \in Port : FilterStep(p)

Spec == Init /\ [][Next]_vars

\* A process inside pocl_zynq_basic_run keeps running, one the kernel ends is
\* closed, and a filter that was started ends.  Nobody has to launch or close.
Running == host.at \notin {"closed", "idle"}
FairSpec ==
  /\ Spec
  /\ WF_vars(Running /\ HostStep)
  /\ \A p \in Port : WF_vars(FilterStep(p))
-----------------------------------------------------------------------------
\* Properties.
Steps == {"closed", "idle", "oops", "input", "output", "flag_argument", "write_row",
          "write_flag", "acknowledge", "start", "poll", "read_row", "next_row"}
Buffers == Nat

TypeOK ==
  /\ host \in [at : Steps, port : Port, row : Nat, ready : SUBSET Port]
  /\ launch \in 0..MaxLaunches
  /\ args \in [Port -> Seq(Buffers \cup {Data})]
  /\ dma \in [Port -> Seq(Rows \cup Seq(Seq(Rows)))]
  /\ regs \in [Port -> [input : Buffers, output : Buffers, first : BOOLEAN]]
  /\ filter \in [Port -> {"idle", "started", "loaded"}]
  /\ lines \in [Port -> Seq(Rows)]
  /\ done \in [Port -> BOOLEAN]
  /\ DOMAIN out \subseteq 0..(ImageHeight + MaskHeight)
  /\ left \subseteq Port

\* The filter of row r: the rows of this launch's image under the mask.
Window(r) == Filtered([i \in 1..MaskHeight |-> Row(r - MaskHeight + i)])

\* What the host reads back is the filter of the rows it wrote for that place
\* of the image: not an older row's result, not one that missed a row, and
\* not one of another launch.
RowsRight == \A r \in DOMAIN out : out[r].row = Window(r)

\* The poll leaves filters behind, but spoils no row of the others: what comes
\* from a port that was waited for in every row of the first launch is right,
\* whatever the filters of the other ports do.
AwaitedRowsRight ==
  launch = 1 => \A r \in DOMAIN out : out[r].from \notin left => out[r].row = Window(r)

\* The blocks leave no gap: when a launch returns, as many rows as the image
\* has, one after the other, have been read back, by some port.  It does not
\* say that they are the rows with a full window: the loop starts to read one
\* row after the first of those, and ends one row later.
RowsWithoutGap ==
  At("idle") /\ launch > 0 =>
    \E first \in DOMAIN out : first..(first + ImageHeight - 1) \subseteq DOMAIN out

\* A running filter that the host has not left behind has its buffers: release
\* frees no memory that such a filter will still read or write.
NoFreedBuffer ==
  \A p \in Port \ left :
    /\ filter[p] # "idle"
    /\ \A i \in DOMAIN args[p] : args[p][i] # 0
    => {regs[p].input, regs[p].output} \subseteq DOMAIN dma[p]

\* A filter the host waits for sees the first flag with the first row of its
\* block, and with no other row of the first launch.
FlagWithFirstRow ==
  [][\A p \in Port \ left : launch = 1 /\ filter[p] = "started" /\ filter'[p] = "loaded" =>
       (regs[p].first <=> lines'[p][MaskHeight] = Row(Block(p)))]_vars

\* A launch ends, although done is cleared by every read of the register and
\* a start may be lost: some port is always going to raise done again.
LaunchEnds == Running ~> ~Running
=============================================================================
