---------------------------- MODULE DeliveryProofs ----------------------------
(***************************************************************************)
(* What intake and delivery do in every instance: the types (Typed), that  *)
(* no checkpoint is replayed (EpochOK), that instructions are told in      *)
(* order (HookOrder, SendOrder), that none is lost unnoticed (FateKnown),  *)
(* and that the input line holds one text at a time (LineOK).              *)
(***************************************************************************)
EXTENDS DeliveryProps, FiniteSetTheorems, TLAPS

LoopSteps == {"boot", "poll", "batch", "write", "wait", "send", "window", "type",
              "confirm", "off"}
OnItsWay == {"write", "wait", "send", "window", "type", "confirm"}
Ids == 0 .. Len(issued)

\* What the worker has printed and what a surface remembers of it.
ReadOK ==
    /\ surface \in {"tmux", "relay", "jsonl"}
    /\ written \in Seq(Pieces)
    /\ cut \in 0 .. Len(written)
    /\ view \in [offset : Nat, buffer : SUBSET Positions]

\* The loop's record; a batch names checkpoints that have been printed.
Loops ==
    [pc : LoopSteps,
     top : {"READY", "RUNNING", "RECOVERY_NEEDED", "PAUSED_FOR_HUMAN", "COMPLETED"},
     seq : Nat, last : Checkpoints \cup {NoCheckpoint}, node : Nodes, mism : Nat,
     batch : SUBSET Nat, id : Nat, tries : Nat, autos : 0 .. MaxAuto, auto : BOOLEAN,
     armed : {"off", "set", "due"}]

LoopOK ==
    /\ loop \in Loops /\ loop.id \in Ids
    /\ loop.auto => loop.autos < MaxAuto
    /\ \A i \in loop.batch : i \in Positions /\ IsCheckpoint(i)

\* Instructions and where they stand.
SentOK ==
    /\ issued \in Seq(Nodes) /\ Len(issued) <= MaxInstruction
    /\ told \in Seq(SUBSET Ids)
    /\ pending \in Ids /\ acked \in Ids
    /\ hook \in [pc : {"idle", "read", "acked"}, id : Ids]
    /\ hook.pc = "idle" => hook = IdleHook
    /\ hook.pc # "idle" => hook.id # NoInstruction
    /\ composer \subseteq Ids
    /\ agent \in [node : Nodes, seq : Nat]

PaneOK ==
    /\ guard \in BOOLEAN /\ busy \in BOOLEAN /\ rounds \in 0 .. 2
    /\ delivery \in {"IDLE", "INJECTED", "FAILED"} \cup Confirmed

\* An instruction on its way is the last one composed, and goes out by the surface.
WayOK ==
    /\ loop.pc \in OnItsWay => loop.id = Len(issued) /\ Len(issued) > 0
    /\ loop.pc \in {"write", "wait"} => surface = "jsonl"
    /\ loop.pc = "send" => surface = "relay"
    /\ loop.pc \in {"window", "type", "confirm"} => surface = "tmux"

Typed == ReadOK /\ LoopOK /\ SentOK /\ PaneOK /\ WayOK

\* Nothing accepted since the numbering started over has a number above the last.
EpochOK ==
    /\ \A i \in epoch : i \in Positions /\ written[i].kind = "checkpoint"
                        /\ written[i].seq <= loop.seq
    /\ ~replayed

\* The hook hands on what is in the file, in the order it was written there.
HookOrder ==
    surface = "jsonl" =>
        /\ acked <= pending /\ hook.id <= pending
        /\ hook.pc = "read" => acked < hook.id
        /\ hook.pc = "acked" => acked = hook.id
        /\ \A k \in 1 .. Len(told) : \A a \in told[k] :
              a <= acked /\ (hook.pc = "acked" => a < acked)
        /\ loop.pc = "write" => pending < loop.id
        /\ loop.pc = "wait" => pending = loop.id

\* What stands in the input line or is yet to be sent is later than what was told.
SendOrder ==
    surface # "jsonl" =>
        /\ \A k \in 1 .. Len(told) : \A a \in told[k] :
              /\ \A b \in InComposer : a < b
              /\ loop.pc \in {"send", "window", "type"} => a < loop.id
        /\ \A b \in InComposer : loop.pc \in {"window", "type"} => b < loop.id
        /\ surface = "relay" => composer = {}

\* An instruction has a fate: the worker has it or will, or the loop knows it lost.
Fate(id) == \/ Reached(id) \/ (hook.pc = "acked" /\ hook.id = id)
            \/ id \in givenUp \cup killed

FateKnown ==
    surface = "jsonl" =>
        /\ \A id \in 1 .. Len(issued) :
              id < loop.id \/ loop.pc \notin {"write", "wait"} => Fate(id)
        /\ acked # NoInstruction => Fate(acked)

\* Unless a person types in between, the input line is free when the loop types.
LineOK ==
    /\ surface # "tmux" => composer = {}
    /\ ~raced /\ surface = "tmux" =>
        /\ composer = {} \/ \E x \in Ids : composer = {x}
        /\ loop.pc = "type" => composer = {} /\ ~busy
        /\ loop.pc = "confirm" => delivery = "INJECTED" /\ (busy => composer = {})
        /\ delivery \in Confirmed => InComposer = {}

-------------------------------------------------------------------------------
(* What the helpers do *)

\* A new instruction is composed and starts on the way of its surface.
Composes ==
    /\ issued' \in Seq(Nodes) /\ Len(issued') = Len(issued) + 1
    /\ \A k \in 1 .. Len(issued) : issued'[k] = issued[k]
    /\ Len(issued') <= MaxInstruction
    /\ loop'.id = Len(issued')
    /\ loop'.pc = IF surface = "jsonl" THEN "write"
                  ELSE IF surface = "relay" THEN "send" ELSE "window"
    /\ loop'.batch = {}

\* The loop's next record is one, and an instruction is composed or none is on its way.
Outcome ==
    /\ loop' \in Loops
    /\ loop'.auto => loop'.autos < MaxAuto
    /\ Composes \/ (UNCHANGED issued /\ loop'.pc \notin OnItsWay /\ loop'.id \in Ids)

\* The same where the loop gave up an instruction: an observed run is paused.
Retreat == Outcome /\ loop'.batch = {} /\ (Composes => surface # "jsonl")

\* Whatever a surface lets the loop see has been printed.
LEMMA ReadTyped ==
    ASSUME ReadOK
    PROVE  /\ Read.view \in [offset : Nat, buffer : SUBSET Positions]
           /\ Read.text \subseteq Positions
           /\ \A i \in Parsed(Read.text) : i \in Positions /\ IsCheckpoint(i)
<1> USE TranscriptAssumption
<1>1. \A S, k : LastOf(S, k) \subseteq S BY DEF LastOf
<1>2. Captured \subseteq Positions BY <1>1 DEF Captured, Present
<1>3. Sighted \in [offset : Nat, buffer : SUBSET Positions]
  BY DEF ReadOK, Sighted, Unread
<1>4. FreshLines \subseteq Positions BY DEF FreshLines, Present
<1>5. /\ Observed.view \in [offset : Nat, buffer : SUBSET Positions]
      /\ Observed.text \subseteq Positions
  <2>1. CASE FreshLines = {} BY <1>3, <2>1 DEF Observed
  <2>2. CASE FreshLines # {}
    <3> DEFINE b == LastOf(Sighted.buffer \cup FreshLines, BufferCap)
    <3>1. b \subseteq Positions BY <1>1, <1>3, <1>4
    <3>2. Len(written) - cut \in Nat BY DEF ReadOK
    <3>3. Observed = [view |-> [offset |-> Len(written) - cut, buffer |-> b], text |-> b]
      BY <2>2 DEF Observed
    <3> QED BY <3>1, <3>2, <3>3
  <2> QED BY <2>1, <2>2
<1>6. /\ Relayed.view \in [offset : Nat, buffer : SUBSET Positions]
      /\ Relayed.text \subseteq Positions
  BY <1>2 DEF ReadOK, Relayed
<1>7. /\ Read.view \in [offset : Nat, buffer : SUBSET Positions]
      /\ Read.text \subseteq Positions
  BY <1>2, <1>5, <1>6 DEF Read, ReadOK
<1> QED BY <1>7 DEF Parsed

\* Consuming leaves the memory of a surface typed.
LEMMA ConsumedTyped ==
    ASSUME NEW v \in [offset : Nat, buffer : SUBSET Positions]
    PROVE  Consumed(v) \in [offset : Nat, buffer : SUBSET Positions]
  BY DEF Consumed

\* A delivery starts an instruction on its way.
LEMMA DeliverEffect ==
    ASSUME Typed, NEW l \in Loops, NEW auto \in BOOLEAN, auto => l.autos < MaxAuto,
           Deliver(l, auto)
    PROVE  /\ Outcome /\ Composes
           /\ loop'.seq = l.seq
<1>1. /\ issued' = Append(issued, l.node) /\ issued \in Seq(Nodes) /\ l.node \in Nodes
      /\ Len(issued) < MaxInstruction /\ MaxInstruction \in Nat
  BY HookAssumption DEF Deliver, Typed, SentOK, Loops
<1>2. /\ issued' \in Seq(Nodes) /\ Len(issued') = Len(issued) + 1
      /\ \A k \in 1 .. Len(issued) : issued'[k] = issued[k]
      /\ Len(issued') <= MaxInstruction
  BY <1>1
<1>3. Len(issued) + 1 \in Nat BY <1>1
<1>4. /\ loop' \in Loops /\ loop'.id = Len(issued) + 1 /\ loop'.auto = auto
      /\ loop'.autos = l.autos /\ loop'.seq = l.seq /\ loop'.batch = {}
      /\ loop'.pc = IF surface = "jsonl" THEN "write"
                    ELSE IF surface = "relay" THEN "send" ELSE "window"
  BY <1>3 DEF Deliver, Loops, Typed, ReadOK, LoopSteps
<1> QED BY <1>2, <1>4 DEF Outcome, Composes

\* A paused loop has no instruction on its way.
LEMMA PausedTyped ==
    ASSUME NEW l \in Loops
    PROVE  /\ Paused(l) \in Loops /\ Paused(l).pc = "off" /\ Paused(l).batch = {}
           /\ ~Paused(l).auto /\ Paused(l).id = 0 /\ Paused(l).seq = l.seq
  BY DEF Paused, Loops, LoopSteps, NoInstruction

\* Recovery sends one instruction more or pauses.
LEMMA RecoverEffect ==
    ASSUME Typed, NEW l \in Loops, Recover(l)
    PROVE  Retreat /\ loop'.seq = l.seq
<1>1. CASE surface # "jsonl" /\ ~l.auto /\ l.autos < MaxAuto
  <2> DEFINE m == [l EXCEPT !.top = "RECOVERY_NEEDED"]
  <2>1. m \in Loops /\ m.autos = l.autos /\ m.seq = l.seq BY DEF Loops
  <2>2. Deliver(m, TRUE) BY <1>1 DEF Recover
  <2>3. Outcome /\ Composes /\ loop'.seq = m.seq BY <1>1, <2>1, <2>2, DeliverEffect
  <2> QED BY <1>1, <2>1, <2>3 DEF Retreat, Composes
<1>2. CASE ~(surface # "jsonl" /\ ~l.auto /\ l.autos < MaxAuto)
  <2>1. loop' = Paused(l) /\ UNCHANGED issued BY <1>2 DEF Recover
  <2>2. Len(issued) \in Nat OBVIOUS
  <2>3. 0 \in Ids BY <2>2 DEF Ids
  <2> QED BY <2>1, <2>3, PausedTyped DEF Retreat, Outcome, OnItsWay, Composes
<1> QED BY <1>1, <1>2

\* An instruction that has arrived leaves the loop polling.
LEMMA ArrivedEffect ==
    ASSUME Typed, Arrived, UNCHANGED issued
    PROVE  Outcome /\ loop'.batch = loop.batch /\ loop'.pc = "poll" /\ loop'.seq = loop.seq
<1>1. loop.autos \in 0 .. MaxAuto /\ loop \in Loops /\ (loop.auto => loop.autos < MaxAuto)
  BY DEF Typed, LoopOK, Loops
<1>2. (IF loop.auto THEN loop.autos + 1 ELSE loop.autos) \in 0 .. MaxAuto
  BY <1>1, DeliveryAssumption
<1>3. /\ loop' \in Loops /\ loop'.batch = loop.batch /\ loop'.pc = "poll"
      /\ loop'.id = 0 /\ loop'.seq = loop.seq /\ ~loop'.auto
  BY <1>1, <1>2 DEF Arrived, Loops, LoopSteps, NoInstruction
<1>4. 0 \in Ids
  <2>1. Len(issued) \in Nat OBVIOUS
  <2> QED BY <2>1 DEF Ids
<1> QED BY <1>3, <1>4 DEF Outcome, OnItsWay

\* A checkpoint that is taken in.
LEMMA AbsorbedTyped ==
    ASSUME Typed, NEW i \in loop.batch
    PROVE  /\ Absorbed(i) \in Loops /\ written[i] \in Checkpoints
           /\ Absorbed(i).batch = loop.batch \ {i}
           /\ Absorbed(i).seq = IF written[i].seq > 0 THEN written[i].seq ELSE loop.seq
           /\ Absorbed(i).pc = loop.pc /\ Absorbed(i).id = loop.id
           /\ Absorbed(i).node = loop.node /\ Absorbed(i).auto = loop.auto
           /\ Absorbed(i).autos = 0 /\ Absorbed(i).top = loop.top
<1>1. i \in Positions /\ IsCheckpoint(i) /\ loop \in Loops BY DEF Typed, LoopOK
<1>2. written[i] \in Pieces BY <1>1 DEF Typed, ReadOK, Positions
<1>3. written[i] \in Checkpoints
  BY <1>1, <1>2 DEF Pieces, PlainText, IsCheckpoint
<1>4. [written[i] EXCEPT !.node = loop.node] \in Checkpoints
  BY <1>1, <1>3 DEF Checkpoints, Loops
<1>5. written[i].seq \in Nat BY <1>3 DEF Checkpoints
<1>6. 0 \in 0 .. MaxAuto BY DeliveryAssumption
<1>7. After(i) = [loop EXCEPT !.batch = loop.batch \ {i}] BY DEF After
<1>8. After(i) \in Loops BY <1>1, <1>7 DEF Loops
<1> DEFINE n == IF written[i].seq > 0 THEN written[i].seq ELSE After(i).seq
<1> DEFINE c == [written[i] EXCEPT !.node = loop.node]
<1>9. n \in Nat BY <1>5, <1>8 DEF Loops
<1>10. c \in Checkpoints BY <1>4
<1> DEFINE a == After(i)
<1> DEFINE b == [a EXCEPT !.seq = n, !.last = c]
<1> HIDE DEF n, c, a
<1>11. b \in Loops /\ b.seq = n /\ b.batch = a.batch /\ b.pc = a.pc /\ b.id = a.id
       /\ b.node = a.node /\ b.auto = a.auto /\ b.top = a.top
  BY <1>8, <1>9, <1>10 DEF Loops, a
<1>12. Absorbed(i) = [b EXCEPT !.mism = 0, !.autos = 0, !.armed = "off"]
  BY DEF Absorbed, n, c, a
<1> HIDE DEF b
<1> DEFINE e == [b EXCEPT !.autos = 0]
<1>13. /\ e \in Loops /\ e.autos = 0 /\ e.seq = b.seq /\ e.batch = b.batch /\ e.pc = b.pc
       /\ e.id = b.id /\ e.node = b.node /\ e.auto = b.auto /\ e.top = b.top
  BY <1>6, <1>11 DEF Loops
<1> HIDE DEF e
<1> DEFINE f == [e EXCEPT !.mism = 0]
<1>14. /\ f \in Loops /\ f.autos = 0 /\ f.seq = b.seq /\ f.batch = b.batch /\ f.pc = b.pc
       /\ f.id = b.id /\ f.node = b.node /\ f.auto = b.auto /\ f.top = b.top
  BY <1>13 DEF Loops
<1>15. Absorbed(i) = [f EXCEPT !.armed = "off"]
  BY <1>11, <1>12 DEF e
<1> HIDE DEF f
<1>16. /\ Absorbed(i) \in Loops /\ Absorbed(i).seq = b.seq /\ Absorbed(i).autos = 0
       /\ Absorbed(i).batch = b.batch /\ Absorbed(i).pc = b.pc /\ Absorbed(i).id = b.id
       /\ Absorbed(i).node = b.node /\ Absorbed(i).auto = b.auto /\ Absorbed(i).top = b.top
  BY <1>14, <1>15 DEF Loops
<1> QED BY <1>1, <1>3, <1>7, <1>8, <1>11, <1>16 DEF n, a

-------------------------------------------------------------------------------
(* What the longer actions do *)

\* What a READY loop finds in sight becomes its batch, or the first instruction goes out.
LEMMA BootEffect ==
    ASSUME Typed, Boot
    PROVE  /\ Outcome /\ (Composes => surface # "jsonl") /\ loop'.seq = loop.seq
           /\ \A i \in loop'.batch : i \in Positions /\ IsCheckpoint(i)
<1> DEFINE cps == Parsed(Read.text)
<1> DEFINE atWork == \E i \in cps : (\A j \in cps : j <= i) /\ written[i].run = "own"
<1> DEFINE attached == [loop EXCEPT !.top = "RUNNING", !.pc = "poll"]
<1>1. loop \in Loops /\ loop.id \in Ids /\ (loop.auto => loop.autos < MaxAuto)
      /\ \A i \in loop.batch : i \in Positions /\ IsCheckpoint(i)
  BY DEF Typed, LoopOK
<1>2. attached \in Loops /\ attached.seq = loop.seq /\ attached.id = loop.id
      /\ attached.pc = "poll"
      /\ attached.auto = loop.auto /\ attached.autos = loop.autos /\ attached.batch = loop.batch
  BY <1>1 DEF Loops, LoopSteps
<1>3. \A i \in cps : i \in Positions /\ IsCheckpoint(i)
  BY ReadTyped DEF Typed
<1>4. CASE atWork
  <2>1. loop' = [attached EXCEPT !.pc = "batch", !.batch = cps, !.armed = "set"]
        /\ UNCHANGED issued
    BY <1>4 DEF Boot
  <2>2. cps \in SUBSET Nat BY <1>3 DEF Positions
  <2>3. /\ loop' \in Loops /\ loop'.batch = cps /\ loop'.seq = loop.seq /\ loop'.id = loop.id
        /\ loop'.auto = loop.auto /\ loop'.autos = loop.autos /\ loop'.pc = "batch"
    BY <1>2, <2>1, <2>2 DEF Loops, LoopSteps
  <2> QED BY <1>1, <1>3, <2>1, <2>3 DEF Outcome, OnItsWay, Composes
<1>5. CASE ~atWork /\ surface = "jsonl"
  <2>1. loop' = attached /\ UNCHANGED issued BY <1>5 DEF Boot
  <2> QED BY <1>1, <1>2, <2>1 DEF Outcome, OnItsWay, Composes
<1>6. CASE ~atWork /\ surface # "jsonl"
  <2>1. Deliver(attached, FALSE) BY <1>6 DEF Boot
  <2> QED BY <1>2, <1>6, <2>1, DeliverEffect DEF Composes
<1> QED BY <1>4, <1>5, <1>6

\* Without a checkpoint in time an instruction is sent once more or the run is paused.
LEMMA DeadlineEffect ==
    ASSUME Typed, AckDeadline PROVE Retreat /\ loop'.seq = loop.seq
  BY RecoverEffect DEF AckDeadline, Typed, LoopOK

\* A checkpoint at another node is dropped, or recovered from at the limit.
LEMMA MismatchEffect ==
    ASSUME Typed, NEW i \in loop.batch, Mismatch(i)
    PROVE  /\ Outcome /\ (Composes => surface # "jsonl") /\ loop'.seq = loop.seq
           /\ loop'.batch \subseteq loop.batch
<1>1. loop \in Loops /\ loop.id \in Ids /\ (loop.auto => loop.autos < MaxAuto)
      /\ loop.pc = "batch"
  BY DEF Typed, LoopOK, Mismatch, New, Oldest
<1>2. CASE ~Persistent
  <2>1. loop' = [After(i) EXCEPT !.mism = After(i).mism + 1] /\ UNCHANGED issued
    BY <1>2 DEF Mismatch
  <2>2. /\ loop' \in Loops /\ loop'.batch = loop.batch \ {i} /\ loop'.seq = loop.seq
        /\ loop'.id = loop.id /\ loop'.pc = "batch"
        /\ loop'.auto = loop.auto /\ loop'.autos = loop.autos
    <3> DEFINE a == After(i)
    <3>1. /\ a \in Loops /\ a.batch = loop.batch \ {i} /\ a.seq = loop.seq /\ a.id = loop.id
          /\ a.pc = "batch" /\ a.auto = loop.auto /\ a.autos = loop.autos
      BY <1>1 DEF After, Loops
    <3>2. loop' = [a EXCEPT !.mism = a.mism + 1] BY <2>1
    <3> HIDE DEF a
    <3> QED BY <3>1, <3>2 DEF Loops
  <2> QED BY <1>1, <2>1, <2>2 DEF Outcome, OnItsWay, Composes
<1>3. CASE Persistent
  <2> DEFINE m == [loop EXCEPT !.mism = loop.mism + 1]
  <2>1. m \in Loops /\ m.seq = loop.seq BY <1>1 DEF Loops
  <2>2. Recover(m) BY <1>3 DEF Mismatch
  <2> QED BY <2>1, <2>2, RecoverEffect DEF Retreat
<1> QED BY <1>2, <1>3

\* An accepted checkpoint moves the number, and at most one instruction follows it.
LEMMA AcceptEffect ==
    ASSUME Typed, NEW i \in loop.batch, NEW passes \in BOOLEAN, Accept(i, passes)
    PROVE  /\ Outcome /\ loop'.batch \subseteq loop.batch
           /\ loop'.seq = IF written[i].seq > 0 THEN written[i].seq ELSE loop.seq
<1> DEFINE next ==
         IF passes THEN [Absorbed(i) EXCEPT !.node = Absorbed(i).node + 1] ELSE Absorbed(i)
<1> DEFINE done == written[i].status = "step_done" /\ loop.top = "RUNNING"
<1>1. loop \in Loops /\ loop.id \in Ids /\ (loop.auto => loop.autos < MaxAuto)
      /\ loop.pc = "batch"
  BY DEF Typed, LoopOK, Accept, New, Oldest
<1>2. loop.auto => 0 < MaxAuto BY <1>1, DeliveryAssumption DEF Loops
<1>3. CASE done /\ MoreToDo(passes)
  <2>1. Deliver(next, FALSE) BY <1>3 DEF Accept
  <2>2. next \in Loops /\ next.seq = Absorbed(i).seq
    <3>1. CASE passes
      <4>1. loop.node + 1 \in Nodes
        BY <1>1, <1>3, <3>1, TranscriptAssumption DEF MoreToDo, Nodes, Loops
      <4> QED BY <3>1, <4>1, AbsorbedTyped DEF Loops
    <3>2. CASE ~passes BY <3>2, AbsorbedTyped
    <3> QED BY <3>1, <3>2
  <2>3. Outcome /\ Composes /\ loop'.seq = next.seq BY <2>1, <2>2, DeliverEffect
  <2> QED BY <2>2, <2>3, AbsorbedTyped DEF Composes
<1>4. CASE ~(done /\ MoreToDo(passes))
  <2>1. /\ loop' = IF done THEN [Absorbed(i) EXCEPT !.top = "COMPLETED"] ELSE Absorbed(i)
        /\ UNCHANGED issued
    BY <1>4 DEF Accept
  <2>2. /\ loop' \in Loops /\ loop'.batch = loop.batch \ {i} /\ loop'.seq = Absorbed(i).seq
        /\ loop'.id = loop.id /\ loop'.pc = loop.pc /\ loop'.auto = loop.auto /\ loop'.autos = 0
    BY <2>1, AbsorbedTyped DEF Loops
  <2> QED BY <1>1, <1>2, <2>1, <2>2, AbsorbedTyped DEF Outcome, OnItsWay
<1> QED BY <1>3, <1>4

\* A relay either takes the text or the loop recovers.
LEMMA RelayEffect ==
    ASSUME Typed, RelaySend
    PROVE  /\ Outcome /\ surface = "relay" /\ loop'.seq = loop.seq
           /\ loop'.batch \subseteq loop.batch
<1>1. surface = "relay" /\ loop \in Loops BY DEF Typed, WayOK, RelaySend, LoopOK
<1>2. CASE Arrived /\ UNCHANGED issued BY <1>1, <1>2, ArrivedEffect
<1>3. CASE Recover(loop) BY <1>1, <1>3, RecoverEffect DEF Retreat
<1> QED BY <1>2, <1>3 DEF RelaySend

\* Keys that fail are recovered from.
LEMMA TypeFailsEffect ==
    ASSUME Typed, TypeFails PROVE Retreat /\ loop'.seq = loop.seq
  BY RecoverEffect DEF TypeFails, Typed, LoopOK

\* The confirmation rounds end in arrival or recovery.
LEMMA ConfirmEffect ==
    ASSUME Typed, NEW takes \in BOOLEAN, NEW shows, Confirm(takes, shows)
    PROVE  /\ surface = "tmux" /\ loop'.seq = loop.seq
           /\ loop'.batch \subseteq loop.batch
           /\ Outcome \/ UNCHANGED <<loop, issued>>
<1>1. surface = "tmux" /\ loop \in Loops BY DEF Typed, WayOK, Confirm, LoopOK
<1>2. CASE Arrived /\ UNCHANGED issued BY <1>1, <1>2, ArrivedEffect
<1>3. CASE Recover(loop) BY <1>1, <1>3, RecoverEffect DEF Retreat
<1>4. CASE UNCHANGED <<loop, issued>> BY <1>1, <1>4
<1> QED BY <1>2, <1>3, <1>4 DEF Confirm

\* Composing adds an id and changes none.
LEMMA IdsGrow ==
    ASSUME Typed, Composes \/ UNCHANGED issued, UNCHANGED hookVars,
           composer' \subseteq Ids, told' \in Seq(SUBSET Ids), agent' \in [node : Nodes,
           seq : Nat]
    PROVE  SentOK'
<1>1. issued' \in Seq(Nodes) /\ Len(issued') <= MaxInstruction /\ Len(issued) <= Len(issued')
  BY DEF Typed, SentOK, Composes
<1>2. Len(issued) \in Nat /\ Len(issued') \in Nat BY <1>1
<1>3. Ids \subseteq Ids' BY <1>1, <1>2 DEF Ids
<1>4. told' \in Seq(SUBSET Ids') BY <1>3
<1> QED BY <1>1, <1>3, <1>4 DEF SentOK, Typed, hookVars

\* What the worker is told, and the node it is at then.
LEMMA ToldGrows ==
    ASSUME SentOK, NEW S \in SUBSET Ids, NEW n \in Nodes,
           told' = Append(told, S), agent' = [agent EXCEPT !.node = n]
    PROVE  told' \in Seq(SUBSET Ids) /\ agent' \in [node : Nodes, seq : Nat]
<1>1. told \in Seq(SUBSET Ids) /\ agent \in [node : Nodes, seq : Nat] BY DEF SentOK
<1> DEFINE T == SUBSET Ids
<1>2. told \in Seq(T) /\ S \in T BY <1>1
<1> HIDE DEF T
<1>3. Append(told, S) \in Seq(T) BY <1>2
<1>4. told' \in Seq(SUBSET Ids) BY <1>3 DEF T
<1>5. agent' \in [node : Nodes, seq : Nat] BY <1>1
<1> QED BY <1>4, <1>5

\* An outcome is on the way of its surface.
LEMMA OutcomeWay ==
    ASSUME Typed, Outcome, UNCHANGED surface
    PROVE  WayOK'
<1>1. Len(issued) \in Nat /\ surface \in {"tmux", "relay", "jsonl"}
  BY DEF Typed, ReadOK
<1>2. CASE Composes BY <1>1, <1>2 DEF WayOK, Composes, OnItsWay
<1>3. CASE UNCHANGED issued /\ loop'.pc \notin OnItsWay BY <1>3 DEF WayOK, OnItsWay
<1> QED BY <1>2, <1>3 DEF Outcome

\* An outcome composes or leaves what was issued alone.
LEMMA OutcomeIds ==
    ASSUME Typed, Outcome
    PROVE  loop'.id \in Ids'
  BY DEF Outcome, Composes, Ids

\* What is printed, cut away and remembered keeps its type.
LEMMA ReadKeeps == Typed /\ [Next]_vars => ReadOK'
<1> SUFFICES ASSUME Typed, [Next]_vars PROVE ReadOK' OBVIOUS
<1> USE TranscriptAssumption, HookAssumption, DeliveryAssumption
<1>1. CASE Boot
  BY <1>1, ReadTyped DEF Boot, readVars, Typed, ReadOK, Positions
<1>2. CASE Poll
  BY <1>2, ReadTyped DEF Poll, readVars, Typed, ReadOK, Positions
<1>3. CASE PollsText
  BY <1>3, ReadTyped DEF PollsText, readVars, Typed, ReadOK, Positions
<1>4. CASE AckDeadline
  BY <1>4 DEF AckDeadline, Recover, Deliver, readVars, Typed, ReadOK, Positions
<1>5. CASE \E i \in loop.batch : Skip(i)
  BY <1>5 DEF Skip, After, Oldest, readVars, Typed, ReadOK, Positions
<1>6. CASE \E i \in loop.batch : Stalled(i)
  BY <1>6 DEF Stalled, readVars, Typed, ReadOK, Positions
<1>7. CASE \E i \in loop.batch : Mismatch(i)
  BY <1>7 DEF Mismatch, After, New, Oldest, Recover, Deliver, Misplaced, readVars, Typed,
     ReadOK, Positions
<1>8. CASE \E i \in loop.batch, passes \in BOOLEAN : Accept(i, passes)
  <2>1. view' = Consumed(view) \/ UNCHANGED view BY <1>8 DEF Accept
  <2>2. UNCHANGED readVars BY <1>8 DEF Accept
  <2> QED BY <2>1, <2>2, ConsumedTyped DEF readVars, Typed, ReadOK, Positions
<1>9. CASE EndBatch
  BY <1>9, ConsumedTyped DEF EndBatch, readVars, Typed, ReadOK, Positions
<1>10. CASE WriteHandoff
  BY <1>10 DEF WriteHandoff, WriteInstruction, readVars, Typed, ReadOK, Positions
<1>11. CASE AckSeen
  BY <1>11 DEF AckSeen, Arrived, Delivered, readVars, Typed, ReadOK, Positions
<1>12. CASE GiveUp
  BY <1>12 DEF GiveUp, readVars, Typed, ReadOK, Positions
<1>13. CASE RelaySend
  BY <1>13 DEF RelaySend, Arrived, Recover, Deliver, readVars, Typed, ReadOK, Positions
<1>14. CASE \E outcome \in {"inject", "defer", "offline"} : Look(outcome)
  BY <1>14 DEF Look, Readiness, readVars, Typed, ReadOK, Positions
<1>15. CASE TypeText
  BY <1>15 DEF TypeText, Type, readVars, Typed, ReadOK, Positions
<1>16. CASE TypeFails
  BY <1>16 DEF TypeFails, Unguarded, KeysFail, Recover, Deliver, readVars, Typed, ReadOK,
     Positions
<1>17. CASE
       \E takes \in BOOLEAN, shows \in {"progress", "clear", "stuck"} : Confirm(takes, shows)
  BY <1>17 DEF Confirm, ConfirmRound, Submit, Enter, SnapshotShows, Arrived, Recover,
     Deliver, readVars, Typed, ReadOK, Positions
<1>18. CASE Interrupt
  BY <1>18 DEF Interrupt, readVars, Typed, ReadOK, Positions
<1>19. CASE Park
  BY <1>19 DEF Park, readVars, Typed, ReadOK, Positions
<1>20. CASE Resume
  BY <1>20 DEF Resume, Unread, readVars, Typed, ReadOK
<1>21. CASE \E seq \in Numbers, status \in Statuses : Reports(seq, status)
  <2>1. PICK seq \in Numbers, status \in Statuses : Reports(seq, status) BY <1>21
  <2>2. seq \in Nat /\ agent.node \in Nodes BY DEF Numbers, Typed, SentOK
  <2>3. [kind |-> "checkpoint", run |-> "own", seq |-> seq, node |-> agent.node,
         status |-> status] \in Pieces
    BY <2>2 DEF Pieces, Checkpoints
  <2> QED BY <2>1, <2>3 DEF Reports, Emits, Typed, ReadOK, Positions
<1>22. CASE PrintsText
  <2>1. PlainText \in Pieces BY DEF Pieces
  <2> QED BY <1>22, <2>1 DEF PrintsText, Emits, Typed, ReadOK, Positions
<1>23. CASE Truncated
  BY <1>23 DEF Truncated, Truncate, Typed, ReadOK, Positions
<1>24. CASE Stops
  BY <1>24 DEF Stops, AgentStops, readVars, Typed, ReadOK, Positions
<1>25. CASE HookStep
  BY <1>25 DEF HookStep, HookReads, HookAcks, HookEmits, HookFallsThrough, HookKilled,
     IdleHook, Undelivered, readVars, Typed, ReadOK, Positions
<1>26. CASE PersonTypes
  BY <1>26 DEF PersonTypes, UserTypes, UserText, readVars, Typed, ReadOK, Positions
<1>27. CASE UNCHANGED vars
  BY <1>27 DEF vars, readVars, Typed, ReadOK, Positions
<1> QED BY <1>1, <1>2, <1>3, <1>4, <1>5, <1>6, <1>7, <1>8, <1>9, <1>10, <1>11, <1>12, <1>13,
           <1>14, <1>15, <1>16, <1>17, <1>18, <1>19, <1>20, <1>21, <1>22, <1>23, <1>24,
           <1>25, <1>26, <1>27 DEF Next, LoopStep

\* The pane's flags and rounds keep their type.
LEMMA PaneKeeps == Typed /\ [Next]_vars => PaneOK'
<1> SUFFICES ASSUME Typed, [Next]_vars PROVE PaneOK' OBVIOUS
<1> USE TranscriptAssumption, HookAssumption, DeliveryAssumption
<1>1. CASE Boot
  BY <1>1 DEF Boot, Guarded, Deliver, OnItsWay, Typed, PaneOK
<1>2. CASE Poll
  BY <1>2 DEF Poll, Guarded, Aged, Typed, PaneOK
<1>3. CASE PollsText
  BY <1>3 DEF PollsText, Guarded, Aged, Typed, PaneOK
<1>4. CASE AckDeadline
  BY <1>4 DEF AckDeadline, Recover, Deliver, paneVars, Typed, PaneOK
<1>5. CASE \E i \in loop.batch : Skip(i)
  BY <1>5 DEF Skip, After, Oldest, paneVars, Typed, PaneOK
<1>6. CASE \E i \in loop.batch : Stalled(i)
  BY <1>6 DEF Stalled, paneVars, Typed, PaneOK
<1>7. CASE \E i \in loop.batch : Mismatch(i)
  BY <1>7 DEF Mismatch, After, New, Oldest, Recover, Deliver, Misplaced, paneVars, Typed,
     PaneOK
<1>8. CASE \E i \in loop.batch, passes \in BOOLEAN : Accept(i, passes)
  BY <1>8 DEF Accept, New, Oldest, Absorbed, After, Remember, Deliver, MoreToDo, paneVars,
     Typed, PaneOK
<1>9. CASE EndBatch
  BY <1>9 DEF EndBatch, paneVars, Typed, PaneOK
<1>10. CASE WriteHandoff
  BY <1>10 DEF WriteHandoff, WriteInstruction, paneVars, Typed, PaneOK
<1>11. CASE AckSeen
  BY <1>11 DEF AckSeen, Arrived, Delivered, paneVars, Typed, PaneOK
<1>12. CASE GiveUp
  BY <1>12 DEF GiveUp, paneVars, Typed, PaneOK
<1>13. CASE RelaySend
  BY <1>13 DEF RelaySend, Arrived, Recover, Deliver, paneVars, Typed, PaneOK, Confirmed
<1>14. CASE \E outcome \in {"inject", "defer", "offline"} : Look(outcome)
  BY <1>14 DEF Look, Readiness, paneVars, Typed, PaneOK
<1>15. CASE TypeText
  <2>1. guard' \in BOOLEAN /\ busy' \in BOOLEAN BY <1>15 DEF TypeText, Type, Typed, PaneOK
  <2>2. rounds' \in 0 .. 2 /\ delivery' = "INJECTED" BY <1>15 DEF TypeText, Type
  <2> QED BY <2>1, <2>2 DEF PaneOK
<1>16. CASE TypeFails
  BY <1>16 DEF TypeFails, Unguarded, KeysFail, Recover, Deliver, paneVars, Typed, PaneOK
<1>17. CASE
       \E takes \in BOOLEAN, shows \in {"progress", "clear", "stuck"} : Confirm(takes, shows)
  BY <1>17 DEF Confirm, ConfirmRound, Submit, Enter, SnapshotShows, Arrived, Recover,
     Deliver, Confirmed, Typed, PaneOK
<1>18. CASE Interrupt
  BY <1>18 DEF Interrupt, paneVars, Typed, PaneOK
<1>19. CASE Park
  BY <1>19 DEF Park, paneVars, Typed, PaneOK
<1>20. CASE Resume
  BY <1>20 DEF Resume, Unread, Typed, PaneOK
<1>21. CASE \E seq \in Numbers, status \in Statuses : Reports(seq, status)
  BY <1>21 DEF Reports, Emits, Numbers, paneVars, Typed, PaneOK
<1>22. CASE PrintsText
  BY <1>22 DEF PrintsText, Emits, PlainText, paneVars, Typed, PaneOK
<1>23. CASE Truncated
  BY <1>23 DEF Truncated, Truncate, paneVars, Typed, PaneOK
<1>24. CASE Stops
  BY <1>24 DEF Stops, AgentStops, Typed, PaneOK
<1>25. CASE HookStep
  <2>1. busy' \in BOOLEAN BY <1>25 DEF HookStep, Active, Typed, PaneOK
  <2> QED BY <1>25, <2>1 DEF HookStep, Typed, PaneOK
<1>26. CASE PersonTypes
  BY <1>26 DEF PersonTypes, UserTypes, UserText, Typed, PaneOK
<1>27. CASE UNCHANGED vars
  BY <1>27 DEF vars, paneVars, Typed, PaneOK
<1> QED BY <1>1, <1>2, <1>3, <1>4, <1>5, <1>6, <1>7, <1>8, <1>9, <1>10, <1>11, <1>12, <1>13,
           <1>14, <1>15, <1>16, <1>17, <1>18, <1>19, <1>20, <1>21, <1>22, <1>23, <1>24,
           <1>25, <1>26, <1>27 DEF Next, LoopStep

\* An instruction on its way is the last composed, on its own surface.
LEMMA WayKeeps == Typed /\ [Next]_vars => WayOK'
<1> SUFFICES ASSUME Typed, [Next]_vars PROVE WayOK' OBVIOUS
<1> USE TranscriptAssumption, HookAssumption, DeliveryAssumption
<1>1. CASE Boot
  <2>1. Outcome BY <1>1, BootEffect
  <2>2. UNCHANGED surface BY <1>1 DEF Boot, readVars
  <2> QED BY <2>1, <2>2, OutcomeWay
<1>2. CASE Poll
  BY <1>2 DEF Poll, Guarded, Aged, WayOK, OnItsWay
<1>3. CASE PollsText
  BY <1>3 DEF PollsText, Guarded, Aged, WayOK, OnItsWay
<1>4. CASE AckDeadline
  <2>1. Outcome BY <1>4, DeadlineEffect DEF Retreat
  <2>2. UNCHANGED surface BY <1>4 DEF AckDeadline, readVars
  <2> QED BY <2>1, <2>2, OutcomeWay
<1>5. CASE \E i \in loop.batch : Skip(i)
  BY <1>5 DEF Skip, After, Oldest, WayOK, OnItsWay
<1>6. CASE \E i \in loop.batch : Stalled(i)
  BY <1>6 DEF Stalled, Paused, WayOK, OnItsWay
<1>7. CASE \E i \in loop.batch : Mismatch(i)
  <2>1. Outcome BY <1>7, MismatchEffect
  <2>2. UNCHANGED surface BY <1>7 DEF Mismatch, readVars
  <2> QED BY <2>1, <2>2, OutcomeWay
<1>8. CASE \E i \in loop.batch, passes \in BOOLEAN : Accept(i, passes)
  <2>1. Outcome BY <1>8, AcceptEffect
  <2>2. UNCHANGED surface BY <1>8 DEF Accept, readVars
  <2> QED BY <2>1, <2>2, OutcomeWay
<1>9. CASE EndBatch
  BY <1>9 DEF EndBatch, WayOK, OnItsWay
<1>10. CASE WriteHandoff
  BY <1>10 DEF WriteHandoff, WriteInstruction, readVars, Typed, WayOK, OnItsWay
<1>11. CASE AckSeen
  BY <1>11 DEF AckSeen, Arrived, Delivered, WayOK, OnItsWay
<1>12. CASE GiveUp
  BY <1>12 DEF GiveUp, Paused, WayOK, OnItsWay
<1>13. CASE RelaySend
  <2>1. Outcome BY <1>13, RelayEffect
  <2>2. UNCHANGED surface BY <1>13 DEF RelaySend, readVars
  <2> QED BY <2>1, <2>2, OutcomeWay
<1>14. CASE \E outcome \in {"inject", "defer", "offline"} : Look(outcome)
  <2>1. PICK outcome \in {"inject", "defer", "offline"} : Look(outcome) BY <1>14
  <2>2. UNCHANGED <<surface, issued>> /\ loop.pc = "window" /\ loop \in Loops
    BY <2>1 DEF Look, readVars, Typed, LoopOK
  <2>3. loop'.pc \in {"type", "window", "off"} /\ (loop'.pc # "off" => loop'.id = loop.id)
    BY <2>1, <2>2, PausedTyped DEF Look
  <2> QED BY <2>2, <2>3 DEF Typed, WayOK, OnItsWay
<1>15. CASE TypeText
  BY <1>15 DEF TypeText, Type, readVars, Typed, WayOK, OnItsWay
<1>16. CASE TypeFails
  <2>1. Outcome BY <1>16, TypeFailsEffect DEF Retreat
  <2>2. UNCHANGED surface BY <1>16 DEF TypeFails, readVars
  <2> QED BY <2>1, <2>2, OutcomeWay
<1>17. CASE
       \E takes \in BOOLEAN, shows \in {"progress", "clear", "stuck"} : Confirm(takes, shows)
  <2>1. PICK takes \in BOOLEAN, shows \in {"progress", "clear", "stuck"} : Confirm(takes, shows)
    BY <1>17
  <2>2. UNCHANGED surface BY <2>1 DEF Confirm, readVars
  <2>3. Outcome \/ UNCHANGED <<loop, issued>> BY <2>1, ConfirmEffect
  <2> QED BY <2>2, <2>3, OutcomeWay DEF Typed, WayOK
<1>18. CASE Interrupt
  BY <1>18 DEF Interrupt, WayOK, OnItsWay
<1>19. CASE Park
  BY <1>19 DEF Park, Paused, WayOK, OnItsWay
<1>20. CASE Resume
  BY <1>20 DEF Resume, Unread, WayOK, OnItsWay
<1>21. CASE \E seq \in Numbers, status \in Statuses : Reports(seq, status)
  BY <1>21 DEF Reports, Emits, worker, Numbers, Typed, WayOK, OnItsWay
<1>22. CASE PrintsText
  BY <1>22 DEF PrintsText, Emits, worker, PlainText, Typed, WayOK, OnItsWay
<1>23. CASE Truncated
  BY <1>23 DEF Truncated, Truncate, worker, Typed, WayOK, OnItsWay
<1>24. CASE Stops
  BY <1>24 DEF Stops, AgentStops, worker, readVars, Typed, WayOK, OnItsWay
<1>25. CASE HookStep
  BY <1>25 DEF HookStep, HookReads, HookAcks, HookEmits, HookFallsThrough, HookKilled,
     IdleHook, worker, Undelivered, readVars, Typed, WayOK, OnItsWay
<1>26. CASE PersonTypes
  BY <1>26 DEF PersonTypes, UserTypes, worker, UserText, readVars, Typed, WayOK, OnItsWay
<1>27. CASE UNCHANGED vars
  BY <1>27 DEF vars, readVars, Typed, WayOK, OnItsWay
<1> QED BY <1>1, <1>2, <1>3, <1>4, <1>5, <1>6, <1>7, <1>8, <1>9, <1>10, <1>11, <1>12, <1>13,
           <1>14, <1>15, <1>16, <1>17, <1>18, <1>19, <1>20, <1>21, <1>22, <1>23, <1>24,
           <1>25, <1>26, <1>27 DEF Next, LoopStep

\* Every id that stands anywhere has been composed.
LEMMA SentKeeps == Typed /\ [Next]_vars => SentOK'
<1> SUFFICES ASSUME Typed, [Next]_vars PROVE SentOK' OBVIOUS
<1> USE TranscriptAssumption, HookAssumption, DeliveryAssumption
<1>1. CASE Boot
  <2>1. Outcome BY <1>1, BootEffect
  <2>2. UNCHANGED <<hookVars, composer, told, agent>> BY <1>1 DEF Boot, history
  <2> QED BY <2>1, <2>2, IdsGrow DEF Outcome, Typed, SentOK
<1>2. CASE Poll
  BY <1>2 DEF Poll, Guarded, Aged, hookVars, history, Typed, SentOK, Ids, NoInstruction
<1>3. CASE PollsText
  BY <1>3 DEF PollsText, Guarded, Aged, hookVars, history, Typed, SentOK, Ids, NoInstruction
<1>4. CASE AckDeadline
  <2>1. Outcome BY <1>4, DeadlineEffect DEF Retreat
  <2>2. UNCHANGED <<hookVars, composer, told, agent>> BY <1>4 DEF AckDeadline, paneVars,
                                                         history
  <2> QED BY <2>1, <2>2, IdsGrow DEF Outcome, Typed, SentOK
<1>5. CASE \E i \in loop.batch : Skip(i)
  BY <1>5 DEF Skip, After, Oldest, hookVars, paneVars, history, Typed, SentOK, Ids,
     NoInstruction
<1>6. CASE \E i \in loop.batch : Stalled(i)
  BY <1>6 DEF Stalled, hookVars, paneVars, history, Typed, SentOK, Ids, NoInstruction
<1>7. CASE \E i \in loop.batch : Mismatch(i)
  <2>1. Outcome BY <1>7, MismatchEffect
  <2>2. UNCHANGED <<hookVars, composer, told, agent>> BY <1>7 DEF Mismatch, paneVars,
                                                         history
  <2> QED BY <2>1, <2>2, IdsGrow DEF Outcome, Typed, SentOK
<1>8. CASE \E i \in loop.batch, passes \in BOOLEAN : Accept(i, passes)
  <2>1. Outcome BY <1>8, AcceptEffect
  <2>2. UNCHANGED <<hookVars, composer, told, agent>> BY <1>8 DEF Accept, paneVars
  <2> QED BY <2>1, <2>2, IdsGrow DEF Outcome, Typed, SentOK
<1>9. CASE EndBatch
  BY <1>9 DEF EndBatch, hookVars, paneVars, history, Typed, SentOK, Ids, NoInstruction
<1>10. CASE WriteHandoff
  <2>1. pending' \in Ids BY <1>10 DEF WriteHandoff, WriteInstruction, Typed, LoopOK
  <2> QED BY <1>10, <2>1 DEF WriteHandoff, WriteInstruction, paneVars, history, Typed,
             SentOK, Ids
<1>11. CASE AckSeen
  BY <1>11 DEF AckSeen, Arrived, Delivered, hookVars, paneVars, history, Typed, SentOK, Ids,
     NoInstruction
<1>12. CASE GiveUp
  BY <1>12 DEF GiveUp, hookVars, paneVars, Typed, SentOK, Ids, NoInstruction
<1>13. CASE RelaySend
  <2>1. Outcome BY <1>13, RelayEffect
  <2>2. UNCHANGED <<hookVars, composer>> BY <1>13 DEF RelaySend, paneVars
  <2>3. loop.id \in Ids /\ issued[loop.id] \in Nodes
    BY <1>13 DEF RelaySend, Typed, WayOK, SentOK, Ids, OnItsWay
  <2>4. told' \in Seq(SUBSET Ids) /\ agent' \in [node : Nodes, seq : Nat]
    <3>1. \/ told' = Append(told, {loop.id}) /\ agent' = [agent EXCEPT !.node = issued[loop.id]]
          \/ UNCHANGED <<told, agent>>
      BY <1>13 DEF RelaySend
    <3>2. {loop.id} \in SUBSET Ids BY <2>3
    <3> QED BY <2>3, <3>1, <3>2, ToldGrows DEF Typed, SentOK
  <2> QED BY <2>1, <2>2, <2>4, IdsGrow DEF Outcome, Typed, SentOK
<1>14. CASE \E outcome \in {"inject", "defer", "offline"} : Look(outcome)
  BY <1>14 DEF Look, Readiness, hookVars, paneVars, history, Typed, SentOK, Ids,
     NoInstruction
<1>15. CASE TypeText
  <2>1. composer' \subseteq Ids BY <1>15 DEF TypeText, Type, Typed, SentOK, LoopOK
  <2> QED BY <1>15, <2>1 DEF TypeText, hookVars, history, Typed, SentOK, Ids
<1>16. CASE TypeFails
  <2>1. Outcome BY <1>16, TypeFailsEffect DEF Retreat
  <2>2. UNCHANGED <<hookVars, composer, told, agent>> BY <1>16 DEF TypeFails, KeysFail,
                                                         paneVars
  <2> QED BY <2>1, <2>2, IdsGrow DEF Outcome, Typed, SentOK
<1>17. CASE
       \E takes \in BOOLEAN, shows \in {"progress", "clear", "stuck"} : Confirm(takes, shows)
  <2>1. PICK takes \in BOOLEAN, shows \in {"progress", "clear", "stuck"} : Confirm(takes, shows)
    BY <1>17
  <2>2. Outcome \/ UNCHANGED <<loop, issued>> BY <2>1, ConfirmEffect
  <2>3. UNCHANGED hookVars /\ composer' \subseteq Ids
    BY <2>1 DEF Confirm, ConfirmRound, Enter, Typed, SentOK
  <2>4. \A i \in InComposer : i \in Ids /\ issued[i] \in Nodes
    BY DEF InComposer, UserText, Typed, SentOK, Ids
  <2>5. told' \in Seq(SUBSET Ids) /\ agent' \in [node : Nodes, seq : Nat]
    <3>1. CASE takes /\ InComposer # {}
      <4>1. InComposer \in SUBSET Ids BY <2>4
      <4>2. told' = Append(told, InComposer) BY <2>1, <3>1 DEF Confirm, Submit
      <4>3. PICK i \in InComposer : agent' = [agent EXCEPT !.node = issued[i]]
        BY <2>1, <3>1 DEF Confirm, Submit
      <4> QED BY <2>4, <4>1, <4>2, <4>3, ToldGrows DEF Typed
    <3>2. CASE ~(takes /\ InComposer # {})
      BY <2>1, <3>2 DEF Confirm, Submit, Typed, SentOK
    <3> QED BY <3>1, <3>2
  <2> QED BY <2>2, <2>3, <2>5, IdsGrow DEF Outcome
<1>18. CASE Interrupt
  BY <1>18 DEF Interrupt, hookVars, paneVars, Typed, SentOK, Ids, NoInstruction
<1>19. CASE Park
  BY <1>19 DEF Park, hookVars, paneVars, history, Typed, SentOK, Ids, NoInstruction
<1>20. CASE Resume
  BY <1>20 DEF Resume, Unread, hookVars, Typed, SentOK, Ids, NoInstruction
<1>21. CASE \E seq \in Numbers, status \in Statuses : Reports(seq, status)
  <2>1. PICK seq \in Numbers, status \in Statuses : Reports(seq, status) BY <1>21
  <2>2. seq \in Nat BY DEF Numbers, Typed, SentOK
  <2>3. agent' \in [node : Nodes, seq : Nat] BY <2>1, <2>2 DEF Reports, Typed, SentOK
  <2> QED BY <2>1, <2>3 DEF Reports, hookVars, paneVars, worker, Typed, SentOK, Ids
<1>22. CASE PrintsText
  BY <1>22 DEF PrintsText, Emits, worker, PlainText, hookVars, paneVars, Typed, SentOK, Ids,
     NoInstruction
<1>23. CASE Truncated
  BY <1>23 DEF Truncated, Truncate, worker, hookVars, paneVars, Typed, SentOK, Ids,
     NoInstruction
<1>24. CASE Stops
  BY <1>24 DEF Stops, AgentStops, worker, hookVars, Typed, SentOK, Ids, NoInstruction
<1>25. CASE HookStep
  <2>1. UNCHANGED <<issued, composer, loop>> BY <1>25 DEF HookStep, worker
  <2>2. CASE HookReads /\ UNCHANGED <<agent, told>>
    BY <2>1, <2>2 DEF HookReads, Undelivered, IdleHook, NoInstruction, Typed, SentOK, Ids
  <2>3. CASE HookAcks /\ UNCHANGED <<agent, told>>
    BY <2>1, <2>3 DEF HookAcks, Typed, SentOK, Ids
  <2>4. CASE HookEmits /\ told' = Append(told, {hook.id})
             /\ agent' = [agent EXCEPT !.node = issued[hook.id]]
    <3>1. hook.id \in Ids /\ issued[hook.id] \in Nodes
      BY <2>4 DEF HookEmits, Typed, SentOK, Ids, NoInstruction
    <3>2. told' \in Seq(SUBSET Ids) /\ agent' \in [node : Nodes, seq : Nat]
      <4>1. {hook.id} \in SUBSET Ids BY <3>1
      <4>2. SentOK BY DEF Typed
      <4>3. told' = Append(told, {hook.id}) /\ agent' = [agent EXCEPT !.node = issued[hook.id]]
        BY <2>4
      <4> DEFINE S == {hook.id}
      <4>4. S \in SUBSET Ids /\ told' = Append(told, S) BY <4>1, <4>3
      <4> DEFINE n == issued[hook.id]
      <4>5. n \in Nodes /\ agent' = [agent EXCEPT !.node = n] BY <3>1, <4>3
      <4> HIDE DEF S, n
      <4> QED BY <4>5, <4>2, <4>3, <4>4, ToldGrows
    <3>3. Ids' = Ids BY <2>1 DEF Ids
    <3>4. hook' = IdleHook /\ IdleHook \in [pc : {"idle", "read", "acked"}, id : Ids]
          /\ IdleHook.pc = "idle"
      BY <2>4 DEF HookEmits, IdleHook, NoInstruction, Ids
    <3>5. UNCHANGED <<pending, acked>> BY <2>4 DEF HookEmits
    <3> QED BY <2>1, <3>2, <3>3, <3>4, <3>5 DEF Typed, SentOK
  <2>5. CASE (HookFallsThrough \/ HookKilled) /\ UNCHANGED <<agent, told>>
    BY <2>1, <2>5 DEF HookFallsThrough, HookKilled, hookVars, IdleHook, NoInstruction,
       Typed, SentOK, Ids
  <2> QED BY <1>25, <2>2, <2>3, <2>4, <2>5 DEF HookStep
<1>26. CASE PersonTypes
  BY <1>26 DEF PersonTypes, UserTypes, worker, UserText, hookVars, Typed, SentOK, Ids,
     NoInstruction
<1>27. CASE UNCHANGED vars
  BY <1>27 DEF vars, hookVars, paneVars, history, Typed, SentOK, Ids, NoInstruction
<1> QED BY <1>1, <1>2, <1>3, <1>4, <1>5, <1>6, <1>7, <1>8, <1>9, <1>10, <1>11, <1>12, <1>13,
           <1>14, <1>15, <1>16, <1>17, <1>18, <1>19, <1>20, <1>21, <1>22, <1>23, <1>24,
           <1>25, <1>26, <1>27 DEF Next, LoopStep

\* The loop's record keeps its type, its batch made of printed checkpoints.
LEMMA LoopKeeps == Typed /\ [Next]_vars => LoopOK'
<1> SUFFICES ASSUME Typed, [Next]_vars PROVE LoopOK' OBVIOUS
<1> USE TranscriptAssumption, HookAssumption, DeliveryAssumption
<1>1. CASE Boot
  <2>1. Outcome /\ (\A i \in loop'.batch : i \in Positions /\ IsCheckpoint(i)) BY <1>1, BootEffect
  <2>2. UNCHANGED written BY <1>1 DEF Boot, readVars
  <2> QED BY <2>1, <2>2, OutcomeIds DEF Outcome, LoopOK, Positions, IsCheckpoint
<1>2. CASE Poll
  <2>1. loop \in Loops /\ (loop.auto => loop.autos < MaxAuto) BY DEF Typed, LoopOK
  <2>2. UNCHANGED <<written, issued>> BY <1>2 DEF Poll, readVars
  <2>3. \A i \in Parsed(Read.text) : i \in Positions /\ IsCheckpoint(i) BY ReadTyped DEF
                                                                           Typed
  <2>4. Parsed(Read.text) \in SUBSET Nat BY <2>3 DEF Positions
  <2>5. Aged \in Loops /\ Aged.batch = loop.batch /\ Aged.id = loop.id
        /\ Aged.auto = loop.auto /\ Aged.autos = loop.autos
    BY <2>1 DEF Aged, Loops
  <2>6. /\ loop' \in Loops /\ loop'.batch \in {loop.batch, Parsed(Read.text)}
        /\ loop'.id = loop.id /\ loop'.auto = loop.auto /\ loop'.autos = loop.autos
    BY <1>2, <2>4, <2>5 DEF Poll, Loops, LoopSteps
  <2> QED BY <2>1, <2>2, <2>3, <2>6 DEF Typed, LoopOK, Ids, Positions, IsCheckpoint
<1>3. CASE PollsText
  <2>1. loop \in Loops /\ (loop.auto => loop.autos < MaxAuto) BY DEF Typed, LoopOK
  <2>2. UNCHANGED <<written, issued>> BY <1>3 DEF PollsText, readVars
  <2>3. \A i \in Parsed(Read.text) : i \in Positions /\ IsCheckpoint(i) BY ReadTyped DEF
                                                                           Typed
  <2>4. Parsed(Read.text) \in SUBSET Nat BY <2>3 DEF Positions
  <2>5. Aged \in Loops /\ Aged.batch = loop.batch /\ Aged.id = loop.id
        /\ Aged.auto = loop.auto /\ Aged.autos = loop.autos
    BY <2>1 DEF Aged, Loops
  <2>6. /\ loop' \in Loops /\ loop'.batch \in {loop.batch, Parsed(Read.text)}
        /\ loop'.id = loop.id /\ loop'.auto = loop.auto /\ loop'.autos = loop.autos
    BY <1>3, <2>4, <2>5 DEF PollsText
  <2> QED BY <2>1, <2>2, <2>3, <2>6 DEF Typed, LoopOK, Ids, Positions, IsCheckpoint
<1>4. CASE AckDeadline
  <2>1. Outcome /\ loop'.batch \subseteq loop.batch BY <1>4, DeadlineEffect DEF Retreat
  <2>2. UNCHANGED written BY <1>4 DEF AckDeadline, readVars
  <2> QED BY <2>1, <2>2, OutcomeIds DEF Outcome, Typed, LoopOK, Positions, IsCheckpoint
<1>5. CASE \E i \in loop.batch : Skip(i)
  <2>1. loop \in Loops /\ (loop.auto => loop.autos < MaxAuto) BY DEF Typed, LoopOK
  <2>2. UNCHANGED <<written, issued>> BY <1>5 DEF Skip, readVars
  <2>3. /\ loop' \in Loops /\ loop'.batch \subseteq loop.batch /\ loop'.id = loop.id
        /\ loop'.auto = loop.auto /\ loop'.autos = loop.autos
    BY <1>5, <2>1 DEF Skip, After, Loops
  <2> QED BY <2>1, <2>2, <2>3 DEF Typed, LoopOK, Ids, Positions, IsCheckpoint
<1>6. CASE \E i \in loop.batch : Stalled(i)
  <2>1. loop' = Paused(loop) /\ UNCHANGED <<written, issued>> BY <1>6 DEF Stalled, readVars
  <2>2. Len(issued) \in Nat OBVIOUS
  <2> QED BY <2>1, <2>2, PausedTyped DEF Typed, LoopOK, Ids
<1>7. CASE \E i \in loop.batch : Mismatch(i)
  <2>1. Outcome /\ loop'.batch \subseteq loop.batch BY <1>7, MismatchEffect
  <2>2. UNCHANGED written BY <1>7 DEF Mismatch, readVars
  <2> QED BY <2>1, <2>2, OutcomeIds DEF Outcome, Typed, LoopOK, Positions, IsCheckpoint
<1>8. CASE \E i \in loop.batch, passes \in BOOLEAN : Accept(i, passes)
  <2>1. Outcome /\ loop'.batch \subseteq loop.batch BY <1>8, AcceptEffect
  <2>2. UNCHANGED written BY <1>8 DEF Accept, readVars
  <2> QED BY <2>1, <2>2, OutcomeIds DEF Outcome, Typed, LoopOK, Positions, IsCheckpoint
<1>9. CASE EndBatch
  <2>1. loop \in Loops /\ (loop.auto => loop.autos < MaxAuto) BY DEF Typed, LoopOK
  <2>2. UNCHANGED <<written, issued>> BY <1>9 DEF EndBatch, readVars
  <2>3. /\ loop' \in Loops /\ loop'.batch \subseteq loop.batch /\ loop'.id = loop.id
        /\ loop'.auto = loop.auto /\ loop'.autos = loop.autos
    BY <1>9, <2>1 DEF EndBatch, Loops, LoopSteps
  <2> QED BY <2>1, <2>2, <2>3 DEF Typed, LoopOK, Ids, Positions, IsCheckpoint
<1>10. CASE WriteHandoff
  <2>1. loop \in Loops /\ (loop.auto => loop.autos < MaxAuto) BY DEF Typed, LoopOK
  <2>2. UNCHANGED <<written, issued>> BY <1>10 DEF WriteHandoff, readVars
  <2>3. /\ loop' \in Loops /\ loop'.batch \subseteq loop.batch /\ loop'.id = loop.id
        /\ loop'.auto = loop.auto /\ loop'.autos = loop.autos
    BY <1>10, <2>1 DEF WriteHandoff, Loops, LoopSteps
  <2> QED BY <2>1, <2>2, <2>3 DEF Typed, LoopOK, Ids, Positions, IsCheckpoint
<1>11. CASE AckSeen
  <2>1. Arrived /\ UNCHANGED <<written, issued>> BY <1>11 DEF AckSeen, readVars
  <2>2. Outcome /\ loop'.batch = loop.batch BY <2>1, ArrivedEffect
  <2> QED BY <2>1, <2>2, OutcomeIds DEF Outcome, Typed, LoopOK, Positions, IsCheckpoint
<1>12. CASE GiveUp
  <2>1. loop' = Paused(loop) /\ UNCHANGED <<written, issued>> BY <1>12 DEF GiveUp, readVars
  <2>2. Len(issued) \in Nat OBVIOUS
  <2> QED BY <2>1, <2>2, PausedTyped DEF Typed, LoopOK, Ids
<1>13. CASE RelaySend
  <2>1. Outcome /\ loop'.batch \subseteq loop.batch BY <1>13, RelayEffect
  <2>2. UNCHANGED written BY <1>13 DEF RelaySend, readVars
  <2> QED BY <2>1, <2>2, OutcomeIds DEF Outcome, Typed, LoopOK, Positions, IsCheckpoint
<1>14. CASE \E outcome \in {"inject", "defer", "offline"} : Look(outcome)
  <2>1. PICK outcome \in {"inject", "defer", "offline"} : Look(outcome) BY <1>14
  <2>2. loop \in Loops /\ (loop.auto => loop.autos < MaxAuto) BY DEF Typed, LoopOK
  <2>3. UNCHANGED <<written, issued>> BY <2>1 DEF Look, readVars
  <2>4. CASE loop' = Paused(loop)
    <3>1. Len(issued) \in Nat OBVIOUS
    <3> QED BY <2>3, <2>4, <3>1, PausedTyped, <2>2 DEF LoopOK, Ids
  <2>5. CASE loop' # Paused(loop)
    <3>1. loop' = [loop EXCEPT !.pc = "type"] \/ loop' = [loop EXCEPT !.tries = loop.tries + 1]
      BY <2>1, <2>5 DEF Look
    <3>2. /\ loop' \in Loops /\ loop'.batch = loop.batch /\ loop'.id = loop.id
          /\ loop'.auto = loop.auto /\ loop'.autos = loop.autos
      BY <2>2, <3>1 DEF Loops, LoopSteps
    <3> QED BY <2>2, <2>3, <3>2 DEF Typed, LoopOK, Ids, Positions, IsCheckpoint
  <2> QED BY <2>4, <2>5
<1>15. CASE TypeText
  <2>1. loop \in Loops /\ (loop.auto => loop.autos < MaxAuto) BY DEF Typed, LoopOK
  <2>2. UNCHANGED <<written, issued>> BY <1>15 DEF TypeText, readVars
  <2>3. /\ loop' \in Loops /\ loop'.batch \subseteq loop.batch /\ loop'.id = loop.id
        /\ loop'.auto = loop.auto /\ loop'.autos = loop.autos
    BY <1>15, <2>1 DEF TypeText, Loops, LoopSteps
  <2> QED BY <2>1, <2>2, <2>3 DEF Typed, LoopOK, Ids, Positions, IsCheckpoint
<1>16. CASE TypeFails
  <2>1. Outcome /\ loop'.batch \subseteq loop.batch BY <1>16, TypeFailsEffect DEF Retreat
  <2>2. UNCHANGED written BY <1>16 DEF TypeFails, readVars
  <2> QED BY <2>1, <2>2, OutcomeIds DEF Outcome, Typed, LoopOK, Positions, IsCheckpoint
<1>17. CASE
       \E takes \in BOOLEAN, shows \in {"progress", "clear", "stuck"} : Confirm(takes, shows)
  <2>1. PICK takes \in BOOLEAN, shows \in {"progress", "clear", "stuck"} : Confirm(takes, shows)
    BY <1>17
  <2>2. UNCHANGED written BY <2>1 DEF Confirm, readVars
  <2>3. /\ loop'.batch \subseteq loop.batch
        /\ Outcome \/ UNCHANGED <<loop, issued>>
    BY <2>1, ConfirmEffect
  <2> QED BY <2>2, <2>3, OutcomeIds DEF Outcome, Typed, LoopOK, Ids, Positions, IsCheckpoint
<1>18. CASE Interrupt
  <2>1. loop \in Loops /\ (loop.auto => loop.autos < MaxAuto) BY DEF Typed, LoopOK
  <2>2. UNCHANGED <<written, issued>> BY <1>18 DEF Interrupt, readVars
  <2>3. /\ loop' \in Loops /\ loop'.batch \subseteq loop.batch /\ loop'.id = loop.id
        /\ loop'.auto = loop.auto /\ loop'.autos = loop.autos
    BY <1>18, <2>1 DEF Interrupt, Loops, LoopSteps
  <2> QED BY <2>1, <2>2, <2>3 DEF Typed, LoopOK, Ids, Positions, IsCheckpoint
<1>19. CASE Park
  <2>1. loop' = Paused(loop) /\ UNCHANGED <<written, issued>> BY <1>19 DEF Park, readVars
  <2>2. Len(issued) \in Nat OBVIOUS
  <2> QED BY <2>1, <2>2, PausedTyped DEF Typed, LoopOK, Ids
<1>20. CASE Resume
  <2>1. loop \in Loops /\ (loop.auto => loop.autos < MaxAuto) BY DEF Typed, LoopOK
  <2>2. UNCHANGED <<written, issued>> BY <1>20 DEF Resume, readVars
  <2>3. 0 \in 0 .. MaxAuto /\ (loop.auto => 0 < MaxAuto) BY <2>1 DEF Loops
  <2>4. /\ loop' \in Loops /\ loop'.batch = loop.batch /\ loop'.id = loop.id
        /\ loop'.auto = loop.auto /\ loop'.autos = 0
    BY <1>20, <2>1, <2>3 DEF Resume, Loops, LoopSteps
  <2> QED BY <2>2, <2>3, <2>4 DEF Typed, LoopOK, Ids, Positions, IsCheckpoint
<1>21. CASE \E seq \in Numbers, status \in Statuses : Reports(seq, status)
  <2>1. PICK seq \in Numbers, status \in Statuses : Reports(seq, status) BY <1>21
  <2>2. \E p : written' = Append(written, p) BY <2>1 DEF Reports, Emits
  <2>3. UNCHANGED <<loop, issued>> BY <2>1 DEF Reports, worker
  <2> QED BY <2>2, <2>3 DEF Typed, LoopOK, Ids, Positions, IsCheckpoint
<1>22. CASE PrintsText
  BY <1>22 DEF PrintsText, Emits, worker, PlainText, Typed, ReadOK, LoopOK, Ids, Positions,
     IsCheckpoint
<1>23. CASE Truncated
  BY <1>23 DEF Truncated, Truncate, worker, Typed, LoopOK, Ids, Positions, IsCheckpoint
<1>24. CASE Stops
  BY <1>24 DEF Stops, AgentStops, worker, readVars, Typed, LoopOK, Ids, Positions,
     IsCheckpoint
<1>25. CASE HookStep
  BY <1>25 DEF HookStep, HookReads, HookAcks, HookEmits, HookFallsThrough, HookKilled,
     IdleHook, worker, Undelivered, readVars, Typed, LoopOK, Ids, Positions, IsCheckpoint
<1>26. CASE PersonTypes
  BY <1>26 DEF PersonTypes, UserTypes, worker, UserText, readVars, Typed, LoopOK, Ids,
     Positions, IsCheckpoint
<1>27. CASE UNCHANGED vars
  BY <1>27 DEF vars, readVars, Typed, LoopOK, Ids, Positions, IsCheckpoint
<1> QED BY <1>1, <1>2, <1>3, <1>4, <1>5, <1>6, <1>7, <1>8, <1>9, <1>10, <1>11, <1>12, <1>13,
           <1>14, <1>15, <1>16, <1>17, <1>18, <1>19, <1>20, <1>21, <1>22, <1>23, <1>24,
           <1>25, <1>26, <1>27 DEF Next, LoopStep

\* The initial states are typed.
LEMMA InitTyped == Init => Typed
<1> SUFFICES ASSUME Init PROVE Typed OBVIOUS
<1> USE TranscriptAssumption, HookAssumption, DeliveryAssumption
<1> USE DEF Init, TranscriptInit, HookInit, PaneInit
<1>1. ReadOK
  <2> DEFINE p == [kind |-> "checkpoint", run |-> "other", seq |-> 1, node |-> 1,
                   status |-> "step_done"]
  <2>1. 1 \in Nodes /\ 1 \in Nat /\ "step_done" \in Statuses BY DEF Nodes, Statuses
  <2>2. p \in Pieces BY <2>1 DEF Pieces, Checkpoints
  <2>3. written = <<>> \/ written = <<p>> OBVIOUS
  <2> HIDE DEF p
  <2>4. <<>> \in Seq(Pieces) /\ <<p>> \in Seq(Pieces) BY <2>2
  <2>5. written \in Seq(Pieces) BY <2>3, <2>4
  <2> QED BY <2>5 DEF ReadOK, Unread
<1>2. 0 \in Ids /\ Len(issued) = 0 BY DEF Ids
<1>3. 0 \in 0 .. MaxAuto /\ 1 \in Nodes BY DEF Nodes
<1>4. loop \in Loops BY <1>3 DEF Loops, LoopSteps, NoInstruction
<1>5. LoopOK BY <1>2, <1>4 DEF LoopOK, NoInstruction
<1>6. SentOK
  <2>1. issued \in Seq(Nodes) /\ told \in Seq(SUBSET Ids) OBVIOUS
  <2>2. hook \in [pc : {"idle", "read", "acked"}, id : Ids] BY <1>2 DEF IdleHook,
                                                               NoInstruction
  <2>3. agent \in [node : Nodes, seq : Nat] BY <1>3
  <2>4. Len(issued) <= MaxInstruction BY <1>2
  <2>5. hook.pc = "idle" /\ hook = IdleHook BY DEF IdleHook
  <2>6. pending \in Ids /\ acked \in Ids /\ composer \subseteq Ids BY <1>2 DEF NoInstruction
  <2> QED BY <2>1, <2>2, <2>3, <2>4, <2>5, <2>6 DEF SentOK
<1>7. PaneOK
  <2>1. guard \in BOOLEAN /\ busy \in BOOLEAN OBVIOUS
  <2>2. rounds \in 0 .. 2 /\ delivery = "IDLE" OBVIOUS
  <2> QED BY <2>1, <2>2 DEF PaneOK
<1>8. WayOK BY DEF WayOK, OnItsWay
<1> QED BY <1>1, <1>5, <1>6, <1>7, <1>8 DEF Typed

\* The five parts carry each other over every step.
LEMMA TypedStep == Typed /\ [Next]_vars => Typed'
  BY ReadKeeps, LoopKeeps, SentKeeps, PaneKeeps, WayKeeps DEF Typed

\* Every variable keeps to its range, whatever the bounds, surfaces and numberings.
THEOREM TypesHold == Spec => []TypeOK
<1>1. Typed => TypeOK
  <2> SUFFICES ASSUME Typed PROVE TypeOK OBVIOUS
  <2>1. Len(issued) \in Nat /\ Len(issued) <= MaxInstruction /\ MaxInstruction \in Nat
    BY HookAssumption DEF Typed, SentOK
  <2>2. pending \in Instructions \cup {NoInstruction}
        /\ acked \in Instructions \cup {NoInstruction}
    BY <2>1 DEF Typed, SentOK, Ids, Instructions, NoInstruction
  <2>3. \A k \in DOMAIN issued : issued[k] \in Nodes BY DEF Typed, SentOK
  <2>4. loop.pc \in LoopSteps /\ loop.node \in Nodes /\ loop.mism \in Nat
        /\ loop.autos \in 0 .. MaxAuto
        /\ loop.top \in {"READY", "RUNNING", "RECOVERY_NEEDED", "PAUSED_FOR_HUMAN", "COMPLETED"}
    BY DEF Typed, LoopOK, Loops
  <2> QED BY <2>2, <2>3, <2>4 DEF Typed, ReadOK, SentOK, PaneOK, TypeOK, LoopSteps
<1> QED BY InitTyped, TypedStep, <1>1, PTL DEF Spec

-------------------------------------------------------------------------------
(* No piece is taken in twice *)

\* A piece that is taken in has a number above those of its epoch, or starts a new one.
LEMMA EpochKeeps == Typed /\ EpochOK /\ [Next]_vars => EpochOK'
<1> SUFFICES ASSUME Typed, EpochOK, [Next]_vars PROVE EpochOK' OBVIOUS
<1> USE TranscriptAssumption, HookAssumption, DeliveryAssumption
<1>1. CASE Boot
  <2>1. loop'.seq = loop.seq BY <1>1, BootEffect
  <2>2. UNCHANGED <<written, epoch, replayed>> BY <1>1 DEF Boot, readVars, history, taken
  <2> QED BY <2>1, <2>2 DEF EpochOK, Positions
<1>2. CASE Poll
  <2>1. loop'.seq = loop.seq BY <1>2 DEF Poll, Aged
  <2>2. UNCHANGED <<written, epoch, replayed>> BY <1>2 DEF Poll, readVars, history, taken
  <2> QED BY <2>1, <2>2 DEF EpochOK, Positions
<1>3. CASE PollsText
  <2>1. loop'.seq = loop.seq BY <1>3 DEF PollsText, Aged
  <2>2. UNCHANGED <<written, epoch, replayed>> BY <1>3 DEF PollsText, readVars, history,
                                                  taken
  <2> QED BY <2>1, <2>2 DEF EpochOK, Positions
<1>4. CASE AckDeadline
  <2>1. loop'.seq = loop.seq BY <1>4, DeadlineEffect
  <2>2. UNCHANGED <<written, epoch, replayed>> BY <1>4 DEF AckDeadline, readVars, history,
                                                  taken
  <2> QED BY <2>1, <2>2 DEF EpochOK, Positions
<1>5. CASE \E i \in loop.batch : Skip(i)
  <2>1. loop'.seq = loop.seq BY <1>5 DEF Skip, After
  <2>2. UNCHANGED <<written, epoch, replayed>> BY <1>5 DEF Skip, readVars, history, taken
  <2> QED BY <2>1, <2>2 DEF EpochOK, Positions
<1>6. CASE \E i \in loop.batch : Stalled(i)
  <2>1. loop'.seq = loop.seq BY <1>6 DEF Stalled, Paused
  <2>2. UNCHANGED <<written, epoch, replayed>> BY <1>6 DEF Stalled, readVars, history, taken
  <2> QED BY <2>1, <2>2 DEF EpochOK, Positions
<1>7. CASE \E i \in loop.batch : Mismatch(i)
  <2>1. loop'.seq = loop.seq BY <1>7, MismatchEffect
  <2>2. UNCHANGED <<written, epoch, replayed>> BY <1>7 DEF Mismatch, readVars, history,
                                                  taken
  <2> QED BY <2>1, <2>2 DEF EpochOK, Positions
<1>8. CASE \E i \in loop.batch, passes \in BOOLEAN : Accept(i, passes)
  <2>1. PICK i \in loop.batch, passes \in BOOLEAN : Accept(i, passes) BY <1>8
  <2> DEFINE n == written[i].seq
  <2>2. i \in Positions /\ IsCheckpoint(i) /\ n \in Nat /\ loop.seq \in Nat
    <3>1. written[i] \in Checkpoints BY AbsorbedTyped
    <3> QED BY <3>1 DEF Typed, LoopOK, Checkpoints, Loops
  <2>3. loop'.seq = IF n > 0 THEN n ELSE loop.seq BY <2>1, AcceptEffect
  <2>4. UNCHANGED written /\ ~OldNumber(written[i]) /\ Remember(i)
    BY <2>1 DEF Accept, New, Handled, readVars
  <2>5. \A j \in epoch : j \in Positions /\ written[j].kind = "checkpoint"
        /\ written[j].seq <= loop.seq
    BY DEF EpochOK
  <2>6. CASE StartsOver(written[i])
    <3>1. epoch' = {i} /\ ~replayed' BY <2>4, <2>6 DEF Remember, EpochOK
    <3>2. n <= loop'.seq BY <2>2, <2>3
    <3> QED BY <2>2, <2>4, <3>1, <3>2 DEF EpochOK, IsCheckpoint, Positions
  <2>7. CASE ~StartsOver(written[i])
    <3>1. n > loop.seq BY <2>2, <2>4, <2>7 DEF OldNumber, StartsOver
    <3>2. i \notin epoch
      <4>1. \A j \in epoch : written[j].seq \in Nat
        <5> SUFFICES ASSUME NEW j \in epoch PROVE written[j].seq \in Nat OBVIOUS
        <5>1. written[j] \in Pieces /\ written[j].kind = "checkpoint"
          BY <2>5 DEF Typed, ReadOK, Positions
        <5> QED BY <5>1 DEF Pieces, Checkpoints, PlainText
      <4> QED BY <2>2, <2>5, <3>1, <4>1
    <3>3. epoch' = epoch \cup {i} /\ ~replayed' BY <2>4, <2>7, <3>2 DEF Remember, EpochOK
    <3>4. \A j \in epoch : written[j].seq <= loop'.seq
      <4> SUFFICES ASSUME NEW j \in epoch PROVE written[j].seq <= loop'.seq OBVIOUS
      <4>1. written[j] \in Pieces /\ written[j].kind = "checkpoint"
        BY <2>5 DEF Typed, ReadOK, Positions
      <4>2. written[j].seq \in Nat BY <4>1 DEF Pieces, Checkpoints, PlainText
      <4> QED BY <2>2, <2>3, <2>5, <3>1, <4>2
    <3> QED BY <2>2, <2>3, <2>4, <2>5, <3>1, <3>3, <3>4 DEF EpochOK, IsCheckpoint, Positions
  <2> QED BY <2>6, <2>7
<1>9. CASE EndBatch
  <2>1. loop'.seq = loop.seq BY <1>9 DEF EndBatch
  <2>2. UNCHANGED <<written, epoch, replayed>> BY <1>9 DEF EndBatch, readVars, history,
                                                  taken
  <2> QED BY <2>1, <2>2 DEF EpochOK, Positions
<1>10. CASE WriteHandoff
  <2>1. loop'.seq = loop.seq BY <1>10 DEF WriteHandoff
  <2>2. UNCHANGED <<written, epoch, replayed>> BY <1>10 DEF WriteHandoff, readVars, history,
                                                  taken
  <2> QED BY <2>1, <2>2 DEF EpochOK, Positions
<1>11. CASE AckSeen
  <2>1. loop'.seq = loop.seq BY <1>11 DEF AckSeen, Arrived
  <2>2. UNCHANGED <<written, epoch, replayed>> BY <1>11 DEF AckSeen, readVars, history,
                                                  taken
  <2> QED BY <2>1, <2>2 DEF EpochOK, Positions
<1>12. CASE GiveUp
  <2>1. loop'.seq = loop.seq BY <1>12 DEF GiveUp, Paused
  <2>2. UNCHANGED <<written, epoch, replayed>> BY <1>12 DEF GiveUp, readVars, taken
  <2> QED BY <2>1, <2>2 DEF EpochOK, Positions
<1>13. CASE RelaySend
  <2>1. loop'.seq = loop.seq BY <1>13, RelayEffect
  <2>2. UNCHANGED <<written, epoch, replayed>> BY <1>13 DEF RelaySend, readVars, taken
  <2> QED BY <2>1, <2>2 DEF EpochOK, Positions
<1>14. CASE \E outcome \in {"inject", "defer", "offline"} : Look(outcome)
  <2>1. loop'.seq = loop.seq BY <1>14 DEF Look, Paused
  <2>2. UNCHANGED <<written, epoch, replayed>> BY <1>14 DEF Look, readVars, history, taken
  <2> QED BY <2>1, <2>2 DEF EpochOK, Positions
<1>15. CASE TypeText
  <2>1. loop'.seq = loop.seq BY <1>15 DEF TypeText
  <2>2. UNCHANGED <<written, epoch, replayed>> BY <1>15 DEF TypeText, readVars, history,
                                                  taken
  <2> QED BY <2>1, <2>2 DEF EpochOK, Positions
<1>16. CASE TypeFails
  <2>1. loop'.seq = loop.seq BY <1>16, TypeFailsEffect
  <2>2. UNCHANGED <<written, epoch, replayed>> BY <1>16 DEF TypeFails, readVars, taken
  <2> QED BY <2>1, <2>2 DEF EpochOK, Positions
<1>17. CASE
       \E takes \in BOOLEAN, shows \in {"progress", "clear", "stuck"} : Confirm(takes, shows)
  <2>1. loop'.seq = loop.seq BY <1>17, ConfirmEffect
  <2>2. UNCHANGED <<written, epoch, replayed>> BY <1>17 DEF Confirm, readVars, taken
  <2> QED BY <2>1, <2>2 DEF EpochOK, Positions
<1>18. CASE Interrupt
  <2>1. loop'.seq = loop.seq BY <1>18 DEF Interrupt
  <2>2. UNCHANGED <<written, epoch, replayed>> BY <1>18 DEF Interrupt, readVars, taken
  <2> QED BY <2>1, <2>2 DEF EpochOK, Positions
<1>19. CASE Park
  <2>1. loop'.seq = loop.seq BY <1>19 DEF Park, Paused
  <2>2. UNCHANGED <<written, epoch, replayed>> BY <1>19 DEF Park, readVars, history, taken
  <2> QED BY <2>1, <2>2 DEF EpochOK, Positions
<1>20. CASE Resume
  <2>1. loop'.seq = loop.seq BY <1>20 DEF Resume
  <2>2. UNCHANGED <<written, epoch, replayed>> BY <1>20 DEF Resume, readVars, taken
  <2> QED BY <2>1, <2>2 DEF EpochOK, Positions
<1>21. CASE \E seq \in Numbers, status \in Statuses : Reports(seq, status)
  <2>1. PICK seq \in Numbers, status \in Statuses : Reports(seq, status) BY <1>21
  <2>2. \E p : written' = Append(written, p) BY <2>1 DEF Reports, Emits
  <2>3. UNCHANGED <<loop, epoch, replayed>> BY <2>1 DEF Reports, worker, taken
  <2> QED BY <2>2, <2>3 DEF EpochOK, Positions
<1>22. CASE PrintsText
  <2>1. PrintsText BY <1>22
  <2>2. \E p : written' = Append(written, p) BY <2>1 DEF PrintsText, Emits
  <2>3. UNCHANGED <<loop, epoch, replayed>> BY <2>1 DEF PrintsText, worker, taken
  <2> QED BY <2>2, <2>3 DEF EpochOK, Positions
<1>23. CASE Truncated
  BY <1>23 DEF Truncated, Truncate, worker, taken, EpochOK, Positions
<1>24. CASE Stops
  BY <1>24 DEF Stops, AgentStops, worker, readVars, taken, EpochOK, Positions
<1>25. CASE HookStep
  BY <1>25 DEF HookStep, HookReads, HookAcks, HookEmits, HookFallsThrough, HookKilled,
     IdleHook, worker, Undelivered, readVars, taken, EpochOK, Positions
<1>26. CASE PersonTypes
  BY <1>26 DEF PersonTypes, UserTypes, worker, UserText, readVars, taken, EpochOK, Positions
<1>27. CASE UNCHANGED vars
  BY <1>27 DEF vars, readVars, history, taken, EpochOK, Positions
<1> QED BY <1>1, <1>2, <1>3, <1>4, <1>5, <1>6, <1>7, <1>8, <1>9, <1>10, <1>11, <1>12, <1>13,
           <1>14, <1>15, <1>16, <1>17, <1>18, <1>19, <1>20, <1>21, <1>22, <1>23, <1>24,
           <1>25, <1>26, <1>27 DEF Next, LoopStep

\* No checkpoint is handled twice unless the worker's numbering had, by all the loop can
\* tell, started over (the seq dedup of loop.py), for every instance.
THEOREM NoReplay == Spec => []ReplayNeedsRestart
<1>1. Init => EpochOK BY DEF Init, EpochOK
<1>2. EpochOK => ReplayNeedsRestart BY DEF EpochOK, ReplayNeedsRestart
<1> QED BY InitTyped, TypedStep, EpochKeeps, <1>1, <1>2, PTL DEF Spec

-------------------------------------------------------------------------------
(* Order *)

\* Nothing at the hook's files, and no hand-off begun or awaited.
LEMMA HookStays ==
    ASSUME HookOrder, UNCHANGED <<surface, pending, acked, hook, told>>,
           surface = "jsonl" => loop'.pc \notin {"write", "wait"}
    PROVE  HookOrder'
  BY DEF HookOrder

\* An outcome on a surface other than the observed one, or without an instruction.
LEMMA OutcomeHook ==
    ASSUME Outcome, Composes => surface # "jsonl"
    PROVE  surface = "jsonl" => loop'.pc \notin {"write", "wait"}
  BY DEF Outcome, Composes, OnItsWay

\* The hand-off file, the acknowledgement and the hook stay in order.
LEMMA HookKeeps == Typed /\ HookOrder /\ [Next]_vars => HookOrder'
<1> SUFFICES ASSUME Typed, HookOrder, [Next]_vars PROVE HookOrder' OBVIOUS
<1> USE TranscriptAssumption, HookAssumption, DeliveryAssumption
<1>1. CASE Boot
  <2>1. Outcome /\ (Composes => surface # "jsonl") BY <1>1, BootEffect
  <2>2. UNCHANGED <<surface, pending, acked, hook, told>>
    BY <1>1 DEF Boot, readVars, hookVars, history
  <2> QED BY <2>1, <2>2, OutcomeHook, HookStays
<1>2. CASE Poll
  <2>1. UNCHANGED <<surface, pending, acked, hook, told>>
    BY <1>2 DEF Poll, readVars, hookVars, history
  <2>2. loop'.pc \notin {"write", "wait"} BY <1>2 DEF Poll, Aged
  <2> QED BY <2>1, <2>2, HookStays
<1>3. CASE PollsText
  <2>1. UNCHANGED <<surface, pending, acked, hook, told>>
    BY <1>3 DEF PollsText, readVars, hookVars, history
  <2>2. loop'.pc \notin {"write", "wait"} BY <1>3 DEF PollsText, Aged
  <2> QED BY <2>1, <2>2, HookStays
<1>4. CASE AckDeadline
  <2>1. Outcome /\ (Composes => surface # "jsonl") BY <1>4, DeadlineEffect DEF Retreat
  <2>2. UNCHANGED <<surface, pending, acked, hook, told>>
    BY <1>4 DEF AckDeadline, readVars, hookVars, history
  <2> QED BY <2>1, <2>2, OutcomeHook, HookStays
<1>5. CASE \E i \in loop.batch : Skip(i)
  <2>1. UNCHANGED <<surface, pending, acked, hook, told>>
    BY <1>5 DEF Skip, readVars, hookVars, history
  <2>2. loop'.pc \notin {"write", "wait"} BY <1>5 DEF Skip, Oldest, After
  <2> QED BY <2>1, <2>2, HookStays
<1>6. CASE \E i \in loop.batch : Stalled(i)
  <2>1. UNCHANGED <<surface, pending, acked, hook, told>>
    BY <1>6 DEF Stalled, readVars, hookVars, history
  <2>2. loop'.pc \notin {"write", "wait"} BY <1>6 DEF Stalled, Paused
  <2> QED BY <2>1, <2>2, HookStays
<1>7. CASE \E i \in loop.batch : Mismatch(i)
  <2>1. Outcome /\ (Composes => surface # "jsonl") BY <1>7, MismatchEffect
  <2>2. UNCHANGED <<surface, pending, acked, hook, told>>
    BY <1>7 DEF Mismatch, readVars, hookVars, history
  <2> QED BY <2>1, <2>2, OutcomeHook, HookStays
<1>8. CASE \E i \in loop.batch, passes \in BOOLEAN : Accept(i, passes)
  <2>1. PICK i \in loop.batch, passes \in BOOLEAN : Accept(i, passes) BY <1>8
  <2>2. Outcome BY <2>1, AcceptEffect
  <2>3. UNCHANGED <<surface, pending, acked, hook, told>> BY <2>1 DEF Accept, readVars,
                                                             hookVars
  <2>4. CASE Composes
    <3>1. pending < loop'.id /\ loop'.pc # "wait"
      BY <2>4 DEF Composes, Typed, SentOK, Ids
    <3> QED BY <2>3, <3>1 DEF HookOrder
  <2>5. CASE ~Composes BY <2>2, <2>3, <2>5, HookStays DEF Outcome, OnItsWay
  <2> QED BY <2>4, <2>5
<1>9. CASE EndBatch
  <2>1. UNCHANGED <<surface, pending, acked, hook, told>>
    BY <1>9 DEF EndBatch, readVars, hookVars, history
  <2>2. loop'.pc \notin {"write", "wait"} BY <1>9 DEF EndBatch
  <2> QED BY <2>1, <2>2, HookStays
<1>10. CASE WriteHandoff
  <2>1. /\ pending' = loop.id /\ UNCHANGED <<surface, acked, hook, told>>
        /\ loop.pc = "write" /\ loop'.pc = "wait" /\ loop'.id = loop.id
    BY <1>10 DEF WriteHandoff, WriteInstruction, readVars, history
  <2>2. pending \in Nat /\ acked \in Nat /\ hook.id \in Nat /\ loop.id \in Nat
    BY DEF Typed, SentOK, LoopOK, Ids
  <2> QED BY <2>1, <2>2 DEF HookOrder
<1>11. CASE AckSeen
  <2>1. UNCHANGED <<surface, pending, acked, hook, told>>
    BY <1>11 DEF AckSeen, readVars, hookVars, history
  <2>2. loop'.pc \notin {"write", "wait"} BY <1>11 DEF AckSeen, Arrived
  <2> QED BY <2>1, <2>2, HookStays
<1>12. CASE GiveUp
  <2>1. UNCHANGED <<surface, pending, acked, hook, told>>
    BY <1>12 DEF GiveUp, readVars, hookVars
  <2>2. loop'.pc \notin {"write", "wait"} BY <1>12 DEF GiveUp, Paused
  <2> QED BY <2>1, <2>2, HookStays
<1>13. CASE RelaySend
  <2>1. surface # "jsonl" BY <1>13, RelayEffect
  <2> QED BY <1>13, <2>1 DEF RelaySend, readVars, HookOrder
<1>14. CASE \E outcome \in {"inject", "defer", "offline"} : Look(outcome)
  <2>1. surface # "jsonl" BY <1>14 DEF Look, Typed, WayOK
  <2> QED BY <1>14, <2>1 DEF Look, readVars, HookOrder
<1>15. CASE TypeText
  <2>1. surface # "jsonl" BY <1>15 DEF TypeText, Typed, WayOK
  <2> QED BY <1>15, <2>1 DEF TypeText, readVars, HookOrder
<1>16. CASE TypeFails
  <2>1. Outcome /\ (Composes => surface # "jsonl") BY <1>16, TypeFailsEffect DEF Retreat
  <2>2. UNCHANGED <<surface, pending, acked, hook, told>>
    BY <1>16 DEF TypeFails, readVars, hookVars
  <2> QED BY <2>1, <2>2, OutcomeHook, HookStays
<1>17. CASE
       \E takes \in BOOLEAN, shows \in {"progress", "clear", "stuck"} : Confirm(takes, shows)
  <2>1. surface # "jsonl" BY <1>17, ConfirmEffect
  <2> QED BY <1>17, <2>1 DEF Confirm, readVars, HookOrder
<1>18. CASE Interrupt
  <2>1. UNCHANGED <<surface, pending, acked, hook, told>>
    BY <1>18 DEF Interrupt, readVars, hookVars
  <2>2. loop'.pc \notin {"write", "wait"} BY <1>18 DEF Interrupt
  <2> QED BY <2>1, <2>2, HookStays
<1>19. CASE Park
  <2>1. UNCHANGED <<surface, pending, acked, hook, told>>
    BY <1>19 DEF Park, readVars, hookVars, history
  <2>2. loop'.pc \notin {"write", "wait"} BY <1>19 DEF Park, Paused
  <2> QED BY <2>1, <2>2, HookStays
<1>20. CASE Resume
  <2>1. UNCHANGED <<surface, pending, acked, hook, told>>
    BY <1>20 DEF Resume, readVars, hookVars
  <2>2. loop'.pc \notin {"write", "wait"} BY <1>20 DEF Resume
  <2> QED BY <2>1, <2>2, HookStays
<1>21. CASE \E seq \in Numbers, status \in Statuses : Reports(seq, status)
  <2>1. UNCHANGED <<surface, pending, acked, hook, told>> /\ UNCHANGED loop
    BY <1>21 DEF Reports, Emits, worker, hookVars
  <2> QED BY <2>1 DEF HookOrder
<1>22. CASE PrintsText
  <2>1. UNCHANGED <<surface, pending, acked, hook, told>> /\ UNCHANGED loop
    BY <1>22 DEF PrintsText, Emits, worker, hookVars
  <2> QED BY <2>1 DEF HookOrder
<1>23. CASE Truncated
  <2>1. UNCHANGED <<surface, pending, acked, hook, told>> /\ UNCHANGED loop
    BY <1>23 DEF Truncated, Truncate, worker, hookVars
  <2> QED BY <2>1 DEF HookOrder
<1>24. CASE Stops
  <2>1. UNCHANGED <<surface, pending, acked, hook, told>> /\ UNCHANGED loop
    BY <1>24 DEF Stops, worker, readVars, hookVars
  <2> QED BY <2>1 DEF HookOrder
<1>25. CASE HookStep
  <2>1. UNCHANGED <<surface, loop>> /\ surface = "jsonl" BY <1>25 DEF HookStep, readVars,
                                                            worker
  <2>2. pending \in Nat /\ acked \in Nat /\ hook.id \in Nat BY DEF Typed, SentOK, Ids
  <2>3. \A k \in 1 .. Len(told) : \A a \in told[k] : a \in Nat BY DEF Typed, SentOK, Ids
  <2>4. CASE HookReads /\ UNCHANGED told
    BY <2>1, <2>2, <2>4 DEF HookReads, Undelivered, HookOrder
  <2>5. CASE HookAcks /\ UNCHANGED told
    <3>1. /\ acked' = hook.id /\ hook'.id = hook.id /\ hook'.pc = "acked" /\ acked < hook.id
          /\ UNCHANGED pending /\ hook.id <= pending
      BY <2>1, <2>5 DEF HookAcks, HookOrder
    <3>2. \A k \in 1 .. Len(told) : \A a \in told[k] : a < hook.id
      BY <2>1, <2>2, <2>3, <3>1 DEF HookOrder
    <3> QED BY <2>1, <2>2, <2>3, <2>5, <3>1, <3>2 DEF HookOrder
  <2>6. CASE HookEmits /\ told' = Append(told, {hook.id})
    <3>1. hook.pc = "acked" /\ hook.id = acked /\ hook'.pc = "idle" /\ hook'.id = 0
          /\ UNCHANGED <<pending, acked>>
      BY <2>1, <2>6 DEF HookEmits, HookOrder, IdleHook, NoInstruction
    <3>2. \A k \in 1 .. Len(told') : \A a \in told'[k] : a <= acked
      BY <2>1, <2>2, <2>3, <2>6, <3>1 DEF HookOrder
    <3> QED BY <2>1, <2>2, <3>1, <3>2 DEF HookOrder
  <2>7. CASE (HookFallsThrough \/ HookKilled) /\ UNCHANGED told
    BY <2>1, <2>2, <2>7 DEF HookFallsThrough, HookKilled, hookVars, IdleHook, NoInstruction,
       HookOrder
  <2> QED BY <1>25, <2>4, <2>5, <2>6, <2>7 DEF HookStep
<1>26. CASE PersonTypes
  <2>1. UNCHANGED <<surface, pending, acked, hook, told>> /\ UNCHANGED loop
    BY <1>26 DEF PersonTypes, worker, readVars, hookVars
  <2> QED BY <2>1 DEF HookOrder
<1>27. CASE UNCHANGED vars
  BY <1>27 DEF vars, readVars, hookVars, history, HookOrder
<1> QED BY <1>1, <1>2, <1>3, <1>4, <1>5, <1>6, <1>7, <1>8, <1>9, <1>10, <1>11, <1>12, <1>13,
           <1>14, <1>15, <1>16, <1>17, <1>18, <1>19, <1>20, <1>21, <1>22, <1>23, <1>24,
           <1>25, <1>26, <1>27 DEF Next, LoopStep

\* Nothing sent, and at most a later instruction composed.
LEMMA SendStays ==
    ASSUME Typed, SendOrder, UNCHANGED <<surface, told, composer>>,
           \/ Composes
           \/ loop'.pc \notin {"send", "window", "type"}
           \/ loop'.id = loop.id
              /\ {loop.pc, loop'.pc} \subseteq {"window", "type"}
    PROVE  SendOrder'
<1>1. Len(issued) \in Nat OBVIOUS
<1>2. \A k \in 1 .. Len(told) : \A a \in told[k] : a \in Nat /\ a <= Len(issued)
  BY DEF Typed, SentOK, Ids
<1>3. \A b \in InComposer : b \in Nat /\ b <= Len(issued) BY DEF Typed, SentOK, Ids,
                                                             InComposer
<1>4. InComposer' = InComposer BY DEF InComposer
<1>5. CASE Composes BY <1>1, <1>2, <1>3, <1>4, <1>5 DEF SendOrder, Composes
<1>6. CASE ~Composes BY <1>4, <1>6 DEF SendOrder
<1> QED BY <1>5, <1>6

\* What is composed is later than everything told.
LEMMA OutcomeSend ==
    ASSUME Outcome PROVE Composes \/ loop'.pc \notin {"send", "window", "type"}
  BY DEF Outcome, OnItsWay

\* What is typed or sent is later than everything told.
LEMMA SendKeeps == Typed /\ SendOrder /\ [Next]_vars => SendOrder'
<1> SUFFICES ASSUME Typed, SendOrder, [Next]_vars PROVE SendOrder' OBVIOUS
<1> USE TranscriptAssumption, HookAssumption, DeliveryAssumption
<1>1. CASE Boot
  <2>1. Outcome BY <1>1, BootEffect
  <2>2. UNCHANGED <<surface, told, composer>> BY <1>1 DEF Boot, readVars, history
  <2> QED BY <2>1, <2>2, OutcomeSend, SendStays
<1>2. CASE Poll
  <2>1. UNCHANGED <<surface, told, composer>> BY <1>2 DEF Poll, readVars, history
  <2>2. loop'.pc \notin {"send", "window", "type"} BY <1>2 DEF Poll, Aged
  <2> QED BY <2>1, <2>2, SendStays
<1>3. CASE PollsText
  <2>1. UNCHANGED <<surface, told, composer>> BY <1>3 DEF PollsText, readVars, history
  <2>2. loop'.pc \notin {"send", "window", "type"}
    BY <1>3 DEF PollsText, Aged
  <2> QED BY <2>1, <2>2, SendStays
<1>4. CASE AckDeadline
  <2>1. Outcome BY <1>4, DeadlineEffect DEF Retreat
  <2>2. UNCHANGED <<surface, told, composer>> BY <1>4 DEF AckDeadline, readVars, paneVars,
                                                 history
  <2> QED BY <2>1, <2>2, OutcomeSend, SendStays
<1>5. CASE \E i \in loop.batch : Skip(i)
  <2>1. UNCHANGED <<surface, told, composer>> BY <1>5 DEF Skip, readVars, paneVars, history
  <2>2. loop'.pc \notin {"send", "window", "type"}
    BY <1>5 DEF Skip, Oldest, After
  <2> QED BY <2>1, <2>2, SendStays
<1>6. CASE \E i \in loop.batch : Stalled(i)
  <2>1. UNCHANGED <<surface, told, composer>> BY <1>6 DEF Stalled, readVars, paneVars,
                                                 history
  <2>2. loop'.pc \notin {"send", "window", "type"}
    BY <1>6 DEF Stalled, Paused
  <2> QED BY <2>1, <2>2, SendStays
<1>7. CASE \E i \in loop.batch : Mismatch(i)
  <2>1. Outcome BY <1>7, MismatchEffect
  <2>2. UNCHANGED <<surface, told, composer>> BY <1>7 DEF Mismatch, readVars, paneVars,
                                                 history
  <2> QED BY <2>1, <2>2, OutcomeSend, SendStays
<1>8. CASE \E i \in loop.batch, passes \in BOOLEAN : Accept(i, passes)
  <2>1. Outcome BY <1>8, AcceptEffect
  <2>2. UNCHANGED <<surface, told, composer>> BY <1>8 DEF Accept, readVars, paneVars
  <2> QED BY <2>1, <2>2, OutcomeSend, SendStays
<1>9. CASE EndBatch
  <2>1. UNCHANGED <<surface, told, composer>> BY <1>9 DEF EndBatch, readVars, paneVars,
                                                 history
  <2>2. loop'.pc \notin {"send", "window", "type"} BY <1>9 DEF EndBatch
  <2> QED BY <2>1, <2>2, SendStays
<1>10. CASE WriteHandoff
  <2>1. UNCHANGED <<surface, told, composer>>
    BY <1>10 DEF WriteHandoff, readVars, paneVars, history
  <2>2. loop'.pc \notin {"send", "window", "type"} BY <1>10 DEF WriteHandoff
  <2> QED BY <2>1, <2>2, SendStays
<1>11. CASE AckSeen
  <2>1. UNCHANGED <<surface, told, composer>> BY <1>11 DEF AckSeen, readVars, paneVars,
                                                 history
  <2>2. loop'.pc \notin {"send", "window", "type"}
    BY <1>11 DEF AckSeen, Arrived
  <2> QED BY <2>1, <2>2, SendStays
<1>12. CASE GiveUp
  <2>1. UNCHANGED <<surface, told, composer>> BY <1>12 DEF GiveUp, readVars, paneVars
  <2>2. loop'.pc \notin {"send", "window", "type"}
    BY <1>12 DEF GiveUp, Paused
  <2> QED BY <2>1, <2>2, SendStays
<1>13. CASE RelaySend
  <2>1. surface = "relay" /\ UNCHANGED <<surface, composer>> /\ Outcome /\ composer = {}
        /\ loop.pc = "send"
    BY <1>13, RelayEffect DEF RelaySend, readVars, paneVars, SendOrder
  <2>2. CASE UNCHANGED told BY <2>1, <2>2, OutcomeSend, SendStays
  <2>3. CASE Arrived /\ told' = Append(told, {loop.id})
    <3>1. InComposer' = {} BY <2>1 DEF InComposer
    <3>2. loop'.pc = "poll" BY <2>3 DEF Arrived
    <3> QED BY <2>1, <3>1, <3>2 DEF SendOrder
  <2> QED BY <1>13, <2>2, <2>3 DEF RelaySend
<1>14. CASE \E outcome \in {"inject", "defer", "offline"} : Look(outcome)
  <2>1. PICK outcome \in {"inject", "defer", "offline"} : Look(outcome) BY <1>14
  <2>2. UNCHANGED <<surface, told, composer>> BY <2>1 DEF Look, readVars, paneVars, history
  <2>3. loop \in Loops /\ loop.pc = "window" BY <2>1 DEF Look, Typed, LoopOK
  <2>4. CASE loop' = Paused(loop) BY <2>2, <2>3, <2>4, PausedTyped, SendStays
  <2>5. CASE loop' # Paused(loop)
    <3>1. loop' = [loop EXCEPT !.pc = "type"] \/ loop' = [loop EXCEPT !.tries = loop.tries + 1]
      BY <2>1, <2>5 DEF Look
    <3>2. loop'.id = loop.id /\ loop'.pc \in {"window", "type"} BY <2>3, <3>1 DEF Loops
    <3> QED BY <2>2, <2>3, <3>2, SendStays
  <2> QED BY <2>4, <2>5
<1>15. CASE TypeText
  <2>1. /\ loop.pc = "type" /\ loop'.pc = "confirm" /\ composer' = composer \cup {loop.id}
        /\ UNCHANGED <<surface, told>> /\ surface = "tmux"
    BY <1>15 DEF TypeText, Type, readVars, history, Typed, WayOK
  <2>2. InComposer' \subseteq InComposer \cup {loop.id} BY <2>1 DEF InComposer
  <2> QED BY <2>1, <2>2 DEF SendOrder
<1>16. CASE TypeFails
  <2>1. Outcome BY <1>16, TypeFailsEffect DEF Retreat
  <2>2. UNCHANGED <<surface, told, composer>>
    BY <1>16 DEF TypeFails, KeysFail, readVars, paneVars
  <2> QED BY <2>1, <2>2, OutcomeSend, SendStays
<1>17. CASE
       \E takes \in BOOLEAN, shows \in {"progress", "clear", "stuck"} : Confirm(takes, shows)
  <2>1. PICK takes \in BOOLEAN, shows \in {"progress", "clear", "stuck"} : Confirm(takes, shows)
    BY <1>17
  <2>2. surface = "tmux" /\ UNCHANGED surface /\ loop.pc = "confirm"
    BY <2>1, ConfirmEffect DEF Confirm, readVars
  <2>3. Composes \/ loop'.pc \notin {"send", "window", "type"}
    BY <2>1, <2>2, ConfirmEffect, OutcomeSend
  <2>4. CASE takes /\ InComposer # {}
    <3>1. InComposer' = {} /\ told' = Append(told, InComposer)
      BY <2>1, <2>4 DEF Confirm, ConfirmRound, Enter, Submit, InComposer
    <3>2. \A k \in 1 .. Len(told') : \A a \in told'[k] : a \in Ids
      <4>1. told' \in Seq(SUBSET Ids)
        <5> DEFINE T == SUBSET Ids
        <5>1. told \in Seq(T) /\ InComposer \in T BY DEF Typed, SentOK, InComposer
        <5> HIDE DEF T
        <5>2. told' \in Seq(T) BY <3>1, <5>1
        <5> QED BY <5>2 DEF T
      <4> QED BY <4>1
    <3>3. CASE Composes
      <4>1. \A a \in Ids : a < loop'.id BY <3>3 DEF Composes, Ids
      <4> QED BY <2>2, <3>1, <3>2, <4>1 DEF SendOrder
    <3>4. CASE loop'.pc \notin {"send", "window", "type"} BY <2>2, <3>1, <3>4 DEF SendOrder
    <3> QED BY <2>3, <3>3, <3>4
  <2>5. CASE ~(takes /\ InComposer # {})
    <3>1. UNCHANGED told BY <2>1, <2>5 DEF Confirm, Submit
    <3>2. InComposer' = InComposer
      BY <2>1, <2>5 DEF Confirm, ConfirmRound, Enter, InComposer
    <3>3. \A k \in 1 .. Len(told) : \A a \in told[k] : a \in Ids BY DEF Typed, SentOK
    <3>4. \A b \in InComposer : b \in Ids BY DEF Typed, SentOK, InComposer
    <3>5. Composes => \A a \in Ids : a < loop'.id BY DEF Composes, Ids
    <3> QED BY <2>2, <2>3, <3>1, <3>2, <3>3, <3>4, <3>5 DEF SendOrder
  <2> QED BY <2>4, <2>5
<1>18. CASE Interrupt
  <2>1. UNCHANGED <<surface, told, composer>> BY <1>18 DEF Interrupt, readVars, paneVars
  <2>2. loop'.pc \notin {"send", "window", "type"} BY <1>18 DEF Interrupt
  <2> QED BY <2>1, <2>2, SendStays
<1>19. CASE Park
  <2>1. UNCHANGED <<surface, told, composer>> BY <1>19 DEF Park, readVars, paneVars, history
  <2>2. loop'.pc \notin {"send", "window", "type"} BY <1>19 DEF Park, Paused
  <2> QED BY <2>1, <2>2, SendStays
<1>20. CASE Resume
  <2>1. UNCHANGED <<surface, told, composer>> BY <1>20 DEF Resume, readVars
  <2>2. loop'.pc \notin {"send", "window", "type"} BY <1>20 DEF Resume
  <2> QED BY <2>1, <2>2, SendStays
<1>21. CASE \E seq \in Numbers, status \in Statuses : Reports(seq, status)
  <2>1. UNCHANGED <<surface, told, composer>> /\ UNCHANGED loop
    BY <1>21 DEF Reports, Emits, worker, paneVars
  <2> QED BY <2>1 DEF SendOrder, InComposer
<1>22. CASE PrintsText
  <2>1. UNCHANGED <<surface, told, composer>> /\ UNCHANGED loop
    BY <1>22 DEF PrintsText, Emits, worker, paneVars
  <2> QED BY <2>1 DEF SendOrder, InComposer
<1>23. CASE Truncated
  <2>1. UNCHANGED <<surface, told, composer>> /\ UNCHANGED loop
    BY <1>23 DEF Truncated, Truncate, worker, paneVars
  <2> QED BY <2>1 DEF SendOrder, InComposer
<1>24. CASE Stops
  <2>1. UNCHANGED <<surface, told, composer>> /\ UNCHANGED loop
    BY <1>24 DEF Stops, AgentStops, worker, readVars
  <2> QED BY <2>1 DEF SendOrder, InComposer
<1>25. CASE HookStep
  <2>1. surface = "jsonl" BY <1>25 DEF HookStep
  <2> QED BY <1>25, <2>1 DEF HookStep, readVars, SendOrder
<1>26. CASE PersonTypes
  <2>1. InComposer' = {} /\ UNCHANGED <<told, surface, loop>> /\ surface = "tmux"
    BY <1>26 DEF PersonTypes, UserTypes, InComposer, worker, readVars
  <2> QED BY <2>1 DEF SendOrder
<1>27. CASE UNCHANGED vars
  BY <1>27 DEF vars, readVars, paneVars, history, SendOrder, InComposer
<1> QED BY <1>1, <1>2, <1>3, <1>4, <1>5, <1>6, <1>7, <1>8, <1>9, <1>10, <1>11, <1>12, <1>13,
           <1>14, <1>15, <1>16, <1>17, <1>18, <1>19, <1>20, <1>21, <1>22, <1>23, <1>24,
           <1>25, <1>26, <1>27 DEF Next, LoopStep

\* ToldInOrder is kept by telling what is later than all that was told.
LEMMA ToldKeeps ==
    Typed /\ HookOrder /\ SendOrder /\ ToldInOrder /\ [Next]_vars => ToldInOrder'
<1> SUFFICES ASSUME Typed, HookOrder, SendOrder, ToldInOrder, [Next]_vars PROVE ToldInOrder'
  OBVIOUS
<1>0. told \in Seq(SUBSET Ids) BY DEF Typed, SentOK
<1>1. ASSUME NEW S, told' = Append(told, S),
             \A k \in 1 .. Len(told) : \A a \in told[k], b \in S : a < b
      PROVE  ToldInOrder'
  BY <1>0, <1>1 DEF ToldInOrder
<1>2. ASSUME UNCHANGED told PROVE ToldInOrder' BY <1>2 DEF ToldInOrder
<1>3. CASE RelaySend
  <2>1. surface = "relay" /\ loop.pc = "send" BY <1>3, RelayEffect DEF RelaySend
  <2>2. \A k \in 1 .. Len(told) : \A a \in told[k], b \in {loop.id} : a < b
    BY <2>1 DEF SendOrder
  <2> QED BY <1>1, <1>2, <1>3, <2>2 DEF RelaySend
<1>4. CASE \E takes \in BOOLEAN, shows \in {"progress", "clear", "stuck"} : Confirm(takes, shows)
  <2>1. surface = "tmux" BY <1>4, ConfirmEffect
  <2>2. \A k \in 1 .. Len(told) : \A a \in told[k], b \in InComposer : a < b
    BY <2>1 DEF SendOrder
  <2> QED BY <1>1, <1>2, <1>4, <2>2 DEF Confirm, Submit
<1>5. CASE HookStep
  <2>1. CASE HookEmits /\ told' = Append(told, {hook.id})
    <3>1. surface = "jsonl" /\ hook.pc = "acked" BY <1>5, <2>1 DEF HookStep, HookEmits
    <3>2. \A k \in 1 .. Len(told) : \A a \in told[k], b \in {hook.id} : a < b
      BY <3>1 DEF HookOrder
    <3> QED BY <1>1, <2>1, <3>2
  <2>2. CASE UNCHANGED told BY <1>2, <2>2
  <2> QED BY <1>5, <2>1, <2>2 DEF HookStep
<1>6. CASE Boot \/ Poll \/ PollsText \/ AckDeadline \/ EndBatch \/ WriteHandoff \/ AckSeen
           \/ GiveUp \/ TypeText \/ TypeFails \/ Interrupt \/ Park \/ Resume
           \/ PrintsText \/ Truncated \/ Stops \/ PersonTypes
  <2>1. UNCHANGED told
    BY <1>6 DEF Boot, Poll, PollsText, AckDeadline, EndBatch, WriteHandoff, AckSeen, GiveUp,
       TypeText, TypeFails, Interrupt, Park, Resume, PrintsText, Truncated, Stops,
       PersonTypes, history
  <2> QED BY <1>2, <2>1
<1>7. ASSUME NEW i \in loop.batch, NEW passes \in BOOLEAN,
             Skip(i) \/ Stalled(i) \/ Mismatch(i) \/ Accept(i, passes)
      PROVE  ToldInOrder'
  <2>1. UNCHANGED told BY <1>7 DEF Skip, Stalled, Mismatch, Accept, history
  <2> QED BY <1>2, <2>1
<1>8. ASSUME NEW outcome, Look(outcome) PROVE ToldInOrder'
  <2>1. UNCHANGED told BY <1>8 DEF Look, history
  <2> QED BY <1>2, <2>1
<1>9. CASE \E seq \in Numbers, status \in Statuses : Reports(seq, status)
  <2>1. UNCHANGED told BY <1>9 DEF Reports
  <2> QED BY <1>2, <2>1
<1>10. CASE UNCHANGED vars BY <1>2, <1>10 DEF vars, history
<1> QED
  BY <1>3, <1>4, <1>5, <1>6, <1>7, <1>8, <1>9, <1>10 DEF Next, LoopStep

\* Told in order and nothing twice, on every surface.
THEOREM OrderHolds == Spec => []ToldInOrder
<1>1. Init => HookOrder /\ SendOrder /\ ToldInOrder
  BY DEF Init, HookInit, PaneInit, IdleHook, HookOrder, SendOrder, ToldInOrder,
     NoInstruction
<1> QED BY InitTyped, TypedStep, HookKeeps, SendKeeps, ToldKeeps, <1>1, PTL DEF Spec

-------------------------------------------------------------------------------
(* Fate *)

\* A fate is not undone.
LEMMA FateStays ==
    ASSUME Typed, NEW id, Fate(id), UNCHANGED <<hook, told>>,
           givenUp \subseteq givenUp', killed \subseteq killed'
    PROVE  Fate(id)'
  BY DEF Fate, Reached

\* With nothing handed off, every instruction composed so far has its fate.
LEMMA FateKept ==
    ASSUME Typed, FateKnown, UNCHANGED <<surface, acked, hook, told>>,
           givenUp \subseteq givenUp', killed \subseteq killed',
           \/ UNCHANGED issued /\ loop.pc \notin {"write", "wait"}
           \/ UNCHANGED <<issued, loop>>
           \/ Composes /\ loop.pc \notin {"write", "wait"}
    PROVE  FateKnown'
<1> SUFFICES ASSUME surface = "jsonl" PROVE FateKnown' BY DEF FateKnown
<1>1. \A id : Fate(id) => Fate(id)' BY FateStays
<1>2. Len(issued) \in Nat OBVIOUS
<1>3. CASE Composes /\ loop.pc \notin {"write", "wait"}
  BY <1>1, <1>2, <1>3 DEF FateKnown, Composes
<1>4. CASE ~(Composes /\ loop.pc \notin {"write", "wait"})
  BY <1>1, <1>2, <1>4 DEF FateKnown
<1> QED BY <1>3, <1>4

\* Every way an instruction can go ends in a fate.
LEMMA FateKeeps == Typed /\ FateKnown /\ [Next]_vars => FateKnown'
<1> SUFFICES ASSUME Typed, FateKnown, [Next]_vars PROVE FateKnown' OBVIOUS
<1> USE TranscriptAssumption, HookAssumption, DeliveryAssumption
<1>1. CASE Boot
  <2>1. Outcome BY <1>1, BootEffect
  <2>2. UNCHANGED <<surface, acked, hook, told, givenUp, killed>>
        /\ loop.pc \notin {"write", "wait"}
    BY <1>1 DEF Boot, readVars, hookVars, history
  <2> QED BY <2>1, <2>2, FateKept DEF Outcome
<1>2. CASE Poll
  <2>1. UNCHANGED <<surface, acked, hook, told, givenUp, killed, issued>>
        /\ loop.pc \notin {"write", "wait"}
    BY <1>2 DEF Poll, readVars, hookVars, history
  <2> QED BY <2>1, FateKept
<1>3. CASE PollsText
  <2>1. UNCHANGED <<surface, acked, hook, told, givenUp, killed, issued>>
        /\ loop.pc \notin {"write", "wait"}
    BY <1>3 DEF PollsText, readVars, hookVars, history
  <2> QED BY <2>1, FateKept
<1>4. CASE AckDeadline
  <2>1. Outcome BY <1>4, DeadlineEffect DEF Retreat
  <2>2. UNCHANGED <<surface, acked, hook, told, givenUp, killed>>
        /\ loop.pc \notin {"write", "wait"}
    BY <1>4 DEF AckDeadline, readVars, hookVars, history
  <2> QED BY <2>1, <2>2, FateKept DEF Outcome
<1>5. CASE \E i \in loop.batch : Skip(i)
  <2>1. UNCHANGED <<surface, acked, hook, told, givenUp, killed, issued>>
        /\ loop.pc \notin {"write", "wait"}
    BY <1>5 DEF Skip, Oldest, readVars, hookVars, history
  <2> QED BY <2>1, FateKept
<1>6. CASE \E i \in loop.batch : Stalled(i)
  <2>1. UNCHANGED <<surface, acked, hook, told, givenUp, killed, issued>>
        /\ loop.pc \notin {"write", "wait"}
    BY <1>6 DEF Stalled, New, Oldest, readVars, hookVars, history
  <2> QED BY <2>1, FateKept
<1>7. CASE \E i \in loop.batch : Mismatch(i)
  <2>1. Outcome BY <1>7, MismatchEffect
  <2>2. UNCHANGED <<surface, acked, hook, told, givenUp, killed>>
        /\ loop.pc \notin {"write", "wait"}
    BY <1>7 DEF Mismatch, New, Oldest, readVars, hookVars, history
  <2> QED BY <2>1, <2>2, FateKept DEF Outcome
<1>8. CASE \E i \in loop.batch, passes \in BOOLEAN : Accept(i, passes)
  <2>1. Outcome BY <1>8, AcceptEffect
  <2>2. UNCHANGED <<surface, acked, hook, told, givenUp, killed>>
        /\ loop.pc \notin {"write", "wait"}
    BY <1>8 DEF Accept, New, Oldest, readVars, hookVars
  <2> QED BY <2>1, <2>2, FateKept DEF Outcome
<1>9. CASE EndBatch
  <2>1. UNCHANGED <<surface, acked, hook, told, givenUp, killed, issued>>
        /\ loop.pc \notin {"write", "wait"}
    BY <1>9 DEF EndBatch, readVars, hookVars, history
  <2> QED BY <2>1, FateKept
<1>10. CASE WriteHandoff
  <2>1. UNCHANGED <<surface, acked, hook, told, givenUp, killed, issued>>
    BY <1>10 DEF WriteHandoff, WriteInstruction, readVars, history
  <2>2. loop'.id = loop.id /\ loop.pc = "write" BY <1>10 DEF WriteHandoff
  <2>3. \A id : Fate(id) => Fate(id)' BY <2>1, FateStays
  <2>4. loop'.pc = "wait" BY <1>10 DEF WriteHandoff
  <2> QED BY <2>1, <2>2, <2>3, <2>4 DEF FateKnown
<1>11. CASE AckSeen
  <2>1. UNCHANGED <<surface, acked, hook, told, givenUp, killed, issued>>
    BY <1>11 DEF AckSeen, readVars, hookVars, history
  <2>2. loop.pc = "wait" /\ acked = loop.id BY <1>11 DEF AckSeen, Delivered
  <2>3. loop.id = Len(issued) /\ loop.id # 0 BY <2>2 DEF Typed, WayOK, OnItsWay
  <2>4. \A id : Fate(id) => Fate(id)' BY <2>1, FateStays
  <2>5. surface = "jsonl" => \A id \in 1 .. Len(issued) : Fate(id)
    <3>1. Len(issued) \in Nat OBVIOUS
    <3> QED BY <2>2, <2>3, <3>1 DEF FateKnown, NoInstruction
  <2> QED BY <2>1, <2>4, <2>5 DEF FateKnown
<1>12. CASE GiveUp
  <2>1. UNCHANGED <<surface, acked, hook, told, killed, issued>>
        /\ givenUp' = givenUp \cup {loop.id}
    BY <1>12 DEF GiveUp, readVars, hookVars
  <2>2. loop.pc \in {"write", "wait"} BY <1>12 DEF GiveUp
  <2>3. loop.id = Len(issued) BY <2>2 DEF Typed, WayOK, OnItsWay
  <2>4. \A id : Fate(id) => Fate(id)' BY <2>1, FateStays
  <2>5. PICK last : last = loop.id OBVIOUS
  <2>6. Fate(last)' BY <2>1, <2>5 DEF Fate
  <2>7. Len(issued) \in Nat OBVIOUS
  <2>8. surface = "jsonl" => \A id \in 1 .. Len(issued) : Fate(id)'
    <3> SUFFICES ASSUME surface = "jsonl", NEW id \in 1 .. Len(issued) PROVE Fate(id)'
      OBVIOUS
    <3>1. CASE id = Len(issued) BY <2>3, <2>5, <2>6, <3>1
    <3>2. CASE id # Len(issued)
      <4>1. id < loop.id BY <2>3, <2>7, <3>2
      <4>2. Fate(id) BY <4>1 DEF FateKnown
      <4> QED BY <2>4, <4>2
    <3> QED BY <3>1, <3>2
  <2> QED BY <2>1, <2>4, <2>8 DEF FateKnown
<1>13. CASE RelaySend
  <2>1. surface # "jsonl" BY <1>13, RelayEffect
  <2> QED BY <1>13, <2>1 DEF RelaySend, readVars, FateKnown
<1>14. CASE \E outcome \in {"inject", "defer", "offline"} : Look(outcome)
  <2>1. surface # "jsonl" BY <1>14 DEF Look, Typed, WayOK
  <2> QED BY <1>14, <2>1 DEF Look, readVars, FateKnown
<1>15. CASE TypeText
  <2>1. surface # "jsonl" BY <1>15 DEF TypeText, Typed, WayOK
  <2> QED BY <1>15, <2>1 DEF TypeText, readVars, FateKnown
<1>16. CASE TypeFails
  <2>1. surface # "jsonl" BY <1>16 DEF TypeFails, Typed, WayOK
  <2> QED BY <1>16, <2>1 DEF TypeFails, readVars, FateKnown
<1>17. CASE
       \E takes \in BOOLEAN, shows \in {"progress", "clear", "stuck"} : Confirm(takes, shows)
  <2>1. surface # "jsonl" BY <1>17, ConfirmEffect
  <2> QED BY <1>17, <2>1 DEF Confirm, readVars, FateKnown
<1>18. CASE Interrupt
  <2>1. UNCHANGED <<surface, acked, hook, told, killed, issued>>
        /\ givenUp' = givenUp \cup (IF loop.pc = "wait" THEN {loop.id} ELSE {})
    BY <1>18 DEF Interrupt, readVars, hookVars
  <2>2. CASE loop.pc = "wait"
    <3>1. loop.id = Len(issued) /\ Len(issued) \in Nat BY <2>2 DEF Typed, WayOK, OnItsWay
    <3>2. \A id : Fate(id) => Fate(id)' BY <2>1, FateStays
    <3>3. PICK last : last = loop.id OBVIOUS
    <3>4. Fate(last)' BY <2>1, <2>2, <3>3 DEF Fate
    <3>5. surface = "jsonl" => \A id \in 1 .. Len(issued) : Fate(id)'
      <4> SUFFICES ASSUME surface = "jsonl", NEW id \in 1 .. Len(issued) PROVE Fate(id)'
        OBVIOUS
      <4>1. CASE id = Len(issued) BY <3>1, <3>3, <3>4, <4>1
      <4>2. CASE id # Len(issued)
        <5>1. id < loop.id BY <3>1, <4>2
        <5>2. Fate(id) BY <5>1 DEF FateKnown
        <5> QED BY <3>2, <5>2
      <4> QED BY <4>1, <4>2
    <3> QED BY <2>1, <3>2, <3>5 DEF FateKnown
  <2>3. CASE loop.pc # "wait"
    <3>1. loop.pc \notin {"write", "wait"} BY <1>18, <2>3 DEF Interrupt
    <3> QED BY <2>1, <3>1, FateKept
  <2> QED BY <2>2, <2>3
<1>19. CASE Park
  <2>1. UNCHANGED <<surface, acked, hook, told, givenUp, killed, issued>>
        /\ loop.pc \notin {"write", "wait"}
    BY <1>19 DEF Park, readVars, hookVars, history
  <2> QED BY <2>1, FateKept
<1>20. CASE Resume
  <2>1. UNCHANGED <<surface, acked, hook, told, givenUp, killed, issued>>
        /\ loop.pc \notin {"write", "wait"}
    BY <1>20 DEF Resume, readVars, hookVars
  <2> QED BY <2>1, FateKept
<1>21. CASE \E seq \in Numbers, status \in Statuses : Reports(seq, status)
  <2>1. UNCHANGED <<surface, acked, hook, told, givenUp, killed>> /\ UNCHANGED <<loop, issued>>
    BY <1>21 DEF Reports, Emits, worker, hookVars
  <2> QED BY <2>1, FateKept
<1>22. CASE PrintsText
  <2>1. UNCHANGED <<surface, acked, hook, told, givenUp, killed>> /\ UNCHANGED <<loop, issued>>
    BY <1>22 DEF PrintsText, Emits, worker, hookVars
  <2> QED BY <2>1, FateKept
<1>23. CASE Truncated
  <2>1. UNCHANGED <<surface, acked, hook, told, givenUp, killed>> /\ UNCHANGED <<loop, issued>>
    BY <1>23 DEF Truncated, Truncate, worker, hookVars
  <2> QED BY <2>1, FateKept
<1>24. CASE Stops
  <2>1. UNCHANGED <<surface, acked, hook, told, givenUp, killed>> /\ UNCHANGED <<loop, issued>>
    BY <1>24 DEF Stops, worker, readVars, hookVars
  <2> QED BY <2>1, FateKept
<1>25. CASE HookStep
  <2>1. UNCHANGED <<surface, loop, issued, givenUp>> /\ surface = "jsonl"
    BY <1>25 DEF HookStep, readVars, worker
  <2>2. \A id : Fate(id) => Fate(id)'
    <3> SUFFICES ASSUME NEW id, Fate(id) PROVE Fate(id)' OBVIOUS
    <3>1. CASE HookReads /\ UNCHANGED told
      BY <2>1, <3>1 DEF HookReads, IdleHook, Fate, Reached
    <3>2. CASE HookAcks /\ UNCHANGED told
      BY <2>1, <3>2 DEF HookAcks, Fate, Reached
    <3>3. CASE HookEmits /\ told' = Append(told, {hook.id})
      <4>1. told \in Seq(SUBSET Ids) BY DEF Typed, SentOK
      <4>2. Reached(id) => Reached(id)' BY <3>3, <4>1 DEF Reached
      <4>3. PICK shown : shown = hook.id OBVIOUS
      <4>4. Reached(shown)' BY <3>3, <4>1, <4>3 DEF Reached
      <4>5. Reached(id)' \/ id \in givenUp' \cup killed'
        BY <2>1, <3>3, <4>2, <4>3, <4>4 DEF HookEmits, Fate
      <4> QED BY <4>5 DEF Fate
    <3>4. CASE HookKilled /\ UNCHANGED told
      BY <2>1, <3>4 DEF HookKilled, Fate, Reached
    <3>5. CASE HookFallsThrough /\ UNCHANGED told
      BY <2>1, <3>5 DEF HookFallsThrough, hookVars, Fate, Reached
    <3> QED BY <1>25, <3>1, <3>2, <3>3, <3>4, <3>5 DEF HookStep
  <2>3. \A id : id = acked' => id = acked \/ Fate(id)'
    <3>1. CASE HookAcks BY <3>1 DEF HookAcks, Fate
    <3>2. CASE ~HookAcks
      BY <1>25, <3>2 DEF HookStep, HookReads, HookEmits, HookKilled, HookFallsThrough,
         hookVars
    <3> QED BY <3>1, <3>2
  <2> QED BY <2>1, <2>2, <2>3 DEF FateKnown
<1>26. CASE PersonTypes
  <2>1. UNCHANGED <<surface, acked, hook, told, givenUp, killed>> /\ UNCHANGED <<loop, issued>>
    BY <1>26 DEF PersonTypes, worker, readVars, hookVars
  <2> QED BY <2>1, FateKept
<1>27. CASE UNCHANGED vars
  BY <1>27 DEF vars, readVars, hookVars, history, FateKnown, Fate, Reached
<1> QED BY <1>1, <1>2, <1>3, <1>4, <1>5, <1>6, <1>7, <1>8, <1>9, <1>10, <1>11, <1>12, <1>13,
           <1>14, <1>15, <1>16, <1>17, <1>18, <1>19, <1>20, <1>21, <1>22, <1>23, <1>24,
           <1>25, <1>26, <1>27 DEF Next, LoopStep

\* An instruction overwritten before the worker had it was given up on, or its hook was
\* killed between acknowledging and printing it, for every instance.
THEOREM NothingLost == Spec => []LostOnlyGivenUp
<1>1. Init => HookOrder /\ FateKnown
  BY DEF Init, HookInit, IdleHook, HookOrder, FateKnown, NoInstruction
<1>2. Typed /\ HookOrder /\ FateKnown => LostOnlyGivenUp
  <2> SUFFICES ASSUME Typed, HookOrder, FateKnown, surface = "jsonl",
                      NEW id \in 1 .. Len(issued), Superseded(id)
               PROVE  \/ Reached(id) \/ hook.id = id
                      \/ id \in givenUp \cup killed
    BY DEF LostOnlyGivenUp
  <2>1. pending \in Nat /\ loop.id \in Nat /\ pending > id
    BY DEF Typed, SentOK, LoopOK, Ids, Superseded
  <2>2. Fate(id) BY <2>1 DEF FateKnown, HookOrder
  <2> QED BY <2>2 DEF Fate
<1> QED BY InitTyped, TypedStep, HookKeeps, FateKeeps, <1>1, <1>2, PTL DEF Spec

-------------------------------------------------------------------------------
(* The input line *)

\* Away from typing and confirming, the line keeps what it holds.
LEMMA LineStays ==
    ASSUME LineOK, UNCHANGED <<surface, composer, raced>>, Ids \subseteq Ids',
           busy' => busy,
           loop'.pc \in {"type", "confirm"} => loop'.pc = loop.pc /\ UNCHANGED delivery,
           delivery' \in Confirmed => delivery \in Confirmed
    PROVE  LineOK'
  BY DEF LineOK, InComposer

\* Composing never takes away an instruction, and no typing is under way then.
LEMMA OutcomeAway ==
    ASSUME Typed, Outcome
    PROVE  Ids \subseteq Ids' /\ loop'.pc \notin {"type", "confirm"}
<1>1. Len(issued) \in Nat OBVIOUS
<1> QED BY <1>1 DEF Outcome, Composes, OnItsWay, Ids

\* Whatever is done, the line stays as LineOK says.
LEMMA LineKeeps == Typed /\ LineOK /\ [Next]_vars => LineOK'
<1> SUFFICES ASSUME Typed, LineOK, [Next]_vars PROVE LineOK' OBVIOUS
<1> USE TranscriptAssumption, HookAssumption, DeliveryAssumption
<1>1. CASE Boot
  <2>1. Outcome BY <1>1, BootEffect
  <2>2. UNCHANGED <<surface, composer, raced, busy, delivery>>
    BY <1>1 DEF Boot, readVars, history
  <2> QED BY <2>1, <2>2, OutcomeAway, LineStays
<1>2. CASE Poll
  <2>1. UNCHANGED <<surface, composer, raced, busy, delivery, issued>>
    BY <1>2 DEF Poll, Aged, readVars, history
  <2>2. loop'.pc \notin {"type", "confirm"}
    BY <1>2 DEF Poll, Aged
  <2> QED BY <2>1, <2>2, LineStays DEF Ids
<1>3. CASE PollsText
  <2>1. UNCHANGED <<surface, composer, raced, busy, delivery, issued>>
    BY <1>3 DEF PollsText, Aged, readVars, history
  <2>2. loop'.pc \notin {"type", "confirm"}
    BY <1>3 DEF PollsText, Aged
  <2> QED BY <2>1, <2>2, LineStays DEF Ids
<1>4. CASE AckDeadline
  <2>1. Outcome BY <1>4, DeadlineEffect DEF Retreat
  <2>2. UNCHANGED <<surface, composer, raced, busy, delivery>>
    BY <1>4 DEF AckDeadline, readVars, paneVars, history
  <2> QED BY <2>1, <2>2, OutcomeAway, LineStays
<1>5. CASE \E i \in loop.batch : Skip(i)
  <2>1. UNCHANGED <<surface, composer, raced, busy, delivery, issued>>
    BY <1>5 DEF Skip, Oldest, After, readVars, paneVars, history
  <2>2. loop'.pc \notin {"type", "confirm"}
    BY <1>5 DEF Skip, Oldest, After
  <2> QED BY <2>1, <2>2, LineStays DEF Ids
<1>6. CASE \E i \in loop.batch : Stalled(i)
  <2>1. UNCHANGED <<surface, composer, raced, busy, delivery, issued>>
    BY <1>6 DEF Stalled, New, Oldest, readVars, paneVars, history
  <2>2. loop'.pc \notin {"type", "confirm"}
    BY <1>6 DEF Stalled, New, Oldest, Paused
  <2> QED BY <2>1, <2>2, LineStays DEF Ids
<1>7. CASE \E i \in loop.batch : Mismatch(i)
  <2>1. Outcome BY <1>7, MismatchEffect
  <2>2. UNCHANGED <<surface, composer, raced, busy, delivery>>
    BY <1>7 DEF Mismatch, New, Oldest, readVars, paneVars, history
  <2> QED BY <2>1, <2>2, OutcomeAway, LineStays
<1>8. CASE \E i \in loop.batch, passes \in BOOLEAN : Accept(i, passes)
  <2>1. Outcome BY <1>8, AcceptEffect
  <2>2. UNCHANGED <<surface, composer, raced, busy, delivery>>
    BY <1>8 DEF Accept, New, Oldest, readVars, paneVars
  <2> QED BY <2>1, <2>2, OutcomeAway, LineStays
<1>9. CASE EndBatch
  <2>1. UNCHANGED <<surface, composer, raced, busy, delivery, issued>>
    BY <1>9 DEF EndBatch, readVars, paneVars, history
  <2>2. loop'.pc \notin {"type", "confirm"}
    BY <1>9 DEF EndBatch
  <2> QED BY <2>1, <2>2, LineStays DEF Ids
<1>10. CASE WriteHandoff
  <2>1. UNCHANGED <<surface, composer, raced, busy, delivery, issued>>
    BY <1>10 DEF WriteHandoff, readVars, paneVars, history
  <2>2. loop'.pc \notin {"type", "confirm"}
    BY <1>10 DEF WriteHandoff
  <2> QED BY <2>1, <2>2, LineStays DEF Ids
<1>11. CASE AckSeen
  <2>1. UNCHANGED <<surface, composer, raced, busy, delivery, issued>>
    BY <1>11 DEF AckSeen, Arrived, readVars, paneVars, history
  <2>2. loop'.pc \notin {"type", "confirm"}
    BY <1>11 DEF AckSeen, Arrived
  <2> QED BY <2>1, <2>2, LineStays DEF Ids
<1>12. CASE GiveUp
  <2>1. UNCHANGED <<surface, composer, raced, busy, delivery, issued>>
    BY <1>12 DEF GiveUp, readVars, paneVars
  <2>2. loop'.pc \notin {"type", "confirm"}
    BY <1>12 DEF GiveUp, Paused
  <2> QED BY <2>1, <2>2, LineStays DEF Ids
<1>13. CASE RelaySend
  <2>1. UNCHANGED <<surface, composer>> /\ surface = "relay"
    BY <1>13, RelayEffect DEF RelaySend, readVars, paneVars
  <2> QED BY <2>1 DEF LineOK
<1>14. CASE \E outcome \in {"inject", "defer", "offline"} : Look(outcome)
  <2>1. UNCHANGED <<surface, composer, raced, busy, delivery, issued>>
    BY <1>14 DEF Look, readVars, paneVars, history
  <2>2. PICK outcome \in Readiness : Look(outcome) BY <1>14 DEF Look
  <2>3. CASE outcome = "inject"
    <3>1. composer = {} /\ ~busy BY <2>2, <2>3 DEF Readiness
    <3>2. loop'.pc = "type" BY <2>2, <2>3 DEF Look, Typed, LoopOK, Loops
    <3> QED BY <2>1, <3>1, <3>2 DEF LineOK, InComposer
  <2>4. CASE outcome # "inject"
    <3>1. loop'.pc \notin {"type", "confirm"}
      BY <2>2, <2>4 DEF Look, Paused
    <3> QED BY <2>1, <3>1, LineStays DEF Ids
  <2> QED BY <2>3, <2>4
<1>15. CASE TypeText
  <2>1. UNCHANGED <<surface, raced, busy, issued>> /\ delivery' = "INJECTED"
        /\ loop.pc = "type" /\ loop'.pc = "confirm" /\ composer' = composer \cup {loop.id}
    BY <1>15 DEF TypeText, Type, readVars, history
  <2>2. loop.id \in Ids' BY <2>1 DEF Typed, LoopOK, Ids
  <2>3. surface = "tmux" BY <2>1 DEF Typed, WayOK
  <2>4. ~raced => composer' = {loop.id} /\ ~busy BY <2>1, <2>3 DEF LineOK
  <2> QED BY <2>1, <2>2, <2>3, <2>4 DEF LineOK, Confirmed
<1>16. CASE TypeFails
  <2>1. Outcome BY <1>16, TypeFailsEffect DEF Retreat
  <2>2. UNCHANGED <<surface, composer, raced, busy, delivery>>
    BY <1>16 DEF TypeFails, KeysFail, readVars, paneVars
  <2> QED BY <2>1, <2>2, OutcomeAway, LineStays
<1>17. CASE
       \E takes \in BOOLEAN, shows \in {"progress", "clear", "stuck"} : Confirm(takes, shows)
  <2> SUFFICES ASSUME ~raced PROVE LineOK'
    BY <1>17, ConfirmEffect DEF Confirm, readVars, LineOK
  <2> surface = "tmux" BY <1>17, ConfirmEffect
  <2>1. PICK takes \in BOOLEAN, shows \in {"progress", "clear", "stuck"} : Confirm(takes, shows)
    BY <1>17
  <2>2. /\ loop.pc = "confirm" /\ delivery = "INJECTED" /\ (busy => composer = {})
        /\ composer = {} \/ \E x \in Ids : composer = {x}
    BY <2>1 DEF Confirm, LineOK
  <2>3. /\ composer' = IF takes THEN {} ELSE composer
        /\ busy' => busy \/ (takes /\ composer # {})
    BY <2>1 DEF Confirm, ConfirmRound, Enter
  <2>4. busy' => composer' = {} BY <2>2, <2>3
  <2>5. delivery' \in {"ACKNOWLEDGED", "SUBMITTED"} => composer' = {}
    BY <2>1, <2>2, <2>4 DEF Confirm, ConfirmRound, SnapshotShows
  <2>6. UNCHANGED <<surface, raced>> BY <2>1 DEF Confirm, readVars
  <2>7. Ids \subseteq Ids' /\ loop'.pc # "type"
        /\ (loop'.pc = "confirm" => delivery' = "INJECTED")
    <3>1. CASE delivery' \in Confirmed
      <4>1. UNCHANGED issued /\ Arrived BY <2>1, <3>1 DEF Confirm
      <4> QED BY <4>1, ArrivedEffect DEF Ids
    <3>2. CASE delivery' = "FAILED"
      <4>1. Recover(loop) BY <2>1, <3>2 DEF Confirm, Confirmed
      <4>2. loop \in Loops BY DEF Typed, LoopOK
      <4> QED BY <4>1, <4>2, RecoverEffect, OutcomeAway DEF Retreat
    <3>3. CASE delivery' \notin Confirmed /\ delivery' # "FAILED"
      <4>1. UNCHANGED <<loop, issued>> BY <2>1, <3>3 DEF Confirm
      <4>2. delivery' = "INJECTED"
        BY <2>1, <2>2, <3>3 DEF Confirm, ConfirmRound, Confirmed
      <4> QED BY <2>2, <4>1, <4>2 DEF Ids
    <3> QED BY <3>1, <3>2, <3>3
  <2>8. InComposer' = {} \/ delivery' \notin Confirmed
    BY <2>5 DEF InComposer, Confirmed
  <2>9. composer' = {} \/ \E x \in Ids' : composer' = {x} BY <2>2, <2>3, <2>7
  <2> QED BY <2>4, <2>6, <2>7, <2>8, <2>9 DEF LineOK
<1>18. CASE Interrupt
  <2>1. UNCHANGED <<surface, composer, raced, busy, delivery, issued>>
    BY <1>18 DEF Interrupt, readVars, paneVars
  <2>2. loop'.pc \notin {"type", "confirm"}
    BY <1>18 DEF Interrupt
  <2> QED BY <2>1, <2>2, LineStays DEF Ids
<1>19. CASE Park
  <2>1. UNCHANGED <<surface, composer, raced, busy, delivery, issued>>
    BY <1>19 DEF Park, readVars, paneVars, history
  <2>2. loop'.pc \notin {"type", "confirm"}
    BY <1>19 DEF Park, Paused
  <2> QED BY <2>1, <2>2, LineStays DEF Ids
<1>20. CASE Resume
  <2>1. UNCHANGED <<surface, composer, raced, busy, issued>> /\ delivery' = "IDLE"
    BY <1>20 DEF Resume, readVars
  <2>2. loop'.pc \notin {"type", "confirm"} BY <1>20 DEF Resume
  <2> QED BY <2>1, <2>2, LineStays DEF Ids, Confirmed
<1>21. CASE \E seq \in Numbers, status \in Statuses : Reports(seq, status)
  <2>1. UNCHANGED <<surface, composer, raced, delivery, loop, issued>> /\ (busy' => busy)
    BY <1>21 DEF Reports, Emits, worker, paneVars
  <2> QED BY <2>1, LineStays DEF Ids
<1>22. CASE PrintsText
  <2>1. UNCHANGED <<surface, composer, raced, delivery, loop, issued>> /\ (busy' => busy)
    BY <1>22 DEF PrintsText, Emits, worker, paneVars
  <2> QED BY <2>1, LineStays DEF Ids
<1>23. CASE Truncated
  <2>1. UNCHANGED <<surface, composer, raced, delivery, loop, issued>> /\ (busy' => busy)
    BY <1>23 DEF Truncated, Truncate, worker, paneVars
  <2> QED BY <2>1, LineStays DEF Ids
<1>24. CASE Stops
  <2>1. UNCHANGED <<surface, composer, raced, delivery, loop, issued>> /\ (busy' => busy)
    BY <1>24 DEF Stops, AgentStops, worker, readVars
  <2> QED BY <2>1, LineStays DEF Ids
<1>25. CASE HookStep
  <2>1. UNCHANGED <<surface, composer>> /\ surface = "jsonl" BY <1>25 DEF HookStep, readVars
  <2> QED BY <2>1 DEF LineOK
<1>26. CASE PersonTypes
  <2>1. UNCHANGED <<surface, loop, busy, delivery, issued>> /\ composer' = {UserText}
        /\ (~raced' => loop.pc \notin {"type", "confirm"}) /\ surface = "tmux"
    BY <1>26 DEF PersonTypes, UserTypes, readVars, worker
  <2>2. UserText \in Ids'
    <3>1. Len(issued) \in Nat OBVIOUS
    <3> QED BY <2>1, <3>1 DEF Ids, UserText
  <2> QED BY <2>1, <2>2 DEF LineOK, InComposer
<1>27. CASE UNCHANGED vars
  BY <1>27 DEF vars, readVars, paneVars, history, LineOK, InComposer, Ids
<1> QED BY <1>1, <1>2, <1>3, <1>4, <1>5, <1>6, <1>7, <1>8, <1>9, <1>10, <1>11, <1>12, <1>13,
           <1>14, <1>15, <1>16, <1>17, <1>18, <1>19, <1>20, <1>21, <1>22, <1>23, <1>24,
           <1>25, <1>26, <1>27 DEF Next, LoopStep

\* Nothing is there at the start.
LEMMA LineInit == Init => LineOK
  BY DEF Init, PaneInit, LineOK, Confirmed

\* What is reported as submitted has left the input line, for every instance.
THEOREM SubmittedHolds == Spec => []SubmittedReached
<1>1. LineOK => SubmittedReached BY DEF LineOK, SubmittedReached
<1> QED BY InitTyped, TypedStep, LineInit, LineKeeps, <1>1, PTL DEF Spec

\* No two texts stand in the input line, for every instance.
THEOREM NeverMixed == Spec => []NotMixed
<1>1. LineOK => NotMixed
  <2> SUFFICES ASSUME LineOK, ~raced PROVE Cardinality(composer) <= 1 BY DEF NotMixed
  <2>1. composer = {} \/ \E x : composer = {x} BY DEF LineOK
  <2>2. CASE composer = {} BY <2>2, FS_EmptySet
  <2>3. ASSUME NEW x, composer = {x} PROVE Cardinality(composer) <= 1
    <3>1. Cardinality({x}) = 1 BY FS_Singleton
    <3> QED BY <2>3, <3>1
  <2> QED BY <2>1, <2>2, <2>3
<1> QED BY InitTyped, TypedStep, LineInit, LineKeeps, <1>1, PTL DEF Spec
===============================================================================
