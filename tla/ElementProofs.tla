---------------------------- MODULE ElementProofs ------------------------------
(***************************************************************************)
(* Proofs about what happens inside an element: the telling of its flows   *)
(* (ElementFlow), the settings of its parts (ElementConfig), the pads of   *)
(* the agnosticbin with many inputs (AgnosticBin3) and the tree of bins of *)
(* the agnosticbin (AgnosticBin), for any threads, outputs, sinks,         *)
(* bitrates, inputs, pads and formats.                                     *)
(***************************************************************************)
EXTENDS ElementFlow, ElementConfig, AgnosticBin3, AgnosticBin, FiniteSetTheorems,
        SequenceTheorems, WellFoundedInduction, TLAPS

-----------------------------------------------------------------------------
(* The telling of flows.                                                   *)

(* The threads that have to tell of a change they made. *)
Tellers == {t \in FlowThreads : threadPc[t] \in {"keep", "raise"}}
TickTelling == tickPc \in {"keep", "raise"}

(* The changes made are the changes told and those still to tell. *)
FlowCount ==
  raised[1] - raised[0] + Cardinality(Tellers) - (IF TickTelling THEN 1 ELSE 0) = media_flowing

(* The timer only works on a flow that is on. *)
TickInv == tickPc \in {"stop", "unmark"} => media_flowing = 1

(* While no change overtook the telling of another, one change at most is being told: the
   last one. *)
FlowOrder ==
  ~overtaken =>
    /\ TickTelling => media_flowing = 0 /\ Tellers = {}
    /\ Tellers # {} => media_flowing = 1
    /\ \A t \in FlowThreads : threadPc[t] = "raise" => shown = 1
    /\ \A t, u \in Tellers : t = u
    /\ tickPc = "raise" => shown = 0
    /\ (~TickTelling /\ Tellers = {}) => shown = media_flowing /\ lastRaised = media_flowing

(* The inductive invariant. *)
FlowInv == FlowTypeOK /\ FlowCount /\ TickInv /\ FlowOrder

ThreadSteps == {"idle", "keep", "raise", "mark"}

(* A thread that moves enters the tellers, leaves them or stays. *)
LEMMA ThreadMoves ==
  ASSUME FlowTypeOK, NEW t \in FlowThreads, NEW p \in ThreadSteps,
         threadPc' = [threadPc EXCEPT ![t] = p]
  PROVE  /\ threadPc' \in [FlowThreads -> ThreadSteps]
         /\ \A u \in FlowThreads : threadPc'[u] = IF u = t THEN p ELSE threadPc[u]
         /\ Cardinality(Tellers) \in Nat
         /\ p \in {"keep", "raise"} =>
              /\ Tellers' = Tellers \cup {t}
              /\ t \in Tellers => Tellers' = Tellers /\ Cardinality(Tellers') = Cardinality(Tellers)
              /\ t \notin Tellers => Cardinality(Tellers') = Cardinality(Tellers) + 1
         /\ p \notin {"keep", "raise"} =>
              /\ Tellers' = Tellers \ {t}
              /\ t \in Tellers => Cardinality(Tellers') = Cardinality(Tellers) - 1
              /\ t \notin Tellers => Tellers' = Tellers /\ Cardinality(Tellers') = Cardinality(Tellers)
<1>1. /\ threadPc' \in [FlowThreads -> ThreadSteps]
      /\ \A u \in FlowThreads : threadPc'[u] = IF u = t THEN p ELSE threadPc[u]
  BY DEF FlowTypeOK, ThreadSteps
<1>2. IsFiniteSet(Tellers) /\ Cardinality(Tellers) \in Nat
  BY FlowAssumption, FS_Subset, FS_CardinalityType DEF Tellers
<1>3. ASSUME p \in {"keep", "raise"}
      PROVE  Tellers' = Tellers \cup {t}
  BY <1>1, <1>3 DEF Tellers
<1>4. ASSUME p \notin {"keep", "raise"}
      PROVE  Tellers' = Tellers \ {t}
  BY <1>1, <1>4 DEF Tellers
<1>5. Cardinality(Tellers \cup {t}) = IF t \in Tellers THEN Cardinality(Tellers) ELSE Cardinality(Tellers) + 1
  BY <1>2, FS_AddElement
<1>6. Cardinality(Tellers \ {t}) = IF t \in Tellers THEN Cardinality(Tellers) - 1 ELSE Cardinality(Tellers)
  BY <1>2, FS_RemoveElement
<1>7. ASSUME p \in {"keep", "raise"}
      PROVE  Cardinality(Tellers') = Cardinality(Tellers \cup {t})
  BY <1>3, <1>7
<1>8. ASSUME p \notin {"keep", "raise"}
      PROVE  Cardinality(Tellers') = Cardinality(Tellers \ {t})
  BY <1>4, <1>8
<1>9. (t \in Tellers => Tellers \cup {t} = Tellers) /\ (t \notin Tellers => Tellers \ {t} = Tellers)
  OBVIOUS
<1> QED
  BY <1>1, <1>2, <1>3, <1>4, <1>5, <1>6, <1>7, <1>8, <1>9

(* A step in which no thread moves has the same tellers. *)
LEMMA ThreadsRest ==
  ASSUME UNCHANGED threadPc
  PROVE  Tellers' = Tellers /\ Cardinality(Tellers') = Cardinality(Tellers)
BY DEF Tellers

(* The threads that have something to tell can be counted, whatever set they are of. *)
LEMMA TellersCounted == Cardinality(Tellers) \in Nat /\ (Cardinality(Tellers) = 0 <=> Tellers = {})
BY FlowAssumption, FS_Subset, FS_CardinalityType, FS_EmptySet DEF Tellers

(* Types. *)
LEMMA FlowTypeStep ==
  ASSUME FlowTypeOK, [FlowNext]_flowVars
  PROVE  FlowTypeOK'
<1> USE DEF FlowTypeOK
<1>1. ASSUME NEW t \in FlowThreads,
             AddFlowProbe(t) \/ BufferReceived(t) \/ ThreadTells(t) \/ BufferMarked(t)
      PROVE  FlowTypeOK'
  <2>1. CASE AddFlowProbe(t)
    BY <2>1 DEF AddFlowProbe
  <2>2. CASE BufferReceived(t)
    <3>1. overtaken' \in BOOLEAN /\ media_flowing' = 1
      BY <2>2 DEF BufferReceived, Claim
    <3>2. received' \in 0..MaxBuffers
      BY <2>2, FlowAssumption DEF BufferReceived
    <3>3. threadPc' \in [FlowThreads -> {"idle", "keep", "raise", "mark"}]
      BY <2>2 DEF BufferReceived
    <3> QED
      BY <2>2, <3>1, <3>2, <3>3 DEF BufferReceived
  <2>3. CASE ThreadTells(t)
    <3>1. threadPc' \in [FlowThreads -> {"idle", "keep", "raise", "mark"}]
      BY <2>3 DEF ThreadTells
    <3>2. raised' \in [{0, 1} -> Nat] /\ shown' \in {0, 1} /\ lastRaised' \in {0, 1}
      BY <2>3 DEF ThreadTells, KeepState, RaiseEvent
    <3> QED
      BY <2>3, <3>1, <3>2 DEF ThreadTells
  <2>4. CASE BufferMarked(t)
    BY <2>4 DEF BufferMarked
  <2> QED
    BY <1>1, <2>1, <2>2, <2>3, <2>4
<1>2. CASE Tick \/ Unmark \/ ElementGone \/ TimerRemoved
  BY <1>2 DEF Tick, Unmark, ElementGone, TimerRemoved
<1>3. CASE FlowStops
  <2>1. overtaken' \in BOOLEAN
    BY <1>3 DEF FlowStops
  <2> QED
    BY <1>3, <2>1 DEF FlowStops
<1>4. CASE TickTells
  <2>1. raised' \in [{0, 1} -> Nat] /\ shown' \in {0, 1} /\ lastRaised' \in {0, 1}
          /\ tickPc' \in {"raise", "idle"}
    BY <1>4 DEF TickTells, KeepState, RaiseEvent
  <2> QED
    BY <1>4, <2>1 DEF TickTells
<1>5. CASE UNCHANGED flowVars
  BY <1>5 DEF flowVars
<1> QED
  BY <1>1, <1>2, <1>3, <1>4, <1>5 DEF FlowNext

(* Steps that change neither the flow nor what is told of it. *)
LEMMA QuietSteps ==
  ASSUME FlowInv, FlowTypeOK', Tellers' = Tellers, Cardinality(Tellers') = Cardinality(Tellers),
         \A u \in FlowThreads : threadPc'[u] = "raise" => threadPc[u] = "raise",
         TickTelling' <=> TickTelling, tickPc' = "raise" => tickPc = "raise",
         tickPc' \in {"stop", "unmark"} => media_flowing = 1,
         UNCHANGED <<media_flowing, shown, raised, lastRaised, overtaken>>
  PROVE  FlowInv'
<1>1. FlowCount' /\ TickInv'
  BY DEF FlowInv, FlowCount, TickInv
<1>2. FlowOrder'
  BY DEF FlowInv, FlowOrder
<1> QED
  BY <1>1, <1>2 DEF FlowInv

(* cb_buffer_received: the thread that finds no flow claims the change and has to tell it. *)
LEMMA BufferReceivedStep ==
  ASSUME FlowInv, FlowTypeOK', NEW t \in FlowThreads, BufferReceived(t)
  PROVE  FlowInv'
<1>1. /\ threadPc[t] = "idle" /\ media_flowing' = 1
      /\ threadPc' = [threadPc EXCEPT ![t] = IF media_flowing = 0 THEN "keep" ELSE "mark"]
      /\ overtaken' <=> (overtaken \/ (media_flowing = 0 /\ TickTelling))
      /\ UNCHANGED <<tickPc, shown, raised, lastRaised>>
  BY DEF BufferReceived, Claim, TickTelling
<1>2. t \notin Tellers /\ FlowTypeOK /\ FlowCount /\ TickInv /\ FlowOrder
  BY <1>1 DEF Tellers, FlowInv
<1>3. CASE media_flowing = 1
  <2>1. threadPc' = [threadPc EXCEPT ![t] = "mark"] /\ "mark" \in ThreadSteps
    BY <1>1, <1>3 DEF ThreadSteps
  <2>2. Tellers' = Tellers /\ Cardinality(Tellers') = Cardinality(Tellers)
          /\ \A u \in FlowThreads : threadPc'[u] = "raise" => threadPc[u] = "raise"
    BY <1>2, <2>1, ThreadMoves
  <2>3. overtaken' = overtaken
    BY <1>1, <1>2, <1>3 DEF FlowTypeOK
  <2>4. TickTelling' = TickTelling
    BY <1>1 DEF TickTelling
  <2> QED
    BY <1>1, <1>2, <1>3, <2>2, <2>3, <2>4, QuietSteps DEF TickInv
<1>4. CASE media_flowing = 0
  <2>1. threadPc' = [threadPc EXCEPT ![t] = "keep"] /\ "keep" \in ThreadSteps
    BY <1>1, <1>4 DEF ThreadSteps
  <2>2. Tellers' = Tellers \cup {t} /\ Cardinality(Tellers') = Cardinality(Tellers) + 1
          /\ Cardinality(Tellers) \in Nat
          /\ \A u \in FlowThreads : threadPc'[u] = IF u = t THEN "keep" ELSE threadPc[u]
    BY <1>2, <2>1, ThreadMoves
  <2>3. FlowCount'
    BY <1>1, <1>2, <1>4, <2>2 DEF FlowCount, TickTelling, FlowTypeOK
  <2>4. TickInv'
    BY <1>1 DEF TickInv
  <2>5. FlowOrder'
    <3>1. SUFFICES ASSUME ~overtaken'
                   PROVE  /\ ~TickTelling' /\ \A u \in FlowThreads : threadPc'[u] # "raise"
                          /\ \A u, v \in Tellers' : u = v
                          /\ tickPc' # "raise" /\ Tellers' # {}
      BY <1>1 DEF FlowOrder
    <3>2. ~overtaken /\ ~TickTelling /\ Tellers = {}
      BY <1>1, <1>2, <1>4, <3>1 DEF FlowOrder
    <3> QED
      BY <1>1, <2>2, <3>2 DEF TickTelling, Tellers
  <2> QED
    BY <2>3, <2>4, <2>5 DEF FlowInv
<1> QED
  BY <1>2, <1>3, <1>4 DEF FlowTypeOK

(* A streaming thread keeps the state, then raises the event. *)
LEMMA ThreadTellsStep ==
  ASSUME FlowInv, FlowTypeOK', NEW t \in FlowThreads, ThreadTells(t)
  PROVE  FlowInv'
<1>1. FlowTypeOK /\ FlowCount /\ TickInv /\ FlowOrder /\ UNCHANGED <<media_flowing, tickPc, overtaken>>
  BY DEF FlowInv, ThreadTells
<1>2. t \in Tellers
  BY DEF ThreadTells, Tellers
<1>3. TickInv' /\ TickTelling' = TickTelling
  BY <1>1 DEF TickInv, TickTelling
<1>4. CASE threadPc[t] = "keep"
  <2>1. shown' = 1 /\ UNCHANGED <<raised, lastRaised>>
          /\ threadPc' = [threadPc EXCEPT ![t] = "raise"] /\ "raise" \in ThreadSteps
    BY <1>4 DEF ThreadTells, KeepState, ThreadSteps
  <2>2. Tellers' = Tellers /\ Cardinality(Tellers') = Cardinality(Tellers)
    BY <1>1, <1>2, <2>1, ThreadMoves
  <2>3. FlowCount'
    BY <1>1, <1>3, <2>1, <2>2 DEF FlowCount
  <2>4. FlowOrder'
    BY <1>1, <1>2, <1>3, <2>1, <2>2 DEF FlowOrder, TickTelling
  <2> QED
    BY <1>3, <2>3, <2>4 DEF FlowInv
<1>5. CASE threadPc[t] = "raise"
  <2>1. /\ raised' = [raised EXCEPT ![1] = @ + 1] /\ lastRaised' = 1 /\ UNCHANGED shown
        /\ threadPc' = [threadPc EXCEPT ![t] = "mark"] /\ "mark" \in ThreadSteps
    BY <1>5 DEF ThreadTells, RaiseEvent, ThreadSteps
  <2>2. /\ Tellers' = Tellers \ {t} /\ Cardinality(Tellers') = Cardinality(Tellers) - 1
        /\ Cardinality(Tellers) \in Nat
        /\ \A u \in FlowThreads : threadPc'[u] = IF u = t THEN "mark" ELSE threadPc[u]
    BY <1>1, <1>2, <2>1, ThreadMoves
  <2>3. raised'[1] = raised[1] + 1 /\ raised'[0] = raised[0] /\ raised[1] \in Nat /\ raised[0] \in Nat
    BY <1>1, <2>1 DEF FlowTypeOK
  <2>4. FlowCount'
    BY <1>1, <1>3, <2>2, <2>3 DEF FlowCount
  <2>5. FlowOrder'
    BY <1>1, <1>2, <1>3, <1>5, <2>1, <2>2 DEF FlowOrder, TickTelling
  <2> QED
    BY <1>3, <2>4, <2>5 DEF FlowInv
<1> QED
  BY <1>4, <1>5 DEF ThreadTells

(* check_if_flow_media finds no mark: the flow is off, and the timer has to tell it. *)
LEMMA FlowStopsStep ==
  ASSUME FlowInv, FlowTypeOK', FlowStops
  PROVE  FlowInv'
<1>1. FlowTypeOK /\ FlowCount /\ TickInv /\ FlowOrder
  BY DEF FlowInv
<1>2. /\ tickPc = "stop" /\ tickPc' = "keep" /\ media_flowing' = 0
      /\ overtaken' <=> (overtaken \/ Tellers # {})
      /\ UNCHANGED <<threadPc, shown, raised, lastRaised>>
  BY DEF FlowStops, Tellers
<1>3. media_flowing = 1 /\ ~TickTelling /\ TickTelling' /\ TickInv'
  BY <1>1, <1>2 DEF TickInv, TickTelling
<1>4. Tellers' = Tellers /\ Cardinality(Tellers') = Cardinality(Tellers) /\ Cardinality(Tellers) \in Nat
  BY <1>2, ThreadsRest, TellersCounted
<1>5. FlowCount'
  BY <1>1, <1>2, <1>3, <1>4 DEF FlowCount, FlowTypeOK
<1>6. FlowOrder'
  BY <1>2, <1>3, <1>4 DEF FlowOrder, Tellers
<1> QED
  BY <1>3, <1>5, <1>6 DEF FlowInv

(* The timer keeps the state, then raises the event. *)
LEMMA TickTellsStep ==
  ASSUME FlowInv, FlowTypeOK', TickTells
  PROVE  FlowInv'
<1>1. FlowTypeOK /\ FlowCount /\ FlowOrder /\ UNCHANGED <<media_flowing, threadPc, overtaken>>
  BY DEF FlowInv, TickTells
<1>2. Tellers' = Tellers /\ Cardinality(Tellers') = Cardinality(Tellers) /\ Cardinality(Tellers) \in Nat
  BY <1>1, ThreadsRest, TellersCounted
<1>3. TickInv'
  BY DEF TickTells, TickInv
<1>4. TickTelling
  BY DEF TickTells, TickTelling
<1>5. CASE tickPc = "keep"
  <2>1. shown' = 0 /\ UNCHANGED <<raised, lastRaised>> /\ tickPc' = "raise" /\ TickTelling'
    BY <1>5 DEF TickTells, KeepState, TickTelling
  <2>2. FlowCount'
    BY <1>1, <1>2, <1>4, <2>1 DEF FlowCount
  <2>3. FlowOrder'
    BY <1>1, <1>2, <1>4, <2>1 DEF FlowOrder, Tellers
  <2> QED
    BY <1>3, <2>2, <2>3 DEF FlowInv
<1>6. CASE tickPc = "raise"
  <2>1. /\ raised' = [raised EXCEPT ![0] = @ + 1] /\ lastRaised' = 0 /\ UNCHANGED shown
        /\ tickPc' = "idle" /\ ~TickTelling'
    BY <1>6 DEF TickTells, RaiseEvent, TickTelling
  <2>2. raised'[0] = raised[0] + 1 /\ raised'[1] = raised[1] /\ raised[1] \in Nat /\ raised[0] \in Nat
    BY <1>1, <2>1 DEF FlowTypeOK
  <2>3. FlowCount'
    BY <1>1, <1>2, <1>4, <2>1, <2>2 DEF FlowCount
  <2>4. FlowOrder'
    BY <1>1, <1>2, <1>4, <1>6, <2>1 DEF FlowOrder, Tellers
  <2> QED
    BY <1>3, <2>3, <2>4 DEF FlowInv
<1> QED
  BY <1>5, <1>6 DEF TickTells

(* Nothing flows and nobody has anything to tell at first. *)
LEMMA FlowInvInit ==
  ASSUME FlowInit
  PROVE  FlowInv
<1>1. FlowTypeOK
  <2>1. raised \in [{0, 1} -> Nat] /\ 0 \in 0..MaxBuffers
    BY FlowAssumption DEF FlowInit
  <2>2. threadPc \in [FlowThreads -> {"idle", "keep", "raise", "mark"}]
    BY DEF FlowInit
  <2> QED
    BY <2>1, <2>2 DEF FlowInit, FlowTypeOK
<1>2. Tellers = {} /\ Cardinality(Tellers) = 0
  BY FS_EmptySet DEF FlowInit, Tellers
<1>3. FlowCount /\ TickInv /\ FlowOrder
  BY <1>2 DEF FlowInit, FlowCount, TickInv, FlowOrder, TickTelling
<1> QED
  BY <1>1, <1>3 DEF FlowInv

(* No step of a streaming thread or of the timer breaks the invariant of the flow. *)
LEMMA FlowInvStep ==
  ASSUME FlowInv, [FlowNext]_flowVars
  PROVE  FlowInv'
<1>1. FlowTypeOK' /\ FlowTypeOK /\ TickInv
  BY FlowTypeStep DEF FlowInv
<1>2. ASSUME NEW t \in FlowThreads,
             AddFlowProbe(t) \/ BufferReceived(t) \/ ThreadTells(t) \/ BufferMarked(t)
      PROVE  FlowInv'
  <2>1. CASE AddFlowProbe(t)
    <3>1. UNCHANGED <<threadPc, tickPc, media_flowing, shown, raised, lastRaised, overtaken>>
      BY <2>1 DEF AddFlowProbe
    <3> QED
      BY <1>1, <3>1, ThreadsRest, QuietSteps DEF TickTelling, TickInv
  <2>2. CASE BufferMarked(t)
    <3>1. /\ threadPc' = [threadPc EXCEPT ![t] = "idle"] /\ threadPc[t] = "mark" /\ "idle" \in ThreadSteps
          /\ UNCHANGED <<tickPc, media_flowing, shown, raised, lastRaised, overtaken>>
      BY <2>2 DEF BufferMarked, ThreadSteps
    <3>2. t \notin Tellers
      BY <3>1 DEF Tellers
    <3>3. /\ Tellers' = Tellers /\ Cardinality(Tellers') = Cardinality(Tellers)
          /\ \A u \in FlowThreads : threadPc'[u] = "raise" => threadPc[u] = "raise"
      BY <1>1, <3>1, <3>2, ThreadMoves
    <3> QED
      BY <1>1, <3>1, <3>3, QuietSteps DEF TickTelling, TickInv
  <2> QED
    BY <1>1, <1>2, <2>1, <2>2, BufferReceivedStep, ThreadTellsStep
<1>3. CASE Tick \/ Unmark
  <2>1. /\ UNCHANGED <<threadPc, media_flowing, shown, raised, lastRaised, overtaken>>
        /\ ~TickTelling /\ ~TickTelling' /\ tickPc' # "raise"
        /\ tickPc' \in {"stop", "unmark"} => media_flowing = 1
    BY <1>3 DEF Tick, Unmark, TickTelling
  <2> QED
    BY <1>1, <2>1, ThreadsRest, QuietSteps
<1>4. CASE ElementGone \/ TimerRemoved \/ UNCHANGED flowVars
  <2>1. UNCHANGED <<threadPc, tickPc, media_flowing, shown, raised, lastRaised, overtaken>>
    BY <1>4 DEF ElementGone, TimerRemoved, flowVars
  <2> QED
    BY <1>1, <2>1, ThreadsRest, QuietSteps DEF TickTelling, TickInv
<1> QED
  BY <1>1, <1>2, <1>3, <1>4, FlowStopsStep, TickTellsStep DEF FlowNext

(* Every thread stays within the steps of cb_buffer_received and check_if_flow_media. *)
THEOREM FlowTypeCorrect == FlowSpec => []FlowTypeOK
<1>1. FlowInit => FlowTypeOK
  BY FlowInvInit DEF FlowInv
<1>2. FlowTypeOK /\ [FlowNext]_flowVars => FlowTypeOK'
  BY FlowTypeStep
<1> QED
  BY <1>1, <1>2, PTL DEF FlowSpec

(* However many streaming threads meet the timer: every change of media_flowing is told once
   (cb_buffer_received, check_if_flow_media), and without an overtaken telling the state that
   isMediaFlowing gives and the last event are those of the element. *)
THEOREM FlowAlwaysTold == FlowSpec => []FlowTold
<1>1. FlowInit => FlowInv
  BY FlowInvInit
<1>2. FlowInv /\ [FlowNext]_flowVars => FlowInv'
  BY FlowInvStep
<1>3. FlowInv => FlowTold
  <2>1. SUFFICES ASSUME FlowInv
                 PROVE  FlowTold
    OBVIOUS
  <2>2. {t \in FlowThreads : ToTell(t) = 1} = Tellers
    BY DEF ToTell, Tellers
  <2>3. raised[1] - raised[0] + StillToTell = media_flowing
    BY <2>1, <2>2, TellersCounted DEF FlowInv, FlowTypeOK, FlowCount, StillToTell, TickTelling
  <2>4. ASSUME ~overtaken, tickPc = "idle", \A t \in FlowThreads : ToTell(t) = 0
        PROVE  (isMediaFlowing <=> media_flowing = 1) /\ lastRaised = media_flowing
    <3>1. Tellers = {} /\ ~TickTelling
      BY <2>4 DEF Tellers, ToTell, TickTelling
    <3> QED
      BY <2>1, <2>4, <3>1 DEF FlowInv, FlowOrder, isMediaFlowing
  <2> QED
    BY <2>3, <2>4 DEF FlowTold
<1> QED
  BY <1>1, <1>2, <1>3, PTL DEF FlowSpec

-----------------------------------------------------------------------------
(* The settings of an element and of its parts.                            *)

(* The limits of an element are in order; a maximum of 0 leaves a minimum of 0 only. *)
Ordered(r) ==
  /\ r.min <= r.max /\ r.max <= UNLIMITED
  /\ r.target <= UNLIMITED \/ r.target = DEFAULT_TARGET

(* The limits q of a bin are those r of its element. *)
Follows(q, r) ==
  q.target = r.target /\ q.min = r.min /\ q.max = IF r.max = 0 THEN UNLIMITED ELSE r.max

OutputInv ==
  \A o \in VideoOutputs : outputs[o].made =>
    Follows(outputs[o].rates, bitrates) /\ outputs[o].config = codec_config

(* The probe of a sink pad. *)
Probes(s, n) == {p \in statsProbes : p.sink = s /\ p.pad = n}

(* A pad number is given once, and a probe is of a number given before. *)
ProbeInv ==
  /\ \A p \in statsProbes : p.pad <= sinkPads[p.sink]
  /\ \A s \in SinkNames : sinkPad[s] <= sinkPads[s]

(* A pad without its probe yet, and a pad with its probe. *)
SinkInv ==
  \A s \in SinkNames :
    /\ sinkPc[s] = "probing" => sinkPad[s] # 0 /\ Probes(s, sinkPad[s]) = {}
    /\ (sinkPc[s] = "rest" /\ sinkPad[s] # 0) =>
         /\ Probes(s, sinkPad[s]) # {}
         /\ \A p \in Probes(s, sinkPad[s]) : p.latency <=> statsEnabled

(* The inductive invariant. *)
ConfigInv == ConfigTypeOK /\ Ordered(bitrates) /\ OutputInv /\ ProbeInv /\ SinkInv

(* What the checks of the element and of its bins make of a value. *)
LEMMA RateFields ==
  ASSUME NEW r \in Rates, NEW v \in Nat, DEFAULT_TARGET \in Nat, UNLIMITED \in Nat
  PROVE  /\ WithTarget(r, v) \in Rates /\ WithTarget(r, v).min = r.min /\ WithTarget(r, v).max = r.max
         /\ WithTarget(r, v).target = IF v < r.min \/ v > r.max THEN DEFAULT_TARGET ELSE v
         /\ WithMin(r, v) \in Rates /\ WithMin(r, v).target = r.target /\ WithMin(r, v).max = r.max
         /\ WithMin(r, v).min = IF v > r.max THEN r.max ELSE v
         /\ WithMax(r, v) \in Rates /\ WithMax(r, v).target = r.target /\ WithMax(r, v).min = r.min
         /\ WithMax(r, v).max = IF v < r.min THEN r.min ELSE v
         /\ BinWithMax(r, v) \in Rates /\ BinWithMax(r, v).target = r.target /\ BinWithMax(r, v).min = r.min
         /\ BinWithMax(r, v).max = IF v = 0 THEN UNLIMITED ELSE IF v < r.min THEN r.min ELSE v
<1>1. r.min \in Nat /\ r.max \in Nat /\ r.target \in Nat
  BY DEF Rates
<1>2. \A w \in Nat : [r EXCEPT !.target = w] \in Rates /\ [r EXCEPT !.min = w] \in Rates
                     /\ [r EXCEPT !.max = w] \in Rates
  BY DEF Rates
<1>3. \A w \in Nat : /\ [r EXCEPT !.target = w].target = w /\ [r EXCEPT !.target = w].min = r.min
                     /\ [r EXCEPT !.target = w].max = r.max
                     /\ [r EXCEPT !.min = w].min = w /\ [r EXCEPT !.min = w].target = r.target
                     /\ [r EXCEPT !.min = w].max = r.max
                     /\ [r EXCEPT !.max = w].max = w /\ [r EXCEPT !.max = w].min = r.min
                     /\ [r EXCEPT !.max = w].target = r.target
  BY DEF Rates
<1>4. WithTarget(r, v) \in Rates /\ WithTarget(r, v).min = r.min /\ WithTarget(r, v).max = r.max
        /\ WithTarget(r, v).target = IF v < r.min \/ v > r.max THEN DEFAULT_TARGET ELSE v
  <2> DEFINE w == IF v < r.min \/ v > r.max THEN DEFAULT_TARGET ELSE v
  <2>1. w \in Nat /\ WithTarget(r, v) = [r EXCEPT !.target = w]
    BY <1>1 DEF WithTarget
  <2>2. w = IF v < r.min \/ v > r.max THEN DEFAULT_TARGET ELSE v
    OBVIOUS
  <2> HIDE DEF w
  <2> QED
    BY <1>2, <1>3, <2>1, <2>2
<1>5. WithMin(r, v) \in Rates /\ WithMin(r, v).target = r.target /\ WithMin(r, v).max = r.max
        /\ WithMin(r, v).min = IF v > r.max THEN r.max ELSE v
  <2> DEFINE w == IF v > r.max THEN r.max ELSE v
  <2>1. w \in Nat /\ WithMin(r, v) = [r EXCEPT !.min = w]
    BY <1>1 DEF WithMin
  <2>2. w = IF v > r.max THEN r.max ELSE v
    OBVIOUS
  <2> HIDE DEF w
  <2>3. [r EXCEPT !.min = w] \in Rates
    BY <1>2, <2>1
  <2>4. [r EXCEPT !.min = w].min = w /\ [r EXCEPT !.min = w].target = r.target /\ [r EXCEPT !.min = w].max = r.max
    BY <1>3, <2>1
  <2> QED
    BY <2>1, <2>2, <2>3, <2>4
<1>6. WithMax(r, v) \in Rates /\ WithMax(r, v).target = r.target /\ WithMax(r, v).min = r.min
        /\ WithMax(r, v).max = IF v < r.min THEN r.min ELSE v
  <2> DEFINE w == IF v < r.min THEN r.min ELSE v
  <2>1. w \in Nat /\ WithMax(r, v) = [r EXCEPT !.max = w]
    BY <1>1 DEF WithMax
  <2>2. w = IF v < r.min THEN r.min ELSE v
    OBVIOUS
  <2> HIDE DEF w
  <2>3. [r EXCEPT !.max = w] \in Rates
    BY <1>2, <2>1
  <2>4. [r EXCEPT !.max = w].max = w /\ [r EXCEPT !.max = w].target = r.target /\ [r EXCEPT !.max = w].min = r.min
    BY <1>3, <2>1
  <2> QED
    BY <2>1, <2>2, <2>3, <2>4
<1>7. BinWithMax(r, v) \in Rates /\ BinWithMax(r, v).target = r.target /\ BinWithMax(r, v).min = r.min
        /\ BinWithMax(r, v).max = IF v = 0 THEN UNLIMITED ELSE IF v < r.min THEN r.min ELSE v
  <2>1. CASE v = 0
    <3>1. BinWithMax(r, v) = [r EXCEPT !.max = UNLIMITED]
      BY <2>1 DEF BinWithMax
    <3>2. [r EXCEPT !.max = UNLIMITED] \in Rates
      BY <1>2
    <3>3. /\ [r EXCEPT !.max = UNLIMITED].max = UNLIMITED
          /\ [r EXCEPT !.max = UNLIMITED].target = r.target
          /\ [r EXCEPT !.max = UNLIMITED].min = r.min
      BY <1>3
    <3> QED
      BY <2>1, <3>1, <3>2, <3>3
  <2>2. CASE v # 0
    BY <1>6, <2>2 DEF BinWithMax
  <2> QED
    BY <2>1, <2>2
<1> QED
  BY <1>4, <1>5, <1>6, <1>7

(* The constants are numbers. *)
LEMMA ConfigNumbers ==
  /\ Bitrates \subseteq Nat /\ DEFAULT_TARGET \in Nat /\ UNLIMITED \in Nat
  /\ MaxSinkPads \in Nat /\ MaxSettings \in Nat /\ \A r \in Bitrates : r <= UNLIMITED
BY ConfigAssumption

(* A setting that the element checked and passed on is taken by a bin that followed it, which
   checks it once more. *)
LEMMA BinFollows ==
  ASSUME NEW r \in Rates, Ordered(r), NEW q \in Rates, Follows(q, r), NEW v \in Bitrates
  PROVE  /\ Follows(WithTarget(q, WithTarget(r, v).target), WithTarget(r, v))
         /\ Follows(WithMin(q, WithMin(r, v).min), WithMin(r, v))
         /\ Follows(BinWithMax(q, WithMax(r, v).max), WithMax(r, v))
<1> DEFINE t == WithTarget(r, v)
           m == WithMin(r, v)
           x == WithMax(r, v)
<1>1. /\ v \in Nat /\ DEFAULT_TARGET \in Nat /\ UNLIMITED \in Nat /\ v <= UNLIMITED
      /\ r.min \in Nat /\ r.max \in Nat /\ r.target \in Nat
      /\ q.min \in Nat /\ q.max \in Nat /\ q.target \in Nat
  BY ConfigNumbers DEF Rates
<1>2. /\ t \in Rates /\ t.min = r.min /\ t.max = r.max
      /\ t.target = IF v < r.min \/ v > r.max THEN DEFAULT_TARGET ELSE v
      /\ m \in Rates /\ m.target = r.target /\ m.max = r.max
      /\ m.min = IF v > r.max THEN r.max ELSE v
      /\ x \in Rates /\ x.target = r.target /\ x.min = r.min
      /\ x.max = IF v < r.min THEN r.min ELSE v
  BY <1>1, RateFields
<1> HIDE DEF t, m, x
<1>3. t.target \in Nat /\ m.min \in Nat /\ x.max \in Nat
  BY <1>2 DEF Rates
<1>4. Follows(WithTarget(q, t.target), t)
  <2>1. /\ WithTarget(q, t.target).min = q.min /\ WithTarget(q, t.target).max = q.max
        /\ WithTarget(q, t.target).target =
             IF t.target < q.min \/ t.target > q.max THEN DEFAULT_TARGET ELSE t.target
    BY <1>1, <1>3, RateFields
  <2>2. WithTarget(q, t.target).target = t.target
    BY <1>1, <1>2, <1>3, <2>1 DEF Follows, Ordered
  <2> QED
    BY <1>2, <2>1, <2>2 DEF Follows
<1>5. Follows(WithMin(q, m.min), m)
  <2>1. /\ WithMin(q, m.min).target = q.target /\ WithMin(q, m.min).max = q.max
        /\ WithMin(q, m.min).min = IF m.min > q.max THEN q.max ELSE m.min
    BY <1>1, <1>3, RateFields
  <2>2. WithMin(q, m.min).min = m.min
    BY <1>1, <1>2, <1>3, <2>1 DEF Follows, Ordered
  <2> QED
    BY <1>2, <2>1, <2>2 DEF Follows
<1>6. Follows(BinWithMax(q, x.max), x)
  <2>1. /\ BinWithMax(q, x.max).target = q.target /\ BinWithMax(q, x.max).min = q.min
        /\ BinWithMax(q, x.max).max = IF x.max = 0 THEN UNLIMITED ELSE IF x.max < q.min THEN q.min ELSE x.max
    BY <1>1, <1>3, RateFields
  <2>2. BinWithMax(q, x.max).max = IF x.max = 0 THEN UNLIMITED ELSE x.max
    BY <1>1, <1>2, <1>3, <2>1 DEF Follows, Ordered
  <2> QED
    BY <1>2, <2>1, <2>2 DEF Follows
<1> QED
  BY <1>4, <1>5, <1>6 DEF t, m, x

(* The element's own limits stay in order. *)
LEMMA StayOrdered ==
  ASSUME NEW r \in Rates, Ordered(r), NEW v \in Bitrates
  PROVE  /\ WithTarget(r, v) \in Rates /\ Ordered(WithTarget(r, v))
         /\ WithMin(r, v) \in Rates /\ Ordered(WithMin(r, v))
         /\ WithMax(r, v) \in Rates /\ Ordered(WithMax(r, v))
<1>1. /\ v \in Nat /\ DEFAULT_TARGET \in Nat /\ UNLIMITED \in Nat /\ v <= UNLIMITED
      /\ r.min \in Nat /\ r.max \in Nat /\ r.target \in Nat
  BY ConfigNumbers DEF Rates
<1>2. WithTarget(r, v) \in Rates /\ Ordered(WithTarget(r, v))
  <2>1. /\ WithTarget(r, v) \in Rates /\ WithTarget(r, v).min = r.min /\ WithTarget(r, v).max = r.max
        /\ WithTarget(r, v).target = IF v < r.min \/ v > r.max THEN DEFAULT_TARGET ELSE v
    BY <1>1, RateFields
  <2> QED
    BY <1>1, <2>1 DEF Ordered
<1>3. WithMin(r, v) \in Rates /\ Ordered(WithMin(r, v))
  <2>1. /\ WithMin(r, v) \in Rates /\ WithMin(r, v).target = r.target /\ WithMin(r, v).max = r.max
        /\ WithMin(r, v).min = IF v > r.max THEN r.max ELSE v
    BY <1>1, RateFields
  <2> QED
    BY <1>1, <2>1 DEF Ordered
<1>4. WithMax(r, v) \in Rates /\ Ordered(WithMax(r, v))
  <2>1. /\ WithMax(r, v) \in Rates /\ WithMax(r, v).target = r.target /\ WithMax(r, v).min = r.min
        /\ WithMax(r, v).max = IF v < r.min THEN r.min ELSE v
    BY <1>1, RateFields
  <2> QED
    BY <1>1, <2>1 DEF Ordered
<1> QED
  BY <1>2, <1>3, <1>4

(* A bin that comes later is given all the settings in turn, and follows. *)
LEMMA NewBinFollows ==
  ASSUME NEW r \in Rates, Ordered(r), NEW c
  PROVE  /\ video_output_properties(r, c).rates \in Rates
         /\ Follows(video_output_properties(r, c).rates, r)
         /\ video_output_properties(r, c).config = c
<1> DEFINE q1 == WithTarget(DefaultBitrates, r.target)
           q2 == BinWithMax(q1, r.max)
           q3 == WithMin(q2, r.min)
<1>1. /\ DEFAULT_TARGET \in Nat /\ UNLIMITED \in Nat
      /\ r.min \in Nat /\ r.max \in Nat /\ r.target \in Nat
  BY ConfigNumbers DEF Rates
<1>2. /\ DefaultBitrates \in Rates /\ DefaultBitrates.target = DEFAULT_TARGET
      /\ DefaultBitrates.min = 0 /\ DefaultBitrates.max = UNLIMITED
  BY <1>1 DEF DefaultBitrates, Rates
<1>3. q1 \in Rates /\ q1.min = 0 /\ q1.max = UNLIMITED /\ q1.target = r.target
  <2>1. /\ q1 \in Rates /\ q1.min = DefaultBitrates.min /\ q1.max = DefaultBitrates.max
        /\ q1.target = IF r.target < DefaultBitrates.min \/ r.target > DefaultBitrates.max
                       THEN DEFAULT_TARGET ELSE r.target
    BY <1>1, <1>2, RateFields
  <2> HIDE DEF q1
  <2> QED
    BY <1>1, <1>2, <2>1 DEF Ordered
<1>4. /\ q2 \in Rates /\ q2.min = q1.min /\ q2.target = q1.target
      /\ q2.max = IF r.max = 0 THEN UNLIMITED ELSE IF r.max < q1.min THEN q1.min ELSE r.max
  <2> HIDE DEF q1
  <2> QED
    BY <1>1, <1>3, RateFields
<1>5. /\ q3 \in Rates /\ q3.target = q2.target /\ q3.max = q2.max
      /\ q3.min = IF r.min > q2.max THEN q2.max ELSE r.min
  <2> HIDE DEF q1, q2
  <2> QED
    BY <1>1, <1>4, RateFields
<1>6. video_output_properties(r, c).rates = q3 /\ video_output_properties(r, c).config = c
  BY DEF video_output_properties
<1> HIDE DEF q1, q2, q3
<1>7. Follows(q3, r)
  BY <1>1, <1>3, <1>4, <1>5 DEF Follows, Ordered
<1> QED
  BY <1>5, <1>6, <1>7

(* An output with one field changed. *)
LEMMA OutputFields ==
  ASSUME NEW x \in Output, NEW q \in Rates, NEW c \in 0..2
  PROVE  /\ [x EXCEPT !.rates = q] \in Output /\ [x EXCEPT !.rates = q].rates = q
         /\ [x EXCEPT !.rates = q].config = x.config /\ [x EXCEPT !.rates = q].made = x.made
         /\ [x EXCEPT !.config = c] \in Output /\ [x EXCEPT !.config = c].rates = x.rates
         /\ [x EXCEPT !.config = c].config = c /\ [x EXCEPT !.config = c].made = x.made
         /\ [x EXCEPT !.known = TRUE] \in Output /\ [x EXCEPT !.known = TRUE].rates = x.rates
         /\ [x EXCEPT !.known = TRUE].config = x.config /\ [x EXCEPT !.known = TRUE].made = x.made
<1>1. [x EXCEPT !.rates = q] \in Output /\ [x EXCEPT !.config = c] \in Output
        /\ [x EXCEPT !.known = TRUE] \in Output
  BY DEF Output
<1>2. /\ [x EXCEPT !.rates = q].rates = q /\ [x EXCEPT !.rates = q].config = x.config
      /\ [x EXCEPT !.config = c].rates = x.rates /\ [x EXCEPT !.config = c].config = c
      /\ [x EXCEPT !.known = TRUE].rates = x.rates /\ [x EXCEPT !.known = TRUE].config = x.config
  BY DEF Output
<1>3. /\ [x EXCEPT !.rates = q].made = x.made /\ [x EXCEPT !.config = c].made = x.made
      /\ [x EXCEPT !.known = TRUE].made = x.made
  BY Zenon DEF Output
<1> QED
  BY <1>1, <1>2, <1>3

(* The state of the sinks does not change with the outputs, nor the other way round. *)
LEMMA SinksRest ==
  ASSUME ConfigInv, UNCHANGED <<statsEnabled, sinkPad, sinkPc, statsProbes, sinkPads>>
  PROVE  ProbeInv' /\ SinkInv'
BY DEF ConfigInv, ProbeInv, SinkInv, Probes

(* A step that sets no bitrate and makes no output leaves both in order. *)
LEMMA OutputsRest ==
  ASSUME ConfigInv, UNCHANGED <<bitrates, codec_config, outputs>>
  PROVE  Ordered(bitrates)' /\ OutputInv'
BY DEF ConfigInv, OutputInv, Ordered

(* A bitrate of the element is set and passed on to the video outputs that exist. *)
LEMMA SettingStep ==
  ASSUME ConfigInv, NEW v \in Bitrates, SetTarget(v) \/ SetMin(v) \/ SetMax(v)
  PROVE  ConfigInv'
<1>1. /\ bitrates \in Rates /\ Ordered(bitrates) /\ outputs \in [OutputNames -> Output]
      /\ settings \in 0..MaxSettings /\ MaxSettings \in Nat
  BY ConfigNumbers DEF ConfigInv, ConfigTypeOK
<1>2. /\ UNCHANGED <<codec_config, statsEnabled, sinkPad, sinkPc, statsProbes, sinkPads, crashed>>
      /\ settings' \in 0..MaxSettings
  BY <1>1 DEF SetTarget, SetMin, SetMax, ConfigStep
<1>3. bitrates' \in Rates /\ Ordered(bitrates')
  BY <1>1, StayOrdered DEF SetTarget, SetMin, SetMax
<1>4. ASSUME NEW o \in VideoOutputs, outputs[o].made
      PROVE  \E q \in Rates : outputs'[o] = [outputs[o] EXCEPT !.rates = q] /\ Follows(q, bitrates')
  <2>1. /\ o \in OutputNames /\ o \in MadeVideo /\ outputs[o] \in Output /\ outputs[o].rates \in Rates
        /\ Follows(outputs[o].rates, bitrates)
    BY <1>1, <1>4 DEF OutputNames, MadeVideo, Output, ConfigInv, OutputInv
  <2>2. bitrates'.target \in Nat /\ bitrates'.min \in Nat /\ bitrates'.max \in Nat
    BY <1>3 DEF Rates
  <2>3. CASE SetTarget(v)
    <3>1. /\ bitrates' = WithTarget(bitrates, v)
          /\ outputs'[o] = [outputs[o] EXCEPT !.rates = WithTarget(outputs[o].rates, bitrates'.target)]
      BY <2>1, <2>3 DEF SetTarget, PassTarget
    <3>2. WithTarget(outputs[o].rates, bitrates'.target) \in Rates
      BY <2>1, <2>2, RateFields, ConfigNumbers
    <3> QED
      BY <1>1, <2>1, <3>1, <3>2, BinFollows
  <2>4. CASE SetMin(v)
    <3>1. /\ bitrates' = WithMin(bitrates, v)
          /\ outputs'[o] = [outputs[o] EXCEPT !.rates = WithMin(outputs[o].rates, bitrates'.min)]
      BY <2>1, <2>4 DEF SetMin, PassMin
    <3>2. WithMin(outputs[o].rates, bitrates'.min) \in Rates
      BY <2>1, <2>2, RateFields, ConfigNumbers
    <3> QED
      BY <1>1, <2>1, <3>1, <3>2, BinFollows
  <2>5. CASE SetMax(v)
    <3>1. /\ bitrates' = WithMax(bitrates, v)
          /\ outputs'[o] = [outputs[o] EXCEPT !.rates = BinWithMax(outputs[o].rates, bitrates'.max)]
      BY <2>1, <2>5 DEF SetMax, PassMax
    <3>2. BinWithMax(outputs[o].rates, bitrates'.max) \in Rates
      BY <2>1, <2>2, RateFields, ConfigNumbers
    <3> QED
      BY <1>1, <2>1, <3>1, <3>2, BinFollows
  <2> QED
    BY <2>3, <2>4, <2>5
<1>5. ASSUME NEW o \in OutputNames, ~(o \in VideoOutputs /\ outputs[o].made)
      PROVE  outputs'[o] = outputs[o]
  BY <1>5 DEF SetTarget, SetMin, SetMax, PassTarget, PassMin, PassMax, MadeVideo
<1>6. outputs' \in [OutputNames -> Output]
  <2>1. \A o \in OutputNames : outputs'[o] \in Output
    <3>1. ASSUME NEW o \in OutputNames
          PROVE  outputs'[o] \in Output
      <4>1. CASE o \in VideoOutputs /\ outputs[o].made
        <5>1. PICK q \in Rates : outputs'[o] = [outputs[o] EXCEPT !.rates = q]
          BY <1>4, <4>1
        <5>2. outputs[o] \in Output /\ 0 \in 0..2
          BY <1>1
        <5>3. [outputs[o] EXCEPT !.rates = q] \in Output
          BY <5>2, OutputFields
        <5> QED
          BY <5>1, <5>3
      <4>2. CASE ~(o \in VideoOutputs /\ outputs[o].made)
        BY <1>1, <1>5, <4>2
      <4> QED
        BY <4>1, <4>2
    <3> QED
      BY <3>1
  <2>2. outputs' = [o \in OutputNames |-> outputs'[o]]
    BY DEF SetTarget, SetMin, SetMax, PassTarget, PassMin, PassMax
  <2> QED
    BY <2>1, <2>2
<1>7. OutputInv'
  <2>1. ASSUME NEW o \in VideoOutputs, outputs'[o].made
        PROVE  Follows(outputs'[o].rates, bitrates') /\ outputs'[o].config = codec_config
    <3>1. outputs[o] \in Output
      BY <1>1 DEF OutputNames
    <3>2. CASE outputs[o].made
      <4>1. PICK q \in Rates : outputs'[o] = [outputs[o] EXCEPT !.rates = q] /\ Follows(q, bitrates')
        BY <1>4, <3>2
      <4>2. /\ [outputs[o] EXCEPT !.rates = q].rates = q
            /\ [outputs[o] EXCEPT !.rates = q].config = outputs[o].config
        BY <3>1, OutputFields
      <4>3. outputs[o].config = codec_config
        BY <3>2 DEF ConfigInv, OutputInv
      <4> QED
        BY <4>1, <4>2, <4>3
    <3>3. CASE ~outputs[o].made
      <4>1. outputs'[o] = outputs[o]
        BY <1>5, <3>3 DEF OutputNames
      <4> QED
        BY <2>1, <3>3, <4>1
    <3> QED
      BY <3>2, <3>3
  <2> QED
    BY <1>2, <2>1 DEF OutputInv, Follows
<1>8. ConfigTypeOK'
  BY <1>2, <1>3, <1>6 DEF ConfigInv, ConfigTypeOK
<1>9. Ordered(bitrates)'
  BY <1>3 DEF Ordered
<1> QED
  BY <1>2, <1>7, <1>8, <1>9, SinksRest DEF ConfigInv

(* The codec configuration is passed on to every output that exists. *)
LEMMA CodecConfigStep ==
  ASSUME ConfigInv, NEW c \in {1, 2}, SetCodecConfig(c)
  PROVE  ConfigInv'
<1>1. /\ outputs \in [OutputNames -> Output] /\ settings \in 0..MaxSettings /\ MaxSettings \in Nat
      /\ c \in 0..2
  BY ConfigNumbers DEF ConfigInv, ConfigTypeOK
<1>2. /\ codec_config' = c /\ outputs' = PassConfig(c) /\ crashed' = NotMadeYet
      /\ UNCHANGED <<bitrates, statsEnabled, sinkPad, sinkPc, statsProbes, sinkPads>>
      /\ settings' \in 0..MaxSettings
  BY <1>1 DEF SetCodecConfig, ConfigStep
<1>3. crashed' \in BOOLEAN
  BY <1>2 DEF NotMadeYet
<1>4. ASSUME NEW o \in OutputNames
      PROVE  /\ outputs'[o] \in Output
             /\ outputs'[o].made => /\ outputs[o].made
                                    /\ outputs'[o].rates = outputs[o].rates
                                    /\ outputs'[o].config = c
  <2>1. outputs[o] \in Output
    BY <1>1
  <2>2. CASE outputs[o].made
    <3>1. outputs'[o] = [outputs[o] EXCEPT !.config = c]
      BY <1>2, <2>2 DEF PassConfig
    <3>2. outputs[o].rates \in Rates
      BY <2>1 DEF Output
    <3>3. /\ [outputs[o] EXCEPT !.config = c] \in Output
          /\ [outputs[o] EXCEPT !.config = c].rates = outputs[o].rates
          /\ [outputs[o] EXCEPT !.config = c].config = c
      <4> DEFINE x == outputs[o]
      <4>1. x \in Output /\ x.rates \in Rates /\ c \in 0..2
        BY <1>1, <2>1, <3>2
      <4> HIDE DEF x
      <4>2. /\ [x EXCEPT !.config = c] \in Output /\ [x EXCEPT !.config = c].rates = x.rates
            /\ [x EXCEPT !.config = c].config = c
        BY <4>1, OutputFields
      <4> QED
        BY <4>2 DEF x
    <3> QED
      BY <2>2, <3>1, <3>3
  <2>3. CASE ~outputs[o].made
    <3>1. outputs'[o] = outputs[o]
      BY <1>2, <2>3 DEF PassConfig
    <3> QED
      BY <2>1, <2>3, <3>1
  <2> QED
    BY <2>2, <2>3
<1>5. outputs' \in [OutputNames -> Output]
  <2>1. outputs' = [o \in OutputNames |-> outputs'[o]]
    BY <1>2 DEF PassConfig
  <2> QED
    BY <1>4, <2>1
<1>6. OutputInv'
  <2>1. ASSUME NEW o \in VideoOutputs, outputs'[o].made
        PROVE  Follows(outputs'[o].rates, bitrates) /\ outputs'[o].config = c
    <3>1. outputs[o].made /\ outputs'[o].rates = outputs[o].rates /\ outputs'[o].config = c
      BY <1>4, <2>1 DEF OutputNames
    <3> QED
      BY <3>1 DEF ConfigInv, OutputInv
  <2> QED
    BY <1>2, <2>1 DEF OutputInv, Follows
<1>7. ConfigTypeOK' /\ Ordered(bitrates)'
  BY <1>1, <1>2, <1>3, <1>5 DEF ConfigInv, ConfigTypeOK, Ordered
<1> QED
  BY <1>2, <1>6, <1>7, SinksRest DEF ConfigInv

(* An output is requested, or its element is made and given the settings. *)
LEMMA OutputSteps ==
  ASSUME ConfigInv, NEW o \in OutputNames, RequestOutput(o) \/ MakeOutput(o)
  PROVE  ConfigInv'
<1>1. /\ outputs \in [OutputNames -> Output] /\ bitrates \in Rates /\ Ordered(bitrates)
      /\ codec_config \in 0..2 /\ outputs[o] \in Output
  BY DEF ConfigInv, ConfigTypeOK
<1>2. UNCHANGED <<bitrates, codec_config, statsEnabled, sinkPad, sinkPc, statsProbes, sinkPads,
                  crashed, settings>>
  BY DEF RequestOutput, MakeOutput
<1>3. \E x \in Output :
         /\ outputs' = [outputs EXCEPT ![o] = x]
         /\ (o \in VideoOutputs /\ x.made) => Follows(x.rates, bitrates) /\ x.config = codec_config
  <2>1. CASE RequestOutput(o)
    <3> DEFINE x == [outputs[o] EXCEPT !.known = TRUE]
    <3>1. outputs[o].rates \in Rates
      BY <1>1 DEF Output
    <3>2. /\ x \in Output /\ x.made = outputs[o].made /\ x.rates = outputs[o].rates
          /\ x.config = outputs[o].config
      BY <1>1, <3>1, OutputFields
    <3>3. outputs' = [outputs EXCEPT ![o] = x]
      BY <2>1 DEF RequestOutput
    <3> HIDE DEF x
    <3>4. (o \in VideoOutputs /\ x.made) => Follows(x.rates, bitrates) /\ x.config = codec_config
      BY <3>2 DEF ConfigInv, OutputInv
    <3> QED
      BY <3>2, <3>3, <3>4
  <2>2. CASE MakeOutput(o)
    <3> DEFINE given == IF o \in VideoOutputs THEN video_output_properties(bitrates, codec_config)
                        ELSE [rates |-> DefaultBitrates, config |-> 0]
               x == [known |-> TRUE, made |-> TRUE, rates |-> given.rates, config |-> given.config]
    <3>1. /\ given.rates \in Rates /\ given.config \in 0..2
          /\ o \in VideoOutputs => Follows(given.rates, bitrates) /\ given.config = codec_config
      <4>1. CASE o \in VideoOutputs
        BY <1>1, <4>1, NewBinFollows
      <4>2. CASE o \notin VideoOutputs
        BY <4>2, ConfigNumbers DEF DefaultBitrates, Rates
      <4> QED
        BY <4>1, <4>2
    <3>2. outputs' = [outputs EXCEPT ![o] = x]
      BY <2>2 DEF MakeOutput
    <3> HIDE DEF given
    <3>3. x \in Output /\ x.rates = given.rates /\ x.config = given.config
      BY <3>1 DEF Output
    <3> HIDE DEF x
    <3> QED
      BY <3>1, <3>2, <3>3
  <2> QED
    BY <2>1, <2>2
<1>4. PICK x \in Output :
         /\ outputs' = [outputs EXCEPT ![o] = x]
         /\ (o \in VideoOutputs /\ x.made) => Follows(x.rates, bitrates) /\ x.config = codec_config
  BY <1>3
<1>5. outputs' \in [OutputNames -> Output] /\ \A y \in OutputNames : outputs'[y] = IF y = o THEN x ELSE outputs[y]
  BY <1>1, <1>4
<1>6. OutputInv'
  <2>1. ASSUME NEW y \in VideoOutputs, outputs'[y].made
        PROVE  Follows(outputs'[y].rates, bitrates) /\ outputs'[y].config = codec_config
    <3>1. y \in OutputNames
      BY DEF OutputNames
    <3>2. CASE y = o
      BY <1>4, <1>5, <2>1, <3>1, <3>2
    <3>3. CASE y # o
      <4>1. outputs'[y] = outputs[y]
        BY <1>5, <3>1, <3>3
      <4> QED
        BY <2>1, <4>1 DEF ConfigInv, OutputInv
    <3> QED
      BY <3>2, <3>3
  <2> QED
    BY <1>2, <2>1 DEF OutputInv, Follows
<1>7. ConfigTypeOK' /\ Ordered(bitrates)'
  BY <1>1, <1>2, <1>5 DEF ConfigInv, ConfigTypeOK, Ordered
<1> QED
  BY <1>2, <1>6, <1>7, SinksRest DEF ConfigInv

(* A sink pad is made with a number no probe has yet. *)
LEMMA AddSinkStep ==
  ASSUME ConfigInv, NEW s \in SinkNames, AddSink(s)
  PROVE  ConfigInv'
<1>1. /\ sinkPad \in [SinkNames -> 0..MaxSinkPads] /\ sinkPads \in [SinkNames -> 0..MaxSinkPads]
      /\ sinkPc \in [SinkNames -> {"rest", "probing", "leaving"}] /\ MaxSinkPads \in Nat
      /\ statsProbes \in SUBSET StatsProbe /\ ProbeInv /\ SinkInv
  BY ConfigNumbers DEF ConfigInv, ConfigTypeOK
<1> DEFINE n == sinkPads[s] + 1
<1>2. /\ n \in 0..MaxSinkPads /\ n # 0 /\ n > sinkPads[s]
      /\ sinkPads' = [sinkPads EXCEPT ![s] = n] /\ sinkPad' = [sinkPad EXCEPT ![s] = n]
      /\ sinkPc' = [sinkPc EXCEPT ![s] = "probing"]
      /\ UNCHANGED <<bitrates, codec_config, outputs, statsEnabled, statsProbes, crashed, settings>>
  BY <1>1 DEF AddSink
<1> HIDE DEF n
<1>3. /\ sinkPad' \in [SinkNames -> 0..MaxSinkPads] /\ sinkPads' \in [SinkNames -> 0..MaxSinkPads]
      /\ sinkPc' \in [SinkNames -> {"rest", "probing", "leaving"}]
      /\ \A u \in SinkNames : /\ sinkPad'[u] = IF u = s THEN n ELSE sinkPad[u]
                              /\ sinkPads'[u] = IF u = s THEN n ELSE sinkPads[u]
                              /\ sinkPc'[u] = IF u = s THEN "probing" ELSE sinkPc[u]
  BY <1>1, <1>2
<1>4. ConfigTypeOK'
  BY <1>2, <1>3 DEF ConfigInv, ConfigTypeOK
<1>5. ProbeInv'
  <2>1. ASSUME NEW p \in statsProbes
        PROVE  p.pad <= sinkPads'[p.sink]
    <3>1. p.sink \in SinkNames /\ p.pad \in 0..MaxSinkPads /\ p.pad <= sinkPads[p.sink]
      BY <1>1 DEF StatsProbe, ProbeInv
    <3>2. sinkPads[p.sink] \in 0..MaxSinkPads
      BY <1>1, <3>1
    <3> QED
      BY <1>2, <1>3, <3>1, <3>2
  <2>2. \A u \in SinkNames : sinkPad'[u] <= sinkPads'[u]
    BY <1>1, <1>2, <1>3 DEF ProbeInv
  <2> QED
    BY <1>2, <2>1, <2>2 DEF ProbeInv
<1>6. SinkInv'
  <2>1. \A u \in SinkNames, k \in 0..MaxSinkPads : Probes(u, k)' = Probes(u, k)
    BY <1>2 DEF Probes
  <2>2. Probes(s, n) = {}
    BY <1>1, <1>2 DEF Probes, ProbeInv, StatsProbe
  <2>3. ASSUME NEW u \in SinkNames
        PROVE  /\ sinkPc'[u] = "probing" => sinkPad'[u] # 0 /\ Probes(u, sinkPad'[u]) = {}
               /\ (sinkPc'[u] = "rest" /\ sinkPad'[u] # 0) =>
                    /\ Probes(u, sinkPad'[u]) # {}
                    /\ \A p \in Probes(u, sinkPad'[u]) : p.latency <=> statsEnabled
    <3>1. CASE u = s
      BY <1>2, <1>3, <2>2, <3>1
    <3>2. CASE u # s
      BY <1>1, <1>3, <3>2 DEF SinkInv
    <3> QED
      BY <3>1, <3>2
  <2> QED
    BY <1>2, <2>3 DEF SinkInv, Probes
<1> QED
  BY <1>2, <1>4, <1>5, <1>6, OutputsRest DEF ConfigInv

(* The probe is entered, or taken out and the pad after it. *)
LEMMA ProbeSteps ==
  ASSUME ConfigInv, NEW s \in SinkNames,
         AddSinkProbe(s) \/ RemoveSinkProbe(s) \/ RemoveSinkPad(s)
  PROVE  ConfigInv'
<1>1. /\ sinkPad \in [SinkNames -> 0..MaxSinkPads] /\ sinkPads \in [SinkNames -> 0..MaxSinkPads]
      /\ sinkPc \in [SinkNames -> {"rest", "probing", "leaving"}] /\ MaxSinkPads \in Nat
      /\ statsProbes \in SUBSET StatsProbe /\ ProbeInv /\ SinkInv /\ statsEnabled \in BOOLEAN
  BY ConfigNumbers DEF ConfigInv, ConfigTypeOK
<1>2. UNCHANGED <<bitrates, codec_config, outputs, statsEnabled, sinkPads, crashed, settings>>
  BY DEF AddSinkProbe, RemoveSinkProbe, RemoveSinkPad
<1>3. CASE AddSinkProbe(s)
  <2> DEFINE r == [sink |-> s, pad |-> sinkPad[s], latency |-> statsEnabled]
  <2>1. /\ sinkPc[s] = "probing" /\ statsProbes' = statsProbes \cup {r}
        /\ sinkPc' = [sinkPc EXCEPT ![s] = "rest"] /\ UNCHANGED sinkPad
    BY <1>3 DEF AddSinkProbe
  <2>2. r \in StatsProbe /\ r.sink = s /\ r.pad = sinkPad[s] /\ (r.latency <=> statsEnabled)
    <3>1. sinkPad[s] \in 0..MaxSinkPads
      BY <1>1
    <3> QED
      BY <1>1, <3>1, Zenon DEF StatsProbe
  <2> HIDE DEF r
  <2>3. /\ sinkPc' \in [SinkNames -> {"rest", "probing", "leaving"}]
        /\ \A u \in SinkNames : sinkPc'[u] = IF u = s THEN "rest" ELSE sinkPc[u]
    BY <1>1, <2>1
  <2>4. ConfigTypeOK'
    <3>1. statsProbes' \in SUBSET StatsProbe
      BY <1>1, <2>1, <2>2
    <3> QED
      BY <1>2, <2>1, <2>3, <3>1 DEF ConfigInv, ConfigTypeOK
  <2>5. ProbeInv'
    BY <1>1, <1>2, <2>1, <2>2 DEF ProbeInv
  <2>6. SinkInv'
    <3>1. Probes(s, sinkPad[s])' = {r}
      BY <1>1, <2>1, <2>2 DEF Probes, SinkInv
    <3>2. \A u \in SinkNames \ {s} : Probes(u, sinkPad[u])' = Probes(u, sinkPad[u])
      BY <2>1, <2>2 DEF Probes
    <3>3. ASSUME NEW u \in SinkNames
          PROVE  /\ sinkPc'[u] = "probing" => sinkPad'[u] # 0 /\ Probes(u, sinkPad[u])' = {}
                 /\ (sinkPc'[u] = "rest" /\ sinkPad'[u] # 0) =>
                      /\ Probes(u, sinkPad[u])' # {}
                      /\ \A p \in Probes(u, sinkPad[u])' : p.latency <=> statsEnabled'
      <4>1. CASE u = s
        BY <1>2, <2>2, <2>3, <3>1, <4>1
      <4>2. CASE u # s
        BY <1>1, <1>2, <2>1, <2>3, <3>2, <4>2 DEF SinkInv
      <4> QED
        BY <4>1, <4>2
    <3> QED
      BY <3>3 DEF SinkInv
  <2> QED
    BY <1>2, <2>4, <2>5, <2>6, OutputsRest DEF ConfigInv
<1>4. CASE RemoveSinkProbe(s)
  <2>1. /\ statsProbes' = {p \in statsProbes : <<p.sink, p.pad>> # <<s, sinkPad[s]>>}
        /\ sinkPc' = [sinkPc EXCEPT ![s] = "leaving"] /\ UNCHANGED sinkPad
    BY <1>4 DEF RemoveSinkProbe
  <2>2. /\ sinkPc' \in [SinkNames -> {"rest", "probing", "leaving"}]
        /\ \A u \in SinkNames : sinkPc'[u] = IF u = s THEN "leaving" ELSE sinkPc[u]
    BY <1>1, <2>1
  <2>3. statsProbes' \subseteq statsProbes
    BY <2>1
  <2>4. ConfigTypeOK'
    BY <1>2, <2>1, <2>2, <2>3 DEF ConfigInv, ConfigTypeOK
  <2>5. ProbeInv'
    BY <1>1, <1>2, <2>1, <2>3 DEF ProbeInv
  <2>6. SinkInv'
    <3>1. \A u \in SinkNames \ {s} : Probes(u, sinkPad[u])' = Probes(u, sinkPad[u])
      BY <2>1 DEF Probes
    <3>2. ASSUME NEW u \in SinkNames
          PROVE  /\ sinkPc'[u] = "probing" => sinkPad'[u] # 0 /\ Probes(u, sinkPad[u])' = {}
                 /\ (sinkPc'[u] = "rest" /\ sinkPad'[u] # 0) =>
                      /\ Probes(u, sinkPad[u])' # {}
                      /\ \A p \in Probes(u, sinkPad[u])' : p.latency <=> statsEnabled'
      <4>1. CASE u = s
        BY <2>2, <4>1
      <4>2. CASE u # s
        BY <1>1, <1>2, <2>1, <2>2, <3>1, <4>2 DEF SinkInv
      <4> QED
        BY <4>1, <4>2
    <3> QED
      BY <3>2 DEF SinkInv
  <2> QED
    BY <1>2, <2>4, <2>5, <2>6, OutputsRest DEF ConfigInv
<1>5. CASE RemoveSinkPad(s)
  <2>1. /\ sinkPad' = [sinkPad EXCEPT ![s] = 0] /\ sinkPc' = [sinkPc EXCEPT ![s] = "rest"]
        /\ UNCHANGED statsProbes
    BY <1>5 DEF RemoveSinkPad
  <2>2. /\ sinkPc' \in [SinkNames -> {"rest", "probing", "leaving"}]
        /\ sinkPad' \in [SinkNames -> 0..MaxSinkPads]
        /\ \A u \in SinkNames : /\ sinkPc'[u] = IF u = s THEN "rest" ELSE sinkPc[u]
                                /\ sinkPad'[u] = IF u = s THEN 0 ELSE sinkPad[u]
    BY <1>1, <2>1
  <2>3. ConfigTypeOK'
    BY <1>2, <2>1, <2>2 DEF ConfigInv, ConfigTypeOK
  <2>4. ProbeInv'
    BY <1>1, <1>2, <2>1, <2>2 DEF ProbeInv
  <2>5. SinkInv'
    <3>1. \A u \in SinkNames, k \in 0..MaxSinkPads : Probes(u, k)' = Probes(u, k)
      BY <2>1 DEF Probes
    <3>2. ASSUME NEW u \in SinkNames
          PROVE  /\ sinkPc'[u] = "probing" => sinkPad'[u] # 0 /\ Probes(u, sinkPad'[u]) = {}
                 /\ (sinkPc'[u] = "rest" /\ sinkPad'[u] # 0) =>
                      /\ Probes(u, sinkPad'[u]) # {}
                      /\ \A p \in Probes(u, sinkPad'[u]) : p.latency <=> statsEnabled'
      <4>1. CASE u = s
        BY <2>2, <4>1
      <4>2. CASE u # s
        BY <1>1, <1>2, <2>2, <4>2 DEF SinkInv
      <4> QED
        BY <4>1, <4>2
    <3> QED
      BY <2>1, <3>2 DEF SinkInv, Probes
  <2> QED
    BY <1>2, <2>3, <2>4, <2>5, OutputsRest DEF ConfigInv
<1> QED
  BY <1>3, <1>4, <1>5

(* A probe with its latency changed. *)
LEMMA ProbeFields ==
  ASSUME NEW p \in StatsProbe, NEW l \in BOOLEAN
  PROVE  /\ [p EXCEPT !.latency = l] \in StatsProbe
         /\ [p EXCEPT !.latency = l].sink = p.sink /\ [p EXCEPT !.latency = l].pad = p.pad
         /\ [p EXCEPT !.latency = l].latency = l
<1>1. [p EXCEPT !.latency = l] \in StatsProbe /\ [p EXCEPT !.latency = l].sink = p.sink
        /\ [p EXCEPT !.latency = l].pad = p.pad
  BY DEF StatsProbe
<1>2. [p EXCEPT !.latency = l].latency = l
  BY Zenon DEF StatsProbe
<1> QED
  BY <1>1, <1>2

(* collect_media_stats goes through the probes that are in the list; a probe entered later
   starts with the setting. *)
LEMMA MediaStatsStep ==
  ASSUME ConfigInv, NEW e \in BOOLEAN, SetMediaStats(e)
  PROVE  ConfigInv'
<1>1. /\ sinkPad \in [SinkNames -> 0..MaxSinkPads] /\ settings \in 0..MaxSettings
      /\ MaxSettings \in Nat /\ statsProbes \in SUBSET StatsProbe /\ ProbeInv /\ SinkInv
  BY ConfigNumbers DEF ConfigInv, ConfigTypeOK
<1>2. /\ statsEnabled' = e /\ statsProbes' = CollectStats(e) /\ settings' \in 0..MaxSettings
      /\ UNCHANGED <<bitrates, codec_config, outputs, sinkPad, sinkPc, sinkPads, crashed>>
  BY <1>1 DEF SetMediaStats, ConfigStep
<1> DEFINE l(p) == e /\ (p.latency \/ sinkPad[p.sink] = p.pad)
           changed(p) == [p EXCEPT !.latency = l(p)]
<1>3. statsProbes' = {changed(p) : p \in statsProbes}
  BY <1>2 DEF CollectStats
<1>4. ASSUME NEW p \in statsProbes
      PROVE  /\ changed(p) \in StatsProbe /\ changed(p).sink = p.sink /\ changed(p).pad = p.pad
             /\ changed(p).latency = l(p)
  <2>1. p \in StatsProbe /\ l(p) \in BOOLEAN
    BY <1>1
  <2> HIDE DEF l
  <2> QED
    BY <2>1, ProbeFields
<1>5. \A p \in statsProbes : p.pad = sinkPad[p.sink] => (l(p) <=> e)
  OBVIOUS
<1> HIDE DEF changed, l
<1>6. ConfigTypeOK'
  <2>1. statsProbes' \in SUBSET StatsProbe
    BY <1>3, <1>4
  <2> QED
    BY <1>2, <2>1 DEF ConfigInv, ConfigTypeOK
<1>7. ProbeInv'
  BY <1>1, <1>2, <1>3, <1>4 DEF ProbeInv
<1>8. SinkInv'
  <2>1. ASSUME NEW u \in SinkNames
        PROVE  /\ sinkPc[u] = "probing" => sinkPad[u] # 0 /\ Probes(u, sinkPad[u])' = {}
               /\ (sinkPc[u] = "rest" /\ sinkPad[u] # 0) =>
                    /\ Probes(u, sinkPad[u])' # {}
                    /\ \A p \in Probes(u, sinkPad[u])' : p.latency <=> e
    <3>1. Probes(u, sinkPad[u])' = {q \in statsProbes' : q.sink = u /\ q.pad = sinkPad[u]}
      BY <1>2 DEF Probes
    <3>2. \A q \in Probes(u, sinkPad[u])' : \E p \in Probes(u, sinkPad[u]) : q = changed(p)
      BY <1>3, <1>4, <3>1 DEF Probes
    <3>3. \A p \in Probes(u, sinkPad[u]) : changed(p) \in Probes(u, sinkPad[u])'
      BY <1>3, <1>4, <3>1 DEF Probes
    <3>4. \A p \in Probes(u, sinkPad[u]) : changed(p).latency <=> e
      BY <1>4, <1>5 DEF Probes
    <3> QED
      BY <1>1, <3>2, <3>3, <3>4 DEF SinkInv
  <2> QED
    BY <1>2, <2>1 DEF SinkInv
<1> QED
  BY <1>2, <1>6, <1>7, <1>8, OutputsRest DEF ConfigInv

(* A new element has its defaults, and no outputs. *)
LEMMA ConfigInvInit ==
  ASSUME ConfigInit
  PROVE  ConfigInv
<1>1. DefaultBitrates \in Rates /\ Ordered(DefaultBitrates)
  BY ConfigNumbers DEF DefaultBitrates, Rates, Ordered
<1>2. [known |-> FALSE, made |-> FALSE, rates |-> DefaultBitrates, config |-> 0] \in Output
  BY <1>1 DEF Output
<1>3. 0 \in 0..MaxSinkPads /\ 0 \in 0..MaxSettings
  BY ConfigNumbers
<1>4. ConfigTypeOK
  <2>1. outputs \in [OutputNames -> Output]
    BY <1>2 DEF ConfigInit
  <2>2. sinkPad \in [SinkNames -> 0..MaxSinkPads] /\ sinkPads \in [SinkNames -> 0..MaxSinkPads]
          /\ sinkPc \in [SinkNames -> {"rest", "probing", "leaving"}]
    BY <1>3 DEF ConfigInit
  <2>3. bitrates \in Rates /\ codec_config \in 0..2 /\ settings \in 0..MaxSettings
          /\ statsProbes \in SUBSET StatsProbe
    BY <1>1, <1>3 DEF ConfigInit
  <2>4. statsEnabled \in BOOLEAN /\ crashed \in BOOLEAN
    BY DEF ConfigInit
  <2> QED
    BY <2>1, <2>2, <2>3, <2>4 DEF ConfigTypeOK
<1>5. OutputInv
  BY DEF ConfigInit, OutputInv, OutputNames
<1>6. ProbeInv /\ SinkInv
  BY DEF ConfigInit, ProbeInv, SinkInv
<1> QED
  BY <1>1, <1>4, <1>5, <1>6 DEF ConfigInv, ConfigInit

(* No setting, output, sink or statistics probe breaks the invariant of the settings. *)
LEMMA ConfigInvStep ==
  ASSUME ConfigInv, [ConfigNext]_configVars
  PROVE  ConfigInv'
<1>1. CASE UNCHANGED configVars
  <2>1. UNCHANGED <<bitrates, codec_config, outputs, statsEnabled, sinkPad, sinkPc, statsProbes,
                    sinkPads, crashed, settings>>
    BY <1>1 DEF configVars
  <2>2. ConfigTypeOK'
    BY <2>1 DEF ConfigInv, ConfigTypeOK
  <2> QED
    BY <2>1, <2>2, OutputsRest, SinksRest DEF ConfigInv
<1>2. CASE ConfigNext
  BY <1>2, SettingStep, CodecConfigStep, OutputSteps, AddSinkStep, ProbeSteps, MediaStatsStep
  DEF ConfigNext
<1> QED
  BY <1>1, <1>2

(* The invariant of the settings holds of every behaviour of the element. *)
LEMMA ConfigInvHolds == ConfigSpec => []ConfigInv
<1>1. ConfigInit => ConfigInv
  BY ConfigInvInit
<1>2. ConfigInv /\ [ConfigNext]_configVars => ConfigInv'
  BY ConfigInvStep
<1> QED
  BY <1>1, <1>2, PTL DEF ConfigSpec

(* The settings, the parts and the probes of an element stay within their types. *)
THEOREM ConfigTypeCorrect == ConfigSpec => []ConfigTypeOK
<1>1. ConfigInv => ConfigTypeOK
  BY DEF ConfigInv
<1> QED
  BY <1>1, ConfigInvHolds, PTL

(* Whatever bitrates are set, in whatever order, before or after an output is made, and whenever
   sinks come and go: video outputs and probes have the settings of the element
   (kms_element_set_property, set_video_output_properties, collect_media_stats). *)
THEOREM PartsAlwaysFollow == ConfigSpec => []PartsFollow
<1>1. ConfigInv => PartsFollow
  <2>1. SUFFICES ASSUME ConfigInv
                 PROVE  PartsFollow
    OBVIOUS
  <2>2. OutputsFollow
    <3>1. ASSUME NEW o \in VideoOutputs, outputs[o].made
          PROVE  outputs[o].rates = [bitrates EXCEPT !.max = IF @ = 0 THEN UNLIMITED ELSE @]
      <4>1. bitrates \in Rates /\ outputs[o].rates \in Rates /\ Follows(outputs[o].rates, bitrates)
        BY <2>1, <3>1 DEF ConfigInv, ConfigTypeOK, OutputInv, Output, OutputNames
      <4> QED
        BY <4>1 DEF Rates, Follows
    <3> QED
      BY <2>1, <3>1 DEF ConfigInv, OutputInv, OutputsFollow
  <2>3. ProbesFollow
    <3>1. ASSUME NEW s \in SinkNames, sinkPad[s] # 0, sinkPc[s] = "rest"
          PROVE  {p.latency : p \in {p \in statsProbes : <<p.sink, p.pad>> = <<s, sinkPad[s]>>}} = {statsEnabled}
      <4>1. {p \in statsProbes : <<p.sink, p.pad>> = <<s, sinkPad[s]>>} = Probes(s, sinkPad[s])
        BY DEF Probes
      <4>2. \A p \in Probes(s, sinkPad[s]) : p.latency = statsEnabled
        <5>1. ASSUME NEW p \in Probes(s, sinkPad[s])
              PROVE  p.latency = statsEnabled
          <6>1. p.latency \in BOOLEAN /\ statsEnabled \in BOOLEAN
            BY <2>1 DEF ConfigInv, ConfigTypeOK, Probes, StatsProbe
          <6>2. p.latency <=> statsEnabled
            BY <2>1, <3>1 DEF ConfigInv, SinkInv
          <6> QED
            BY <6>1, <6>2
        <5> QED
          BY <5>1
      <4>3. Probes(s, sinkPad[s]) # {}
        BY <2>1, <3>1 DEF ConfigInv, SinkInv
      <4>4. {p.latency : p \in Probes(s, sinkPad[s])} = {statsEnabled}
        BY <4>2, <4>3
      <4> QED
        BY <4>1, <4>4
    <3> QED
      BY <3>1 DEF ProbesFollow
  <2> QED
    BY <2>2, <2>3 DEF PartsFollow
<1> QED
  BY <1>1, ConfigInvHolds, PTL

-----------------------------------------------------------------------------
(* The pads of the agnosticbin with many inputs.                           *)

(* What is known of source pad p, its record being pad and its request or its handler at
   step th, when tr are the transcoders and caps the formats of the inputs: a pad that was
   linked and waits is one that the caps of an input are still to come for, and no input fits
   it. *)
PadRight(p, pad, th, tr, caps) ==
  /\ pad.late => pad.linked
  /\ pad.linked => pad.added
  /\ pad.needless => pad.late
  /\ pad.state = "WAITING" => pad.told
  /\ pad.state = "CONFIGURING" => th = "configuring"
  /\ th = "configuring" => pad.state = "CONFIGURING" /\ pad.linked
  /\ th \in {"ask", "add"} => ~pad.linked
  /\ th = "ask" => pad.caps = PeerCaps[p]
  /\ pad.state = "CONFIGURED" => pad.caps = PeerCaps[p]
  /\ (pad.linked /\ ~pad.late /\ pad.state \in {"UNCONFIGURED", "CONFIGURED"}) =>
       /\ pad.told \/ tr = {} \/ Configured(caps) # tr
       /\ \A k \in InPads : caps[k] \notin PeerCaps[p]

PadsRight == \A p \in OutPads : PadRight(p, srcPads[p], outThread[p], transcoders, sinkcaps)

(* The inductive invariant: only requested inputs have a format, and what is known of pads. *)
Bin3Inv == Bin3TypeOK /\ Configured(sinkcaps) \subseteq transcoders /\ PadsRight

(* Every input has its caps just when the numbers agree (get_configured_transcoders). *)
LEMMA AllConfiguredIs ==
  ASSUME Bin3TypeOK, NEW caps, Configured(caps) \subseteq transcoders
  PROVE  AllConfigured(caps) <=> Configured(caps) = transcoders
<1>1. IsFiniteSet(transcoders)
  BY Bin3Assumption, FS_Subset DEF Bin3TypeOK
<1>2. Cardinality(Configured(caps)) = Cardinality(transcoders) => Configured(caps) = transcoders
  BY <1>1, FS_Subset
<1> QED
  BY <1>2 DEF AllConfigured

(* set_transcoder_src_target_pad, field by field. *)
LEMMA TargetedPad ==
  ASSUME NEW pad \in SrcPad3, NEW k \in InPads, NEW caps, NEW wanted, NEW v,
         v = Targeted(pad, k, caps, wanted)
  PROVE  /\ v \in SrcPad3
         /\ v.state = "LINKED" /\ v.target = k /\ v.caps = pad.caps
         /\ v.added <=> pad.added
         /\ v.linked <=> pad.linked
         /\ v.told <=> pad.told
         /\ v.late <=> pad.late
         /\ v.needless <=> (/\ caps[k] \notin wanted /\ AlreadyMaking(wanted) = {}
                            /\ \E j \in InPads : caps[j] \in wanted)
<1> DEFINE needless == caps[k] \notin wanted /\ AlreadyMaking(wanted) = {}
                         /\ \E j \in InPads : caps[j] \in wanted
<1>1. needless \in BOOLEAN
  OBVIOUS
<1>2. v = [pad EXCEPT !.state = "LINKED", !.target = k, !.needless = needless]
  BY DEF Targeted
<1> HIDE DEF needless
<1>3. /\ v \in SrcPad3
      /\ v.state = "LINKED" /\ v.target = k /\ v.caps = pad.caps
      /\ v.added = pad.added /\ v.linked = pad.linked /\ v.told = pad.told /\ v.late = pad.late
      /\ v.needless = needless
  BY <1>1, <1>2 DEF SrcPad3
<1> QED
  BY <1>3 DEF needless

(* What get_compatible_transcoder_tree finds, and what it means that it finds nothing. *)
LEMMA CompatibleIs ==
  ASSUME Bin3TypeOK, Configured(sinkcaps) \subseteq transcoders, NEW wanted \in SUBSET Formats3
  PROVE  /\ \A k \in Compatible(wanted) :
              k \in transcoders /\ (sinkcaps[k] \in wanted \/ AlreadyMaking(wanted) # {})
         /\ Compatible(wanted) = {} => \A k \in InPads : sinkcaps[k] \notin wanted
<1>1. \A k \in InPads : sinkcaps[k] \in wanted => k \in Configured(sinkcaps)
  BY Bin3Assumption DEF Configured
<1>2. \A k \in AlreadyMaking(wanted) : k \in transcoders
  BY DEF AlreadyMaking
<1> DEFINE fits == {k \in InPads : sinkcaps[k] \in wanted}
<1>3. CASE Configured(sinkcaps) = {}
  <2>1. Compatible(wanted) = {}
    BY <1>3 DEF Compatible
  <2> QED
    BY <1>1, <1>3, <2>1
<1>4. CASE Configured(sinkcaps) # {} /\ fits # {}
  <2>1. Compatible(wanted) = fits
    BY <1>4 DEF Compatible
  <2> QED
    BY <1>1, <1>4, <2>1
<1>5. CASE Configured(sinkcaps) # {} /\ fits = {}
  <2>1. Compatible(wanted) = AlreadyMaking(wanted)
    BY <1>5 DEF Compatible
  <2> QED
    BY <1>2, <1>5, <2>1
<1> QED
  BY <1>3, <1>4, <1>5

(* A step of one source pad leaves the others as they are. *)
LEMMA OnePad ==
  ASSUME Bin3Inv, NEW p \in OutPads, NEW v \in SrcPad3, NEW th \in OutSteps,
         UNCHANGED <<transcoders, sinkcaps>>, SetPad3(p, v),
         outThread' = [outThread EXCEPT ![p] = th],
         v.target \in transcoders \cup {NoPad3},
         PadRight(p, v, th, transcoders, sinkcaps)
  PROVE  Bin3Inv'
<1>1. /\ srcPads \in [OutPads -> SrcPad3] /\ outThread \in [OutPads -> OutSteps]
      /\ srcPads' = [srcPads EXCEPT ![p] = v]
  BY DEF Bin3Inv, Bin3TypeOK, SetPad3
<1>2. srcPads' \in [OutPads -> SrcPad3] /\ outThread' \in [OutPads -> OutSteps]
  BY <1>1
<1>3. \A q \in OutPads : srcPads'[q].target \in transcoders \cup {NoPad3}
  BY <1>1 DEF Bin3Inv, Bin3TypeOK
<1>4. Bin3TypeOK' /\ (Configured(sinkcaps) \subseteq transcoders)'
  BY <1>2, <1>3 DEF Bin3Inv, Bin3TypeOK, Configured
<1>5. ASSUME NEW q \in OutPads
      PROVE  PadRight(q, srcPads'[q], outThread'[q], transcoders, sinkcaps)
  <2>1. CASE q = p
    BY <1>1, <2>1
  <2>2. CASE q # p
    <3>1. srcPads'[q] = srcPads[q] /\ outThread'[q] = outThread[q]
      BY <1>1, <2>2
    <3> QED
      BY <3>1 DEF Bin3Inv, PadsRight
  <2> QED
    BY <2>1, <2>2
<1>6. PadsRight'
  BY <1>5 DEF PadsRight, PadRight
<1> QED
  BY <1>4, <1>6 DEF Bin3Inv

(* A pad that is given a target: it was linked and waited for nothing, or the target fits, or
   nothing does. *)
LEMMA GivenTarget ==
  ASSUME Bin3Inv, NEW p \in OutPads, NEW pad \in SrcPad3, NEW k \in transcoders,
         NEW th \in {"none", "add"}, NEW v, v = Targeted(pad, k, sinkcaps, PeerCaps[p]),
         pad.late => pad.linked, pad.linked => pad.added, th = "add" => ~pad.linked,
         \/ sinkcaps[k] \in PeerCaps[p]
         \/ AlreadyMaking(PeerCaps[p]) # {}
         \/ \A j \in InPads : sinkcaps[j] \notin PeerCaps[p]
  PROVE  /\ v \in SrcPad3 /\ th \in OutSteps /\ v.target \in transcoders \cup {NoPad3}
         /\ PadRight(p, v, th, transcoders, sinkcaps)
<1>1. k \in InPads
  BY DEF Bin3Inv, Bin3TypeOK
<1>2. /\ v \in SrcPad3
      /\ v.state = "LINKED" /\ v.target = k /\ v.caps = pad.caps
      /\ v.added <=> pad.added
      /\ v.linked <=> pad.linked
      /\ v.late <=> pad.late
      /\ v.needless <=> (/\ sinkcaps[k] \notin PeerCaps[p] /\ AlreadyMaking(PeerCaps[p]) = {}
                         /\ \E j \in InPads : sinkcaps[j] \in PeerCaps[p])
  BY <1>1, TargetedPad
<1>3. ~v.needless
  BY <1>2
<1> QED
  BY <1>2, <1>3 DEF PadRight, OutSteps

(* Nothing is requested at first. *)
LEMMA Bin3InvInit == Bin3Init => Bin3Inv
<1> SUFFICES ASSUME Bin3Init PROVE Bin3Inv
  OBVIOUS
<1>1. NewSrcPad \in SrcPad3 /\ "none" \in OutSteps
  BY DEF NewSrcPad, SrcPad3, OutSteps
<1>2. \A p \in OutPads : srcPads[p] = NewSrcPad /\ outThread[p] = "none"
  BY DEF Bin3Init
<1>3. Bin3TypeOK
  <2>1. \A p \in OutPads : srcPads[p].target = NoPad3
    BY <1>2 DEF NewSrcPad
  <2> QED
    BY <1>1, <2>1 DEF Bin3Init, Bin3TypeOK
<1>4. Configured(sinkcaps) \subseteq transcoders
  BY DEF Bin3Init, Configured
<1>5. PadsRight
  BY <1>2 DEF PadsRight, PadRight, NewSrcPad
<1> QED
  BY <1>3, <1>4, <1>5 DEF Bin3Inv

(* request_sink_pad: the new input has no caps yet, so no pad is overdue. *)
LEMMA RequestInKeeps ==
  ASSUME Bin3Inv, NEW k \in InPads, RequestIn(k)
  PROVE  Bin3Inv'
<1>1. /\ transcoders' = transcoders \cup {k} /\ k \notin transcoders
      /\ UNCHANGED <<sinkcaps, srcPads, outThread>>
  BY DEF RequestIn
<1>2. Bin3TypeOK'
  BY <1>1 DEF Bin3Inv, Bin3TypeOK
<1>3. Configured(sinkcaps') \subseteq transcoders' /\ Configured(sinkcaps') # transcoders'
  BY <1>1 DEF Bin3Inv, Configured
<1>4. ASSUME NEW p \in OutPads
      PROVE  PadRight(p, srcPads[p], outThread[p], transcoders', sinkcaps')
  BY <1>1, <1>3 DEF Bin3Inv, PadsRight, PadRight
<1>5. PadsRight'
  BY <1>1, <1>4 DEF PadsRight, PadRight
<1> QED
  BY <1>2, <1>3, <1>5 DEF Bin3Inv

(* connect_srcpad_to_encoder, for a pad that waits when the caps of input k come. *)
LEMMA ConnectKeeps ==
  ASSUME Bin3Inv, NEW k \in transcoders, NEW f \in Formats3, NEW caps,
         caps[k] = f, \A j \in InPads \ {k} : caps[j] = sinkcaps[j],
         NEW p \in OutPads, NEW t \in Configured(caps), NEW v, v = link_pending(p, k, caps, t)
  PROVE  /\ v \in SrcPad3 /\ v.target \in transcoders \cup {NoPad3}
         /\ PadRight(p, v, outThread[p], transcoders, caps)
<1> DEFINE pad == srcPads[p]
<1>1. pad \in SrcPad3 /\ pad.target \in transcoders \cup {NoPad3}
  BY DEF Bin3Inv, Bin3TypeOK
<1>2. PadRight(p, pad, outThread[p], transcoders, sinkcaps)
  BY DEF Bin3Inv, PadsRight
<1>3. k \in InPads
  BY DEF Bin3Inv, Bin3TypeOK
<1>4. Configured(caps) \subseteq transcoders
  BY <1>3 DEF Bin3Inv, Configured
<1>5. t \in transcoders /\ t \in InPads
  BY <1>4 DEF Configured
<1>6. PeerCaps[p] \subseteq Formats3
  BY Bin3Assumption
<1>7. pad.state = "CONFIGURED" => pad.caps = PeerCaps[p]
  BY <1>2 DEF PadRight
<1> DEFINE open == pad.added /\ pad.linked /\ pad.state \in {"UNCONFIGURED", "CONFIGURED"}
           fits == caps[k] \in PeerCaps[p]
<1>8. CASE ~open
  <2>1. v = pad
    BY <1>8 DEF link_pending, connect_srcpad
  <2>2. PadRight(p, pad, outThread[p], transcoders, caps)
    BY <1>2, <1>8 DEF PadRight
  <2> QED
    BY <1>1, <2>1, <2>2
<1>9. CASE open /\ fits
  <2>1. v = Targeted(pad, k, caps, PeerCaps[p])
    BY <1>7, <1>9 DEF link_pending, connect_srcpad
  <2> HIDE DEF pad, open, fits
  <2>2. /\ v \in SrcPad3
        /\ v.state = "LINKED" /\ v.target = k /\ v.caps = pad.caps
        /\ v.added <=> pad.added
        /\ v.linked <=> pad.linked
        /\ v.late <=> pad.late
        /\ v.needless <=> (/\ caps[k] \notin PeerCaps[p] /\ AlreadyMaking(PeerCaps[p]) = {}
                           /\ \E j \in InPads : caps[j] \in PeerCaps[p])
    BY <1>1, <1>3, <2>1, TargetedPad
  <2>3. ~v.needless
    BY <1>9, <2>2 DEF fits
  <2>4. outThread[p] \notin {"ask", "add", "configuring"}
    BY <1>2, <1>9 DEF PadRight, open
  <2>5. PadRight(p, v, outThread[p], transcoders, caps)
    BY <1>9, <2>2, <2>3, <2>4 DEF PadRight, open
  <2> QED
    BY <2>2, <2>5
<1>10. CASE open /\ ~fits /\ ~AllConfigured(caps)
  <2>1. v = pad
    BY <1>7, <1>10 DEF link_pending, connect_srcpad
  <2>2. Configured(caps) # transcoders
    BY <1>4, <1>10, AllConfiguredIs DEF Bin3Inv
  <2>3. PadRight(p, pad, outThread[p], transcoders, caps)
    BY <1>2, <1>3, <1>10, <2>2 DEF PadRight
  <2> QED
    BY <1>1, <2>1, <2>3
<1> DEFINE asked == IF pad.state = "CONFIGURED" THEN pad.caps ELSE {}
<1>11. CASE open /\ ~fits /\ AllConfigured(caps) /\ UpstreamSupports(asked)
  <2>1. v = [pad EXCEPT !.told = TRUE]
    BY <1>7, <1>11 DEF link_pending, connect_srcpad
  <2>2. /\ v \in SrcPad3 /\ v.told = TRUE
        /\ v.state = pad.state /\ v.caps = pad.caps /\ v.added = pad.added /\ v.late = pad.late
        /\ v.linked = pad.linked /\ v.needless = pad.needless /\ v.target = pad.target
    BY <1>1, <2>1 DEF SrcPad3
  <2> QED
    BY <1>1, <1>2, <1>3, <1>11, <2>2 DEF PadRight
<1>12. CASE open /\ ~fits /\ AllConfigured(caps) /\ ~UpstreamSupports(asked)
  <2>1. v = Targeted(pad, t, caps, PeerCaps[p])
    BY <1>7, <1>12 DEF link_pending, connect_srcpad
  <2> HIDE DEF pad, open, fits, asked
  <2>2. /\ v \in SrcPad3
        /\ v.state = "LINKED" /\ v.target = t /\ v.caps = pad.caps
        /\ v.added <=> pad.added
        /\ v.linked <=> pad.linked
        /\ v.late <=> pad.late
        /\ v.needless <=> (/\ caps[t] \notin PeerCaps[p] /\ AlreadyMaking(PeerCaps[p]) = {}
                           /\ \E j \in InPads : caps[j] \in PeerCaps[p])
    BY <1>1, <1>5, <2>1, TargetedPad
  <2>3. ~pad.late => \A j \in InPads : caps[j] \notin PeerCaps[p]
    BY <1>2, <1>3, <1>12 DEF PadRight, open, fits
  <2>4. v.needless => v.late
    BY <2>2, <2>3
  <2>5. outThread[p] \notin {"ask", "add", "configuring"}
    BY <1>2, <1>12 DEF PadRight, open
  <2>6. PadRight(p, v, outThread[p], transcoders, caps)
    BY <1>12, <2>2, <2>4, <2>5 DEF PadRight, open
  <2> QED
    BY <1>5, <2>2, <2>6
<1> QED
  BY <1>8, <1>9, <1>10, <1>11, <1>12

(* sink_caps_probe: link_pending_src_pads goes through every source pad. *)
LEMMA CapsEventKeeps ==
  ASSUME Bin3Inv, NEW k \in InPads, NEW f \in Formats3, CapsEvent(k, f)
  PROVE  Bin3Inv'
<1> DEFINE caps == [sinkcaps EXCEPT ![k] = f]
<1>1. /\ k \in transcoders /\ sinkcaps[k] = NoFormat /\ sinkcaps' = caps
      /\ UNCHANGED <<transcoders, outThread>>
  BY DEF CapsEvent
<1>2. PICK turn \in [OutPads -> Configured(caps)] :
        srcPads' = [p \in OutPads |-> link_pending(p, k, caps, turn[p])]
  BY DEF CapsEvent
<1>3. ASSUME NEW p \in OutPads
      PROVE  /\ srcPads'[p] \in SrcPad3 /\ srcPads'[p].target \in transcoders \cup {NoPad3}
             /\ PadRight(p, srcPads'[p], outThread[p], transcoders, caps)
  <2> DEFINE t == turn[p]
             v == srcPads'[p]
  <2>1. v = link_pending(p, k, caps, t) /\ t \in Configured(caps)
    BY <1>2
  <2> HIDE DEF caps, t, v
  <2>2. caps[k] = f /\ \A j \in InPads \ {k} : caps[j] = sinkcaps[j]
    BY DEF caps, Bin3Inv, Bin3TypeOK
  <2>3. /\ v \in SrcPad3 /\ v.target \in transcoders \cup {NoPad3}
        /\ PadRight(p, v, outThread[p], transcoders, caps)
    BY <1>1, <2>1, <2>2, ConnectKeeps
  <2> QED
    BY <2>3 DEF v
<1>4. sinkcaps' \in [InPads -> Formats3 \cup {NoFormat}]
  BY <1>1 DEF Bin3Inv, Bin3TypeOK
<1>5. srcPads' \in [OutPads -> SrcPad3]
  <2>1. \A p \in OutPads : link_pending(p, k, caps, turn[p]) \in SrcPad3
    <3>1. ASSUME NEW p \in OutPads PROVE link_pending(p, k, caps, turn[p]) = srcPads'[p]
      BY <1>2
    <3> QED
      BY <1>3, <3>1
  <2> QED
    BY <1>2, <2>1
<1>6. Bin3TypeOK'
  BY <1>1, <1>3, <1>4, <1>5 DEF Bin3Inv, Bin3TypeOK
<1>7. (Configured(sinkcaps) \subseteq transcoders)'
  BY <1>1 DEF Bin3Inv, Bin3TypeOK, Configured
<1>8. PadsRight'
  BY <1>1, <1>3 DEF PadsRight, PadRight
<1> QED
  BY <1>6, <1>7, <1>8 DEF Bin3Inv

(* What is known of a source pad before a step. *)
LEMMA KnownPad ==
  ASSUME Bin3Inv, NEW p \in OutPads
  PROVE  /\ srcPads[p] \in SrcPad3 /\ srcPads[p].target \in transcoders \cup {NoPad3}
         /\ PadRight(p, srcPads[p], outThread[p], transcoders, sinkcaps)
         /\ PeerCaps[p] \in SUBSET Formats3 /\ outThread[p] \in OutSteps
         /\ outThread = [outThread EXCEPT ![p] = outThread[p]]
BY Bin3Assumption DEF Bin3Inv, Bin3TypeOK, PadsRight

(* create_src_pad_without_caps *)
LEMMA RequestOutKeeps ==
  ASSUME Bin3Inv, NEW p \in OutPads, RequestOut(p)
  PROVE  Bin3Inv'
<1> DEFINE v == [NewSrcPad EXCEPT !.added = TRUE]
<1>1. /\ v \in SrcPad3 /\ v.state = "UNCONFIGURED" /\ v.target = NoPad3
      /\ ~v.linked /\ ~v.late /\ ~v.needless
  BY DEF NewSrcPad, SrcPad3
<1>2. SetPad3(p, v) /\ outThread[p] = "none" /\ UNCHANGED <<transcoders, sinkcaps, outThread>>
  BY DEF RequestOut, At3
<1> HIDE DEF v
<1>3. PadRight(p, v, "none", transcoders, sinkcaps)
  BY <1>1 DEF PadRight
<1>4. outThread' = [outThread EXCEPT ![p] = "none"] /\ "none" \in OutSteps
  BY <1>2, KnownPad DEF OutSteps
<1> QED
  BY <1>1, <1>2, <1>3, <1>4, OnePad

(* create_src_pad_with_caps *)
LEMMA RequestOutWithCapsKeeps ==
  ASSUME Bin3Inv, NEW p \in OutPads, RequestOutWithCaps(p)
  PROVE  Bin3Inv'
<1> DEFINE pad == [NewSrcPad EXCEPT !.caps = PeerCaps[p]]
           fits == Compatible(PeerCaps[p])
<1>0. PeerCaps[p] \in SUBSET Formats3
  BY KnownPad
<1>1. /\ pad \in SrcPad3 /\ pad.state = "UNCONFIGURED" /\ pad.target = NoPad3
      /\ pad.caps = PeerCaps[p] /\ ~pad.linked /\ ~pad.late /\ ~pad.needless
  BY <1>0 DEF NewSrcPad, SrcPad3
<1>2. /\ IF fits # {}
         THEN /\ \E k \in fits : SetPad3(p, Targeted(pad, k, sinkcaps, PeerCaps[p]))
              /\ outThread' = [outThread EXCEPT ![p] = "add"]
         ELSE SetPad3(p, pad) /\ outThread' = [outThread EXCEPT ![p] = "ask"]
      /\ UNCHANGED <<transcoders, sinkcaps>>
  BY DEF RequestOutWithCaps, Go3
<1>3. \A k \in fits : k \in transcoders
        /\ (sinkcaps[k] \in PeerCaps[p] \/ AlreadyMaking(PeerCaps[p]) # {})
  BY <1>0, CompatibleIs DEF Bin3Inv
<1> HIDE DEF pad, fits
<1>4. CASE fits # {}
  <2>1. PICK k \in fits : SetPad3(p, Targeted(pad, k, sinkcaps, PeerCaps[p]))
    BY <1>2, <1>4
  <2> DEFINE v == Targeted(pad, k, sinkcaps, PeerCaps[p])
  <2> HIDE DEF v
  <2>2. /\ v \in SrcPad3 /\ "add" \in OutSteps /\ v.target \in transcoders \cup {NoPad3}
        /\ PadRight(p, v, "add", transcoders, sinkcaps)
    BY <1>1, <1>3, GivenTarget DEF v
  <2> QED
    BY <1>2, <1>4, <2>1, <2>2, OnePad DEF v
<1>5. CASE fits = {}
  <2>1. PadRight(p, pad, "ask", transcoders, sinkcaps) /\ "ask" \in OutSteps
    BY <1>1 DEF PadRight, OutSteps
  <2> QED
    BY <1>1, <1>2, <1>5, <2>1, OnePad
<1> QED
  BY <1>4, <1>5

(* create_src_pad_with_transcodification *)
LEMMA AskUpstreamKeeps ==
  ASSUME Bin3Inv, NEW p \in OutPads, AskUpstream(p)
  PROVE  Bin3Inv'
<1> DEFINE pad == srcPads[p]
           fits == Compatible(PeerCaps[p])
           any == IF fits # {} THEN fits ELSE Configured(sinkcaps)
<1>0. PeerCaps[p] \in SUBSET Formats3 /\ "add" \in OutSteps
  BY KnownPad DEF OutSteps
<1>1. /\ pad \in SrcPad3 /\ PadRight(p, pad, "ask", transcoders, sinkcaps)
      /\ pad.target \in transcoders \cup {NoPad3}
  BY KnownPad DEF AskUpstream, At3
<1>2. pad.caps = PeerCaps[p] /\ ~pad.linked /\ ~pad.late /\ ~pad.needless
  BY <1>1 DEF PadRight
<1>3. /\ \/ SetPad3(p, [pad EXCEPT !.state = "WAITING", !.told = TRUE])
         \/ \E k \in any : SetPad3(p, Targeted(pad, k, sinkcaps, PeerCaps[p]))
         \/ SetPad3(p, [pad EXCEPT !.state = "CONFIGURED"])
      /\ outThread' = [outThread EXCEPT ![p] = "add"]
      /\ UNCHANGED <<transcoders, sinkcaps>>
  BY <1>2 DEF AskUpstream, Go3
<1>4. \A k \in any : /\ k \in transcoders
                     /\ \/ sinkcaps[k] \in PeerCaps[p] \/ AlreadyMaking(PeerCaps[p]) # {}
                        \/ \A j \in InPads : sinkcaps[j] \notin PeerCaps[p]
  <2>1. /\ \A k \in fits : k \in transcoders
             /\ (sinkcaps[k] \in PeerCaps[p] \/ AlreadyMaking(PeerCaps[p]) # {})
        /\ fits = {} => \A k \in InPads : sinkcaps[k] \notin PeerCaps[p]
    BY <1>0, CompatibleIs DEF Bin3Inv
  <2>2. Configured(sinkcaps) \subseteq transcoders
    BY DEF Bin3Inv
  <2> HIDE DEF fits
  <2> QED
    BY <2>1, <2>2
<1> HIDE DEF pad, any
<1>5. CASE SetPad3(p, [pad EXCEPT !.state = "WAITING", !.told = TRUE])
  <2> DEFINE v == [pad EXCEPT !.state = "WAITING", !.told = TRUE]
  <2>1. /\ v \in SrcPad3 /\ v.state = "WAITING" /\ v.told = TRUE /\ v.target = pad.target
        /\ v.linked = pad.linked /\ v.late = pad.late /\ v.needless = pad.needless
    BY <1>1 DEF SrcPad3
  <2> HIDE DEF v
  <2>2. PadRight(p, v, "add", transcoders, sinkcaps)
    BY <1>2, <2>1 DEF PadRight
  <2> QED
    BY <1>0, <1>1, <1>3, <1>5, <2>1, <2>2, OnePad DEF v
<1>6. CASE \E k \in any : SetPad3(p, Targeted(pad, k, sinkcaps, PeerCaps[p]))
  <2>1. PICK k \in any : SetPad3(p, Targeted(pad, k, sinkcaps, PeerCaps[p]))
    BY <1>6
  <2> DEFINE v == Targeted(pad, k, sinkcaps, PeerCaps[p])
  <2> HIDE DEF v
  <2>2. /\ v \in SrcPad3 /\ v.target \in transcoders \cup {NoPad3}
        /\ PadRight(p, v, "add", transcoders, sinkcaps)
    BY <1>1, <1>2, <1>4, GivenTarget DEF v
  <2> QED
    BY <1>0, <1>3, <2>1, <2>2, OnePad DEF v
<1>7. CASE SetPad3(p, [pad EXCEPT !.state = "CONFIGURED"])
  <2> DEFINE v == [pad EXCEPT !.state = "CONFIGURED"]
  <2>1. /\ v \in SrcPad3 /\ v.state = "CONFIGURED" /\ v.target = pad.target
        /\ v.caps = pad.caps
        /\ v.linked = pad.linked /\ v.late = pad.late /\ v.needless = pad.needless
    BY <1>1 DEF SrcPad3
  <2> HIDE DEF v
  <2>2. PadRight(p, v, "add", transcoders, sinkcaps)
    BY <1>2, <2>1 DEF PadRight
  <2> QED
    BY <1>0, <1>1, <1>3, <1>7, <2>1, <2>2, OnePad DEF v
<1> QED
  BY <1>3, <1>5, <1>6, <1>7

(* append_pending_src_pad *)
LEMMA AddOutKeeps ==
  ASSUME Bin3Inv, NEW p \in OutPads, AddOut(p)
  PROVE  Bin3Inv'
<1> DEFINE pad == srcPads[p]
           v == [pad EXCEPT !.added = TRUE]
<1>1. /\ pad \in SrcPad3 /\ PadRight(p, pad, "add", transcoders, sinkcaps)
      /\ pad.target \in transcoders \cup {NoPad3}
  BY KnownPad DEF AddOut, At3
<1>2. /\ SetPad3(p, v) /\ outThread' = [outThread EXCEPT ![p] = "none"]
      /\ UNCHANGED <<transcoders, sinkcaps>>
  BY DEF AddOut, Go3
<1> HIDE DEF pad
<1>3. /\ v \in SrcPad3 /\ v.state = pad.state /\ v.target = pad.target /\ v.told = pad.told
      /\ v.caps = pad.caps
      /\ v.linked = pad.linked /\ v.late = pad.late /\ v.needless = pad.needless
  BY <1>1 DEF SrcPad3
<1> HIDE DEF v
<1>4. PadRight(p, v, "none", transcoders, sinkcaps) /\ "none" \in OutSteps
  BY <1>1, <1>3 DEF PadRight, OutSteps
<1> QED
  BY <1>1, <1>2, <1>3, <1>4, OnePad

(* src_pad_linked, its first part: a pad that waits for its caps is linked in time if no input
   has its caps. *)
LEMMA LinkOutKeeps ==
  ASSUME Bin3Inv, NEW p \in OutPads, LinkOut(p)
  PROVE  Bin3Inv'
<1> DEFINE pad == [srcPads[p] EXCEPT !.linked = TRUE]
           late == pad.state = "CONFIGURED" /\ Configured(sinkcaps) # {}
<1>1. /\ srcPads[p] \in SrcPad3 /\ PadRight(p, srcPads[p], "none", transcoders, sinkcaps)
      /\ srcPads[p].target \in transcoders \cup {NoPad3}
      /\ outThread = [outThread EXCEPT ![p] = "none"]
      /\ "none" \in OutSteps /\ "configuring" \in OutSteps
  BY KnownPad DEF LinkOut, At3, OutSteps
<1>2. srcPads[p].added /\ ~srcPads[p].linked
  BY DEF LinkOut
<1>3. ~srcPads[p].late /\ ~srcPads[p].needless /\ srcPads[p].state # "CONFIGURING"
  BY <1>1, <1>2 DEF PadRight
<1>4. /\ \/ /\ pad.state # "UNCONFIGURED"
            /\ SetPad3(p, [pad EXCEPT !.late = late])
            /\ UNCHANGED outThread
         \/ /\ SetPad3(p, [pad EXCEPT !.state = "CONFIGURING"])
            /\ outThread' = [outThread EXCEPT ![p] = "configuring"]
      /\ UNCHANGED <<transcoders, sinkcaps>>
  BY DEF LinkOut, Go3
<1>5. /\ pad \in SrcPad3 /\ pad.state = srcPads[p].state /\ pad.target = srcPads[p].target
      /\ pad.told = srcPads[p].told /\ pad.caps = srcPads[p].caps
      /\ pad.added = srcPads[p].added /\ pad.linked = TRUE
      /\ pad.late = srcPads[p].late /\ pad.needless = srcPads[p].needless
  BY <1>1 DEF SrcPad3
<1>6. late \in BOOLEAN
  OBVIOUS
<1>7. late <=> (srcPads[p].state = "CONFIGURED" /\ Configured(sinkcaps) # {})
  BY <1>5
<1> HIDE DEF pad, late
<1>8. CASE /\ pad.state # "UNCONFIGURED" /\ SetPad3(p, [pad EXCEPT !.late = late])
           /\ UNCHANGED outThread
  <2> DEFINE v == [pad EXCEPT !.late = late]
  <2>1. /\ v \in SrcPad3 /\ v.state = pad.state /\ v.target = pad.target
        /\ v.told = pad.told /\ v.caps = pad.caps /\ v.added = pad.added
        /\ v.linked = pad.linked /\ v.late = late /\ v.needless = pad.needless
    BY <1>5, <1>6 DEF SrcPad3
  <2> HIDE DEF v
  <2>2. ASSUME v.state = "CONFIGURED", ~v.late
        PROVE  /\ transcoders = {} \/ Configured(sinkcaps) # transcoders
               /\ \A k \in InPads : sinkcaps[k] \notin PeerCaps[p]
    <3>1. Configured(sinkcaps) = {}
      BY <1>5, <1>7, <2>1, <2>2
    <3> QED
      BY <3>1, KnownPad, Bin3Assumption DEF Configured
  <2>3. v.linked /\ v.added /\ ~v.needless /\ v.state \notin {"CONFIGURING", "UNCONFIGURED"}
    BY <1>2, <1>3, <1>5, <1>8, <2>1
  <2>4. /\ v.state = "WAITING" => v.told
        /\ v.state = "CONFIGURED" => v.caps = PeerCaps[p]
    BY <1>1, <1>5, <2>1 DEF PadRight
  <2>5. PadRight(p, v, "none", transcoders, sinkcaps)
    BY <2>2, <2>3, <2>4 DEF PadRight
  <2>6. SetPad3(p, v) /\ outThread' = [outThread EXCEPT ![p] = "none"]
    BY <1>1, <1>8 DEF v
  <2>7. v \in SrcPad3 /\ v.target \in transcoders \cup {NoPad3}
    BY <1>1, <1>5, <2>1
  <2>8. UNCHANGED <<transcoders, sinkcaps>> /\ "none" \in OutSteps
    BY <1>1, <1>4
  <2> QED
    BY <2>5, <2>6, <2>7, <2>8, OnePad
<1>9. CASE /\ SetPad3(p, [pad EXCEPT !.state = "CONFIGURING"])
           /\ outThread' = [outThread EXCEPT ![p] = "configuring"]
  <2> DEFINE v == [pad EXCEPT !.state = "CONFIGURING"]
  <2>1. /\ v \in SrcPad3 /\ v.state = "CONFIGURING" /\ v.target = pad.target
        /\ v.told = pad.told /\ v.caps = pad.caps /\ v.added = pad.added
        /\ v.linked = pad.linked /\ v.late = pad.late /\ v.needless = pad.needless
    BY <1>5 DEF SrcPad3
  <2> HIDE DEF v
  <2>2. v.linked /\ v.added /\ ~v.needless /\ ~v.late
    BY <1>2, <1>3, <1>5, <2>1
  <2>3. PadRight(p, v, "configuring", transcoders, sinkcaps)
    BY <2>1, <2>2 DEF PadRight
  <2> QED
    BY <1>1, <1>4, <1>5, <1>9, <2>1, <2>3, OnePad DEF v
<1> QED
  BY <1>4, <1>8, <1>9

(* src_pad_linked under the mutex *)
LEMMA EndLinkOutKeeps ==
  ASSUME Bin3Inv, NEW p \in OutPads, EndLinkOut(p)
  PROVE  Bin3Inv'
<1> DEFINE pad == srcPads[p]
           fits == Compatible(PeerCaps[p])
           wait == [pad EXCEPT !.state = "UNCONFIGURED"]
           waiting == [pad EXCEPT !.state = "WAITING", !.told = TRUE]
<1>1. /\ pad \in SrcPad3 /\ PadRight(p, pad, "configuring", transcoders, sinkcaps)
      /\ pad.target \in transcoders \cup {NoPad3}
      /\ PeerCaps[p] \in SUBSET Formats3 /\ "none" \in OutSteps
  BY KnownPad DEF EndLinkOut, At3, OutSteps
<1>2. pad.linked /\ pad.added /\ (pad.needless => pad.late)
  BY <1>1 DEF PadRight
<1>3. /\ \/ transcoders = {} /\ SetPad3(p, wait)
         \/ \E k \in fits : SetPad3(p, Targeted(pad, k, sinkcaps, PeerCaps[p]))
         \/ transcoders # {} /\ fits = {} /\ ~AllConfigured(sinkcaps) /\ SetPad3(p, wait)
         \/ SetPad3(p, waiting)
         \/ fits = {} /\ \E k \in Configured(sinkcaps) :
                            SetPad3(p, Targeted(pad, k, sinkcaps, PeerCaps[p]))
      /\ outThread' = [outThread EXCEPT ![p] = "none"]
      /\ UNCHANGED <<transcoders, sinkcaps>>
  BY DEF EndLinkOut, Go3, PendingState
<1>4. /\ \A k \in fits : k \in transcoders
           /\ (sinkcaps[k] \in PeerCaps[p] \/ AlreadyMaking(PeerCaps[p]) # {})
      /\ fits = {} => \A k \in InPads : sinkcaps[k] \notin PeerCaps[p]
  BY <1>1, CompatibleIs DEF Bin3Inv
<1>5. Configured(sinkcaps) \subseteq transcoders
  BY DEF Bin3Inv
<1> HIDE DEF pad, fits
<1>6. CASE /\ SetPad3(p, wait)
           /\ transcoders = {} \/ (fits = {} /\ ~AllConfigured(sinkcaps))
  <2>1. /\ transcoders = {} \/ Configured(sinkcaps) # transcoders
        /\ \A k \in InPads : sinkcaps[k] \notin PeerCaps[p]
    <3>1. CASE transcoders = {}
      BY <1>1, <1>5, <3>1, Bin3Assumption DEF Configured
    <3>2. CASE fits = {} /\ ~AllConfigured(sinkcaps)
      BY <1>4, <1>5, <3>2, AllConfiguredIs DEF Bin3Inv
    <3> QED
      BY <1>6, <3>1, <3>2
  <2>2. /\ wait \in SrcPad3 /\ wait.state = "UNCONFIGURED" /\ wait.target = pad.target
        /\ wait.linked = pad.linked /\ wait.added = pad.added /\ wait.late = pad.late
        /\ wait.needless = pad.needless
    BY <1>1 DEF SrcPad3
  <2> HIDE DEF wait
  <2>3. PadRight(p, wait, "none", transcoders, sinkcaps)
    BY <1>2, <2>1, <2>2 DEF PadRight
  <2> QED
    BY <1>1, <1>3, <1>6, <2>2, <2>3, OnePad
<1>7. CASE SetPad3(p, waiting)
  <2>1. /\ waiting \in SrcPad3 /\ waiting.state = "WAITING" /\ waiting.target = pad.target
        /\ waiting.linked = pad.linked /\ waiting.added = pad.added /\ waiting.late = pad.late
        /\ waiting.needless = pad.needless /\ waiting.told = TRUE
    BY <1>1 DEF SrcPad3
  <2> HIDE DEF waiting
  <2>2. PadRight(p, waiting, "none", transcoders, sinkcaps)
    BY <1>2, <2>1 DEF PadRight
  <2> QED
    BY <1>1, <1>3, <1>7, <2>1, <2>2, OnePad
<1>8. ASSUME NEW k \in transcoders, SetPad3(p, Targeted(pad, k, sinkcaps, PeerCaps[p])),
             \/ sinkcaps[k] \in PeerCaps[p]
             \/ AlreadyMaking(PeerCaps[p]) # {}
             \/ \A j \in InPads : sinkcaps[j] \notin PeerCaps[p]
      PROVE  Bin3Inv'
  <2> DEFINE v == Targeted(pad, k, sinkcaps, PeerCaps[p])
  <2> HIDE DEF v
  <2>1. /\ v \in SrcPad3 /\ v.target \in transcoders \cup {NoPad3}
        /\ PadRight(p, v, "none", transcoders, sinkcaps)
    BY <1>1, <1>2, <1>8, GivenTarget DEF v
  <2> QED
    BY <1>1, <1>3, <1>8, <2>1, OnePad DEF v
<1>9. CASE \E k \in fits : SetPad3(p, Targeted(pad, k, sinkcaps, PeerCaps[p]))
  BY <1>4, <1>8, <1>9
<1>10. CASE fits = {} /\ \E k \in Configured(sinkcaps) :
                            SetPad3(p, Targeted(pad, k, sinkcaps, PeerCaps[p]))
  BY <1>4, <1>5, <1>8, <1>10
<1> QED
  BY <1>3, <1>6, <1>7, <1>9, <1>10

(* Media flows through the pad: only what it carries changes. *)
LEMMA OutFlowsKeeps ==
  ASSUME Bin3Inv, NEW p \in OutPads, OutFlows(p)
  PROVE  Bin3Inv'
<1> DEFINE pad == srcPads[p]
<1>1. /\ pad \in SrcPad3 /\ PadRight(p, pad, outThread[p], transcoders, sinkcaps)
      /\ pad.target \in transcoders \cup {NoPad3} /\ outThread[p] \in OutSteps
      /\ outThread = [outThread EXCEPT ![p] = outThread[p]]
  BY KnownPad
<1>2. PICK f \in PeerCaps[p] : SetPad3(p, [pad EXCEPT !.carries = f])
  BY DEF OutFlows
<1>3. f \in Formats3 /\ UNCHANGED <<transcoders, sinkcaps, outThread>>
  BY <1>2, KnownPad DEF OutFlows
<1> DEFINE v == [pad EXCEPT !.carries = f]
<1> HIDE DEF pad
<1>4. /\ v \in SrcPad3 /\ v.state = pad.state /\ v.target = pad.target /\ v.told = pad.told
      /\ v.caps = pad.caps /\ v.added = pad.added
      /\ v.linked = pad.linked /\ v.late = pad.late /\ v.needless = pad.needless
  BY <1>1, <1>3 DEF SrcPad3
<1> HIDE DEF v
<1>5. PadRight(p, v, outThread[p], transcoders, sinkcaps)
  BY <1>1, <1>4 DEF PadRight
<1> QED
  BY <1>1, <1>2, <1>3, <1>4, <1>5, OnePad DEF v

(* No step of the agnosticbin with many inputs breaks the invariant. *)
LEMMA Bin3InvStep == Bin3Inv /\ [Bin3Next]_bin3Vars => Bin3Inv'
<1> SUFFICES ASSUME Bin3Inv, [Bin3Next]_bin3Vars PROVE Bin3Inv'
  OBVIOUS
<1>1. CASE \E k \in InPads : RequestIn(k) \/ \E f \in Formats3 : CapsEvent(k, f)
  BY <1>1, RequestInKeeps, CapsEventKeeps
<1>2. CASE \E p \in OutPads : RequestSrc(p) \/ AskUpstream(p) \/ AddOut(p)
  BY <1>2, RequestOutKeeps, RequestOutWithCapsKeeps, AskUpstreamKeeps, AddOutKeeps DEF RequestSrc
<1>3. CASE \E p \in OutPads : LinkOut(p) \/ EndLinkOut(p) \/ OutFlows(p)
  BY <1>3, LinkOutKeeps, EndLinkOutKeeps, OutFlowsKeeps
<1>4. CASE UNCHANGED bin3Vars
  BY <1>4 DEF bin3Vars, Bin3Inv, Bin3TypeOK, Configured, PadsRight, PadRight
<1> QED
  BY <1>1, <1>2, <1>3, <1>4 DEF Bin3Next

(* The variables of the agnosticbin with many inputs keep their types: the target of a pad is
   the transcoder of an input that was requested. *)
THEOREM Bin3TypeCorrect == Bin3Spec => []Bin3TypeOK
<1>1. Bin3Inv => Bin3TypeOK
  BY DEF Bin3Inv
<1> QED
  BY <1>1, Bin3InvInit, Bin3InvStep, PTL DEF Bin3Spec

(* kms_agnostic_bin3's pads are not forgotten: once every input has its caps, a linked source
   pad is served, or upstream was told of its format, and by an input that fits if there is
   one.  The order of requests, links and caps is any but one: a pad requested with caps that
   is linked after the inputs had their caps (`late`) is looked at by nobody again. *)
THEOREM EveryPadAlwaysServed == Bin3Spec => []EveryPadServed
<1>1. Bin3Inv => EveryPadServed
  <2> SUFFICES ASSUME Bin3Inv, NEW p \in OutPads,
                      srcPads[p].linked, outThread[p] = "none", ~srcPads[p].late
               PROVE  /\ (transcoders # {} /\ Configured(sinkcaps) = transcoders /\ ~srcPads[p].told)
                           => srcPads[p].state = "LINKED"
                      /\ ~srcPads[p].needless
    BY DEF EveryPadServed, At3
  <2>1. srcPads[p].state \in {"UNCONFIGURED", "CONFIGURING", "CONFIGURED", "WAITING", "LINKED"}
    BY KnownPad DEF SrcPad3
  <2>2. PadRight(p, srcPads[p], "none", transcoders, sinkcaps)
    BY KnownPad
  <2> QED
    BY <2>1, <2>2 DEF PadRight
<1> QED
  BY <1>1, Bin3InvInit, Bin3InvStep, PTL DEF Bin3Spec

-----------------------------------------------------------------------------
(* The tree of bins of the agnosticbin.                                    *)

(* A payloader below nothing. *)
Dangling(x) == x.kind = "pay" /\ x.from = NoBin

(* The state of the element as it is while pads are linked, and what is found in it. *)
Held == [tree : Seq(Bin), bins : SUBSET Nat, told : {"nothing", "active", "inactive"},
         src : Inputs \cup {NoCaps}, target : [Pads -> Nat], got : [Pads -> BOOLEAN]]
Whole(s) ==
  /\ s \in Held /\ s.bins \subseteq 1..Len(s.tree)
  /\ \A p \in Pads : s.target[p] \in 0..Len(s.tree)

(* The bins of the table hang below the input bin. *)
Hangs(x, b, table) == x.kind # "parse" /\ (Dangling(x) \/ (x.from \in table /\ x.from < b))
Rooted(s) ==
  /\ inputBin \in s.bins /\ s.tree[inputBin].kind = "parse"
  /\ \A b \in s.bins : b = inputBin \/ Hangs(s.tree[b], b, s.bins)

(* Every encoded format has a decoder, and what a payloader takes an encoder. *)
Plugins == Decodable = Encoded /\ \A r \in Payloadable : PayloadOf[r] \in Encodable

(* Bin x gets what it takes and gives what can be made of the input. *)
Fits(s, x) ==
  IF Dangling(x) THEN x.gives \in Rtp /\ ~Plugins
  ELSE s.tree[x.from].gives = x.takes /\ CanGive(inputCaps, x.gives)

(* What holds as long as the input is what the input bin was made for. *)
Pure(s) ==
  /\ s.src = inputCaps /\ s.tree[inputBin].gives = inputCaps
  /\ \A b \in s.bins : b = inputBin \/ Fits(s, s.tree[b])
  /\ \A a, b \in s.bins : s.tree[a].gives = s.tree[b].gives => a = b

Steady == inputBin # NoBin /\ ~mixed /\ tree[inputBin].takes = inputCaps

(* The input bin and the input. *)
InputInv ==
  /\ inputBin # NoBin \/ ~Idle => inputCaps # NoCaps
  /\ inputBin # NoBin => tree[inputBin].kind = "parse"
  /\ inputBin # NoBin /\ ~mixed => tree[inputBin].takes = IF Idle THEN inputCaps ELSE probe[1]
  /\ started => Rooted(Now)
  /\ ~started => bins = {}
  /\ Steady => tree[inputBin].gives = inputCaps
  /\ Steady /\ started => Pure(Now)

(* A pad, and the bin at which it hangs. *)
PadInv(p) ==
  /\ unlinking[p] => peer[p] = NoPeer
  /\ ~Linked(p) /\ ~unlinking[p] => target[p] = NoBin
  /\ Linked(p) => on[p] \/ pending[p]
  /\ started /\ Linked(p) => target[p] \in bins \cup {NoBin}
  /\ ~started => target[p] = NoBin \/ target[p] # inputBin
  /\ got[p] => target[p] # NoBin /\ cur[p] = tree[target[p]].gives
  /\ Steady /\ started /\ Linked(p) /\ ~pending[p] =>
       /\ target[p] = NoBin => ~CanGive(inputCaps, peer[p])
       /\ got[p] => Accepts(peer[p], tree[target[p]].gives)
PadsInv == \A p \in Pads : PadInv(p)

BinInv == TypeOK /\ InputInv /\ PadsInv

(* A set of natural numbers that is not empty has a least element: loops are proved right
   by looking at the first turn that would go wrong. *)
LEMMA Least ==
  ASSUME NEW T \in SUBSET Nat, T # {}
  PROVE  \E x \in T : \A y \in T : x <= y
<1>1. \E x \in T : \A y \in T : ~(<<y, x>> \in OpToRel(<, Nat))
  BY NatLessThanWellFounded, WFMin, Zenon
<1>2. \E x \in T : \A y \in T : ~(y < x)
  BY <1>1 DEF OpToRel
<1> QED
  BY <1>2

-----------------------------------------------------------------------------
(* The search for a bin.                                                   *)

(* What t has in addition to s are bins. *)
MoreBins(t, s) ==
  /\ Len(s.tree) <= Len(t.tree) /\ \A b \in 1..Len(s.tree) : t.tree[b] = s.tree[b]
  /\ s.bins \subseteq t.bins /\ t.src = s.src
More(t, s) == MoreBins(t, s) /\ t.target = s.target /\ t.got = s.got

(* A search leaves things as they should be. *)
Good(r, s) ==
  /\ Whole(r.s) /\ Rooted(r.s) /\ More(r.s, s)
  /\ r.bin \in r.s.bins \cup {NoBin}
  /\ Pure(s) => Pure(r.s)

(* No bin of the table gives c. *)
Missing(s, c) == \A b \in s.bins : s.tree[b].gives # c

(* Formats. *)
LEMMA FormatFacts ==
  /\ Raw \notin Encoded /\ Raw \notin Rtp /\ Any \notin Inputs /\ Any \notin Rtp
  /\ NoCaps \notin Inputs /\ NoCaps \notin Rtp /\ NoCaps # Any
  /\ Raw \in Inputs /\ Encoded \subseteq Inputs /\ Inputs \cap Rtp = {}
  /\ \A c \in Rtp : PayloadOf[c] \in Encoded
  /\ Parsed \subseteq Encoded /\ Decodable \subseteq Encoded /\ Encodable \subseteq Encoded
  /\ Payloadable \subseteq Rtp
  /\ NoPeer \notin Wants /\ NoPad \notin Wants /\ NoPeer # NoPad
  /\ Wants = Inputs \cup Rtp \cup {Any}
BY FormatsAssumption DEF Raw, Any, NoCaps, NoPeer, NoPad, Inputs, Wants

(* The parts of the state. *)
LEMMA WholeParts ==
  ASSUME NEW s, Whole(s)
  PROVE  /\ s.tree \in Seq(Bin) /\ Len(s.tree) \in Nat
         /\ \A b \in 1..Len(s.tree) : s.tree[b] \in Bin
         /\ s.bins \subseteq 1..Len(s.tree)
         /\ s.target \in [Pads -> Nat] /\ s.got \in [Pads -> BOOLEAN]
         /\ \A p \in Pads : s.target[p] \in 0..Len(s.tree)
         /\ s.told \in {"nothing", "active", "inactive"} /\ s.src \in Inputs \cup {NoCaps}
<1>1. /\ s.tree \in Seq(Bin) /\ s.bins \subseteq 1..Len(s.tree)
      /\ s.target \in [Pads -> Nat] /\ s.got \in [Pads -> BOOLEAN]
      /\ \A p \in Pads : s.target[p] \in 0..Len(s.tree)
      /\ s.told \in {"nothing", "active", "inactive"} /\ s.src \in Inputs \cup {NoCaps}
  BY DEF Whole, Held
<1> QED
  BY <1>1, LenProperties, ElementOfSeq

(* More of more is more. *)
LEMMA MoreMore ==
  ASSUME NEW s, Whole(s), NEW t, Whole(t), NEW u, Whole(u), MoreBins(t, s), MoreBins(u, t)
  PROVE  MoreBins(u, s)
<1>1. Len(s.tree) \in Nat /\ Len(t.tree) \in Nat /\ Len(u.tree) \in Nat
  BY WholeParts
<1> QED
  BY <1>1 DEF MoreBins

(* What depends on the bins alone. *)
LEMMA SameBins ==
  ASSUME NEW s, NEW t, t.tree = s.tree, t.bins = s.bins, t.src = s.src
  PROVE  /\ Rooted(t) <=> Rooted(s)
         /\ Pure(t) <=> Pure(s)
BY DEF Rooted, Pure, Fits

(* media-transcoding. *)
LEMMA TellRight ==
  ASSUME NEW s, Whole(s), NEW what \in {"active", "inactive"}
  PROVE  LET t == Tell(s, what)
         IN  /\ Whole(t) /\ t.tree = s.tree /\ t.bins = s.bins /\ t.src = s.src
             /\ t.target = s.target /\ t.got = s.got
<1> DEFINE t == Tell(s, what)
<1>1. s \in Held
  BY DEF Whole
<1>2. t = s \/ t = [s EXCEPT !.told = what]
  BY DEF Tell
<1>3. /\ t \in Held /\ t.tree = s.tree /\ t.bins = s.bins /\ t.src = s.src
      /\ t.target = s.target /\ t.got = s.got
  <2> HIDE DEF t
  <2> QED
    BY <1>1, <1>2 DEF Held
<1> HIDE DEF t
<1>4. Whole(t)
  BY <1>3 DEF Whole
<1> QED
  BY <1>3, <1>4 DEF t

(* A bin is put into the table. *)
LEMMA InsertRight ==
  ASSUME NEW s, Whole(s), Rooted(s), NEW x \in Bin, x.kind # "parse",
         Dangling(x) \/ x.from \in s.bins
  PROVE  LET r == Insert(s, x)
         IN  /\ Whole(r.s) /\ Rooted(r.s) /\ More(r.s, s)
             /\ r.bin \notin s.bins /\ r.bin # NoBin
             /\ r.s.bins = s.bins \cup {r.bin} /\ r.s.tree[r.bin] = x
<1> DEFINE n == Len(s.tree) + 1
           tr == Append(s.tree, x)
           t == [s EXCEPT !.tree = tr, !.bins = s.bins \cup {n}]
<1>1. /\ Len(s.tree) \in Nat /\ s.tree \in Seq(Bin) /\ s.bins \subseteq 1..Len(s.tree)
      /\ s.target \in [Pads -> Nat] /\ \A p \in Pads : s.target[p] \in 0..Len(s.tree)
      /\ s \in Held
  BY WholeParts DEF Whole
<1>2. /\ tr \in Seq(Bin) /\ Len(tr) = n /\ tr[n] = x
      /\ \A b \in 1..Len(s.tree) : tr[b] = s.tree[b]
  BY <1>1, AppendProperties
<1>3. Insert(s, x) = [s |-> t, bin |-> n]
  BY DEF Insert, Found
<1> HIDE DEF tr
<1>4. /\ t.tree = tr /\ t.bins = s.bins \cup {n} /\ t.src = s.src
      /\ t.target = s.target /\ t.got = s.got
  BY <1>1 DEF Held
<1>5. t \in Held
  <2>1. s.bins \cup {n} \in SUBSET Nat
    BY <1>1
  <2> HIDE DEF n
  <2> QED
    BY <1>1, <1>2, <2>1 DEF Held
<1> HIDE DEF t
<1>6. n \notin s.bins /\ n # NoBin /\ n \in Nat
  BY <1>1 DEF NoBin
<1>7. Whole(t)
  <2>1. t.bins \subseteq 1..Len(t.tree)
    BY <1>1, <1>2, <1>4
  <2>2. \A p \in Pads : t.target[p] \in 0..Len(t.tree)
    BY <1>1, <1>2, <1>4
  <2> QED
    BY <1>5, <2>1, <2>2 DEF Whole
<1>8. More(t, s)
  BY <1>1, <1>2, <1>4 DEF More, MoreBins
<1>9. \A b \in s.bins : t.tree[b] = s.tree[b]
  BY <1>1, <1>2, <1>4
<1>10. Rooted(t)
  <2>1. inputBin \in t.bins /\ t.tree[inputBin].kind = "parse"
    BY <1>4, <1>9 DEF Rooted
  <2>2. ASSUME NEW b \in s.bins, b # inputBin
        PROVE  Hangs(t.tree[b], b, t.bins)
    BY <1>4, <1>9, <2>2 DEF Rooted, Hangs
  <2>3. Hangs(t.tree[n], n, t.bins)
    <3>1. x.from \in s.bins => x.from < n
      BY <1>1
    <3> HIDE DEF n
    <3> QED
      BY <1>2, <1>4, <3>1 DEF Hangs
  <2> HIDE DEF n
  <2> QED
    BY <1>4, <2>1, <2>2, <2>3 DEF Rooted
<1> HIDE DEF n
<1> QED
  BY <1>2, <1>3, <1>4, <1>6, <1>7, <1>8, <1>10

(* ...that fits and gives what none gave. *)
LEMMA InsertPure ==
  ASSUME NEW s, Whole(s), Rooted(s), NEW x \in Bin, x.kind # "parse",
         Dangling(x) \/ x.from \in s.bins,
         Pure(s), Fits(s, x), Missing(s, x.gives)
  PROVE  Pure(Insert(s, x).s)
<1> DEFINE r == Insert(s, x)
           t == r.s
           n == r.bin
<1>1. /\ Whole(t) /\ More(t, s) /\ n \notin s.bins /\ n # NoBin
      /\ t.bins = s.bins \cup {n} /\ t.tree[n] = x
  BY InsertRight
<1> HIDE DEF t, n
<1>2. \A b \in s.bins : t.tree[b] = s.tree[b]
  BY <1>1, WholeParts DEF More, MoreBins
<1>3. t.src = inputCaps /\ t.tree[inputBin].gives = inputCaps
  BY <1>1, <1>2 DEF Pure, More, MoreBins, Rooted
<1>4. ASSUME NEW y, Fits(s, y), Dangling(y) \/ y.from \in s.bins
      PROVE  Fits(t, y)
  BY <1>2, <1>4 DEF Fits
<1>5. \A b \in s.bins : b = inputBin \/ Fits(t, t.tree[b])
  <2>1. ASSUME NEW b \in s.bins, b # inputBin
        PROVE  Fits(t, t.tree[b])
    <3>1. Fits(s, s.tree[b]) /\ Hangs(s.tree[b], b, s.bins)
      BY <2>1 DEF Pure, Rooted
    <3> QED
      BY <1>2, <1>4, <3>1 DEF Hangs
  <2> QED
    BY <2>1
<1>6. Fits(t, t.tree[n])
  BY <1>1, <1>4
<1>7. \A a, b \in t.bins : t.tree[a].gives = t.tree[b].gives => a = b
  BY <1>1, <1>2 DEF Pure, Missing
<1>8. Pure(t)
  BY <1>1, <1>3, <1>5, <1>6, <1>7 DEF Pure
<1> QED
  BY <1>8 DEF t

(* find_bin_for_caps finds a bin that gives the caps when there is one. *)
LEMMA FindRight ==
  ASSUME NEW s, Whole(s), Rooted(s), NEW c
  PROVE  LET b == find_bin_for_caps(s, c)
         IN  /\ b \in s.bins \cup {NoBin}
             /\ b # NoBin => c = Any \/ s.tree[b].gives = c
             /\ b = NoBin => c # Any /\ Missing(s, c)
<1>1. inputBin \in s.bins /\ inputBin # NoBin
  BY WholeParts DEF Rooted, NoBin
<1>2. \A b \in s.bins : b # NoBin
  BY WholeParts DEF NoBin
<1> QED
  BY <1>1, <1>2 DEF find_bin_for_caps, check_bin, Missing

(* get_or_create_dec_bin *)
LEMMA DecRight ==
  ASSUME NEW s, Whole(s), Rooted(s), NEW c, c # Any, inputCaps \in Inputs
  PROVE  LET r == get_or_create_dec_bin(s, c)
         IN  /\ Good(r, s)
             /\ \A b \in r.s.bins \ s.bins : r.s.tree[b].gives = Raw
             /\ r.bin # NoBin => \/ r.s.tree[r.bin].gives = Raw
                                 \/ r.bin = inputBin /\ inputCaps = Raw
             /\ Pure(s) => /\ r.bin # NoBin => CanRaw(inputCaps) /\ r.s.tree[r.bin].gives = Raw
                           /\ r.bin = NoBin => ~CanRaw(inputCaps)
<1> DEFINE d == find_bin_for_caps(s, Raw)
           x == DecTreeBin(s.src, inputBin)
           i == Insert(s, x)
           r == get_or_create_dec_bin(s, c)
<1>1. \/ inputCaps = Raw /\ r = [s |-> s, bin |-> inputBin]
      \/ inputCaps # Raw /\ d # NoBin /\ r = [s |-> s, bin |-> d]
      \/ inputCaps # Raw /\ d = NoBin /\ s.src \in Decodable /\ r = i
      \/ inputCaps # Raw /\ d = NoBin /\ s.src \notin Decodable /\ r = [s |-> s, bin |-> NoBin]
  BY DEF get_or_create_dec_bin, create_dec_bin, Found
<1>2. /\ d \in s.bins \cup {NoBin}
      /\ d # NoBin => s.tree[d].gives = Raw
      /\ d = NoBin => Missing(s, Raw)
  BY FindRight, FormatFacts DEF Raw, Any
<1> HIDE DEF d
<1>3. inputBin \in s.bins /\ inputBin # NoBin /\ More(s, s) /\ Len(s.tree) \in Nat
  BY WholeParts DEF Rooted, NoBin, More, MoreBins
<1>4. Pure(s) => s.tree[inputBin].gives = inputCaps /\ s.src = inputCaps
  BY DEF Pure
<1>5. CASE inputCaps = Raw
  <2>1. r.s = s /\ r.bin = inputBin
    BY <1>1, <1>5
  <2> HIDE DEF r
  <2>2. Good(r, s)
    BY <1>3, <2>1 DEF Good
  <2>3. CanRaw(inputCaps)
    BY <1>5 DEF CanRaw
  <2> QED
    BY <1>3, <1>4, <1>5, <2>1, <2>2, <2>3 DEF r
<1>6. CASE inputCaps # Raw /\ d # NoBin
  <2>1. r.s = s /\ r.bin = d
    BY <1>1, <1>6
  <2> HIDE DEF r
  <2>2. Good(r, s)
    BY <1>2, <1>3, <2>1 DEF Good
  <2>3. ASSUME Pure(s)
        PROVE  CanRaw(inputCaps)
    <3>1. d # inputBin /\ d \in s.bins
      BY <1>2, <1>4, <1>6, <2>3
    <3>2. Fits(s, s.tree[d])
      BY <2>3, <3>1 DEF Pure
    <3>3. CanGive(inputCaps, Raw)
      BY <1>2, <1>6, <3>2, FormatFacts DEF Fits
    <3> QED
      BY <1>6, <3>3, FormatFacts DEF CanGive, Raw, Any
  <2> QED
    BY <1>2, <1>6, <2>1, <2>2, <2>3 DEF r
<1>7. CASE inputCaps # Raw /\ d = NoBin /\ s.src \in Decodable
  <2>1. r = i
    BY <1>1, <1>7
  <2>2. /\ x \in Bin /\ x.kind # "parse" /\ x.from = inputBin /\ x.takes = s.src /\ x.gives = Raw
    <3>1. inputBin \in Nat
      BY <1>3, WholeParts
    <3> QED
      BY <1>7, <3>1, FormatFacts DEF DecTreeBin, Bin, Kinds
  <2> HIDE DEF x
  <2>3. /\ Whole(i.s) /\ Rooted(i.s) /\ More(i.s, s) /\ i.bin \notin s.bins /\ i.bin # NoBin
        /\ i.s.bins = s.bins \cup {i.bin} /\ i.s.tree[i.bin] = x
    BY <1>3, <2>2, InsertRight
  <2>4. ASSUME Pure(s)
        PROVE  CanRaw(inputCaps) /\ Pure(i.s)
    <3>1. CanRaw(inputCaps)
      BY <1>4, <1>7, <2>4 DEF CanRaw
    <3>2. Fits(s, x)
      BY <1>3, <1>4, <2>2, <2>4, <3>1 DEF Fits, Dangling, CanGive
    <3> QED
      BY <1>2, <1>3, <1>7, <2>2, <2>4, <3>1, <3>2, InsertPure
  <2> HIDE DEF i
  <2>5. Good(i, s)
    BY <2>3, <2>4 DEF Good
  <2> QED
    BY <2>1, <2>2, <2>3, <2>4, <2>5
<1>8. CASE inputCaps # Raw /\ d = NoBin /\ s.src \notin Decodable
  <2>1. r.s = s /\ r.bin = NoBin
    BY <1>1, <1>8
  <2> HIDE DEF r
  <2>2. Good(r, s)
    BY <1>3, <2>1 DEF Good
  <2>3. Pure(s) => ~CanRaw(inputCaps)
    BY <1>4, <1>8 DEF CanRaw
  <2> QED
    BY <2>1, <2>2, <2>3 DEF r
<1> QED
  BY <1>5, <1>6, <1>7, <1>8

(* What a bin of the table gives can be made of the input. *)
LEMMA PureGives ==
  ASSUME NEW s, Pure(s), NEW b \in s.bins, s.tree[b].gives \notin Rtp
  PROVE  CanGive(inputCaps, s.tree[b].gives)
<1>1. CASE b = inputBin
  BY <1>1 DEF Pure, CanGive
<1>2. CASE b # inputBin
  BY <1>2 DEF Pure, Fits
<1> QED
  BY <1>1, <1>2

(* A good search, told or not. *)
LEMMA GoodTell ==
  ASSUME NEW s, NEW r, Good(r, s), NEW what \in {"active", "inactive"}
  PROVE  LET a == Found(Tell(r.s, what), r.bin)
         IN  Good(a, s) /\ a.bin = r.bin /\ a.s.tree = r.s.tree /\ a.s.bins = r.s.bins
<1> DEFINE t == Tell(r.s, what)
<1>1. Whole(r.s)
  BY DEF Good
<1>2. /\ Whole(t) /\ t.tree = r.s.tree /\ t.bins = r.s.bins /\ t.src = r.s.src
      /\ t.target = r.s.target /\ t.got = r.s.got
  BY <1>1, TellRight
<1> HIDE DEF t
<1>3. Rooted(t) /\ (Pure(s) => Pure(t))
  BY <1>2, SameBins DEF Good
<1>4. More(t, s) /\ r.bin \in t.bins \cup {NoBin}
  BY <1>2 DEF Good, More, MoreBins
<1>5. Good(Found(t, r.bin), s)
  BY <1>2, <1>3, <1>4 DEF Good, Found
<1> QED
  BY <1>2, <1>5 DEF Found, t

(* Nothing is done. *)
LEMMA GoodNone ==
  ASSUME NEW s, Whole(s), Rooted(s), NEW b \in s.bins \cup {NoBin}
  PROVE  Good(Found(s, b), s)
<1>1. More(s, s)
  BY WholeParts DEF More, MoreBins
<1> QED
  BY <1>1 DEF Good, Found

(* create_bin_for_caps *)
LEMMA CreateRight ==
  ASSUME NEW s, Whole(s), Rooted(s), NEW c \in Inputs, inputCaps \in Inputs, Missing(s, c)
  PROVE  LET r == create_bin_for_caps(s, c)
         IN  /\ Good(r, s)
             /\ \A b \in r.s.bins \ s.bins : r.s.tree[b].gives \in Inputs
             /\ r.bin # NoBin => \/ r.s.tree[r.bin].gives = c
                                 \/ r.bin = inputBin /\ inputCaps = Raw /\ c = Raw
             /\ Pure(s) => IF r.bin # NoBin THEN r.s.tree[r.bin].gives = c
                                            ELSE ~CanGive(inputCaps, c)
<1> DEFINE d == get_or_create_dec_bin(s, c)
           x == EncTreeBin(c, d.bin)
           i == Insert(d.s, x)
           r == create_bin_for_caps(s, c)
<1>1. \/ (d.bin = NoBin \/ c = Raw) /\ r = d
      \/ d.bin # NoBin /\ c # Raw /\ c \in Encodable /\ r = i
      \/ d.bin # NoBin /\ c # Raw /\ c \notin Encodable /\ r = Found(d.s, NoBin)
  BY DEF create_bin_for_caps
<1>2. c # Any /\ c \notin Payloadable /\ Raw \in Inputs
  BY FormatFacts
<1>3. /\ Good(d, s)
      /\ \A b \in d.s.bins \ s.bins : d.s.tree[b].gives = Raw
      /\ d.bin # NoBin => \/ d.s.tree[d.bin].gives = Raw
                          \/ d.bin = inputBin /\ inputCaps = Raw
      /\ Pure(s) => /\ d.bin # NoBin => CanRaw(inputCaps) /\ d.s.tree[d.bin].gives = Raw
                    /\ d.bin = NoBin => ~CanRaw(inputCaps)
  BY <1>2, DecRight
<1> HIDE DEF d
<1>4. Whole(d.s) /\ Rooted(d.s) /\ More(d.s, s) /\ d.bin \in d.s.bins \cup {NoBin}
  BY <1>3 DEF Good
<1>5. Pure(s) => c # inputCaps
  BY DEF Pure, Missing, Rooted
<1>6. CASE (d.bin = NoBin \/ c = Raw) /\ r = d
  <2>1. ASSUME Pure(s), d.bin = NoBin
        PROVE  ~CanGive(inputCaps, c)
    BY <1>2, <1>3, <1>5, <2>1 DEF CanGive
  <2> HIDE DEF r
  <2>2. /\ \A b \in r.s.bins \ s.bins : r.s.tree[b].gives \in Inputs
        /\ r.bin # NoBin => \/ r.s.tree[r.bin].gives = c
                            \/ r.bin = inputBin /\ inputCaps = Raw /\ c = Raw
        /\ Pure(s) => IF r.bin # NoBin THEN r.s.tree[r.bin].gives = c
                                       ELSE ~CanGive(inputCaps, c)
    BY <1>2, <1>3, <1>6, <2>1
  <2> QED
    BY <1>3, <1>6, <2>2 DEF r
<1>7. CASE d.bin # NoBin /\ c # Raw /\ c \in Encodable /\ r = i
  <2>1. d.bin \in d.s.bins /\ d.bin \in Nat
    BY <1>4, <1>7, WholeParts
  <2>2. /\ x \in Bin /\ x.kind # "parse" /\ x.kind # "pay" /\ x.from = d.bin
        /\ x.takes = Raw /\ x.gives = c
    BY <2>1, FormatFacts DEF EncTreeBin, Bin, Kinds
  <2> HIDE DEF x
  <2>3. \A b \in s.bins : d.s.tree[b] = s.tree[b]
    BY <1>4, WholeParts DEF More, MoreBins
  <2>4. Missing(d.s, c)
    BY <1>3, <1>7, <2>3 DEF Missing
  <2>5. Pure(d.s) /\ Pure(s) => Fits(d.s, x)
    BY <1>3, <1>7, <2>2 DEF Fits, Dangling, CanGive
  <2>6. Missing(d.s, x.gives)
    BY <2>2, <2>4
  <2>7. /\ i.bin # NoBin /\ i.s.tree[i.bin] = x /\ i.s.bins = d.s.bins \cup {i.bin}
        /\ Whole(i.s) /\ Rooted(i.s) /\ More(i.s, d.s)
    BY <1>4, <2>1, <2>2, InsertRight
  <2>8. Pure(s) => Pure(d.s) /\ Pure(i.s)
    BY <1>3, <1>4, <2>1, <2>2, <2>5, <2>6, InsertPure DEF Good
  <2> HIDE DEF i
  <2>9. Good(i, s)
    <3>1. More(i.s, s)
      BY <1>4, <2>7, MoreMore DEF More
    <3> QED
      BY <2>7, <2>8, <3>1 DEF Good
  <2>10. \A b \in d.s.bins : i.s.tree[b] = d.s.tree[b]
    BY <1>4, <2>7, WholeParts DEF More, MoreBins
  <2>11. \A b \in i.s.bins \ s.bins : i.s.tree[b].gives \in Inputs
    BY <1>2, <1>3, <2>2, <2>7, <2>10
  <2> QED
    BY <1>7, <2>2, <2>7, <2>9, <2>11
<1>8. CASE d.bin # NoBin /\ c # Raw /\ c \notin Encodable /\ r = Found(d.s, NoBin)
  <2>1. r.s = d.s /\ r.bin = NoBin
    BY <1>8 DEF Found
  <2> HIDE DEF r
  <2>2. Good(r, s)
    BY <1>3, <2>1 DEF Good
  <2>3. Pure(s) => ~CanGive(inputCaps, c)
    BY <1>2, <1>5, <1>8 DEF CanGive
  <2> QED
    BY <1>2, <1>3, <2>1, <2>2, <2>3 DEF r
<1> QED
  BY <1>1, <1>6, <1>7, <1>8

(* The bin that gives c, found or made. *)
LEMMA AboveRight ==
  ASSUME NEW s, Whole(s), Rooted(s), NEW c \in Inputs, inputCaps \in Inputs
  PROVE  LET a == FoundOrNew(s, c, create_bin_for_caps(s, c))
         IN  /\ Good(a, s)
             /\ \A b \in a.s.bins \ s.bins : a.s.tree[b].gives \in Inputs
             /\ a.bin # NoBin => \/ a.s.tree[a.bin].gives = c
                                 \/ a.bin = inputBin /\ inputCaps = Raw /\ c = Raw
             /\ Pure(s) => IF a.bin # NoBin
                           THEN a.s.tree[a.bin].gives = c /\ CanGive(inputCaps, c)
                           ELSE ~CanGive(inputCaps, c)
<1> DEFINE f == find_bin_for_caps(s, c)
           r == create_bin_for_caps(s, c)
           a == FoundOrNew(s, c, r)
<1>1. /\ f # NoBin => a = Found(Tell(s, "inactive"), f)
      /\ f = NoBin => a = Found(Tell(r.s, "active"), r.bin)
  BY DEF FoundOrNew
<1>2. c # Any /\ c \notin Rtp
  BY FormatFacts
<1>3. /\ f \in s.bins \cup {NoBin}
      /\ f # NoBin => s.tree[f].gives = c
      /\ f = NoBin => Missing(s, c)
  BY <1>2, FindRight
<1> HIDE DEF f
<1>4. CASE f # NoBin
  <2> DEFINE z == Found(s, f)
  <2>1. Good(z, s) /\ z.s = s /\ z.bin = f
    BY <1>3, GoodNone DEF Found
  <2> HIDE DEF z
  <2>2. Good(a, s) /\ a.bin = f /\ a.s.tree = s.tree /\ a.s.bins = s.bins
    BY <1>1, <1>4, <2>1, GoodTell
  <2> HIDE DEF a
  <2>3. Pure(s) => CanGive(inputCaps, c)
    BY <1>2, <1>3, <1>4, PureGives
  <2> QED
    BY <1>3, <1>4, <2>2, <2>3 DEF a
<1>5. CASE f = NoBin
  <2>1. /\ Good(r, s)
        /\ \A b \in r.s.bins \ s.bins : r.s.tree[b].gives \in Inputs
        /\ r.bin # NoBin => \/ r.s.tree[r.bin].gives = c
                            \/ r.bin = inputBin /\ inputCaps = Raw /\ c = Raw
        /\ Pure(s) => IF r.bin # NoBin THEN r.s.tree[r.bin].gives = c
                                       ELSE ~CanGive(inputCaps, c)
    BY <1>3, <1>5, CreateRight
  <2> HIDE DEF r
  <2>2. Good(a, s) /\ a.bin = r.bin /\ a.s.tree = r.s.tree /\ a.s.bins = r.s.bins
    BY <1>1, <1>5, <2>1, GoodTell
  <2> HIDE DEF a
  <2>3. Pure(s) /\ r.bin # NoBin => CanGive(inputCaps, c)
    <3>1. r.bin # NoBin => r.bin \in r.s.bins
      BY <2>1 DEF Good
    <3>2. Pure(s) => Pure(r.s)
      BY <2>1 DEF Good
    <3> QED
      BY <1>2, <2>1, <3>1, <3>2, PureGives
  <2> QED
    BY <2>1, <2>2, <2>3 DEF a, r
<1> QED
  BY <1>4, <1>5

(* create_rtp_pay_bin *)
LEMMA PayRight ==
  ASSUME NEW s, Whole(s), Rooted(s), NEW c \in Rtp, inputCaps \in Inputs, Missing(s, c)
  PROVE  LET r == create_rtp_pay_bin(s, c)
         IN  /\ Good(r, s)
             /\ r.bin # NoBin => r.s.tree[r.bin].gives = c
             /\ Pure(s) /\ r.bin = NoBin => ~CanGive(inputCaps, c)
<1> DEFINE e == PayloadOf[c]
           a == FoundOrNew(s, e, create_bin_for_caps(s, e))
           x == RtpPayTreeBin(c, a.bin)
           i == Insert(a.s, x)
           r == create_rtp_pay_bin(s, c)
<1>1. /\ c \notin Payloadable => r = Found(s, NoBin)
      /\ c \in Payloadable => r = i
  BY DEF create_rtp_pay_bin
<1>2. e \in Encoded /\ e \in Inputs /\ e # Raw /\ e # Any /\ e \notin Payloadable
      /\ c \notin Inputs /\ c # Any /\ c # Raw /\ c \notin Encodable
  BY FormatFacts
<1>3. CASE c \notin Payloadable
  <2>1. r = Found(s, NoBin) /\ r.bin = NoBin /\ Good(Found(s, NoBin), s)
    BY <1>1, <1>3, GoodNone DEF Found
  <2>2. ~CanGive(inputCaps, c)
    BY <1>2, <1>3 DEF CanGive
  <2> HIDE DEF r
  <2> QED
    BY <2>1, <2>2 DEF r
<1>4. CASE c \in Payloadable
  <2>1. /\ Good(a, s)
        /\ \A b \in a.s.bins \ s.bins : a.s.tree[b].gives \in Inputs
        /\ a.bin # NoBin => a.s.tree[a.bin].gives = e
        /\ Pure(s) => IF a.bin # NoBin THEN CanGive(inputCaps, e) ELSE ~CanGive(inputCaps, e)
    <3> HIDE DEF e
    <3> QED
      BY <1>2, AboveRight
  <2> HIDE DEF a
  <2>2. /\ Whole(a.s) /\ Rooted(a.s) /\ More(a.s, s) /\ a.bin \in a.s.bins \cup {NoBin}
        /\ Pure(s) => Pure(a.s)
    BY <2>1 DEF Good
  <2>3. a.bin \in Nat
    BY <2>2, WholeParts DEF NoBin
  <2>4. /\ x \in Bin /\ x.kind = "pay" /\ x.kind # "parse" /\ x.from = a.bin
        /\ x.takes = e /\ x.gives = c
    <3> HIDE DEF e
    <3> QED
      BY <1>2, <2>3 DEF RtpPayTreeBin, Bin, Kinds, e
  <2> HIDE DEF x
  <2>5. Dangling(x) <=> a.bin = NoBin
    BY <2>4 DEF Dangling
  <2>6. \A b \in s.bins : a.s.tree[b] = s.tree[b]
    BY <2>2, WholeParts DEF More, MoreBins
  <2>7. Missing(a.s, c)
    BY <1>2, <2>1, <2>6 DEF Missing
  <2>8. ASSUME Pure(s)
        PROVE  Fits(a.s, x)
    <3>1. CASE a.bin = NoBin
      <4>1. ~CanGive(inputCaps, e)
        BY <2>1, <2>8, <3>1
      <4>2. Plugins => CanGive(inputCaps, e)
        BY <1>4 DEF Plugins, CanGive, CanRaw, Inputs
      <4> QED
        BY <2>4, <2>5, <3>1, <4>1, <4>2 DEF Fits
    <3>2. CASE a.bin # NoBin
      <4>1. CanGive(inputCaps, e)
        BY <2>1, <2>8, <3>2
      <4>2. CanGive(inputCaps, c)
        BY <1>2, <1>4, <4>1 DEF CanGive
      <4> QED
        BY <2>1, <2>4, <2>5, <3>2, <4>2 DEF Fits
    <3> QED
      BY <3>1, <3>2
  <2>9. Dangling(x) \/ x.from \in a.s.bins
    BY <2>2, <2>4, <2>5
  <2>10. /\ Whole(i.s) /\ Rooted(i.s) /\ More(i.s, a.s) /\ i.bin # NoBin /\ i.s.tree[i.bin] = x
         /\ i.bin \in i.s.bins
    BY <2>2, <2>4, <2>9, InsertRight
  <2>11. Missing(a.s, x.gives)
    BY <2>4, <2>7
  <2>12. Pure(s) => Pure(i.s)
    BY <2>2, <2>4, <2>8, <2>9, <2>11, InsertPure
  <2> HIDE DEF i
  <2>13. More(i.s, s)
    BY <2>2, <2>10, MoreMore DEF More
  <2>14. Good(i, s)
    BY <2>10, <2>12, <2>13 DEF Good
  <2> QED
    BY <1>1, <1>4, <2>4, <2>10, <2>14
<1> QED
  BY <1>3, <1>4

(* The input bin gives raw media when the input is raw. *)
Tied(s) == inputCaps = Raw => s.tree[inputBin].gives = Raw

(* find_or_create_bin_for_caps finds a bin that gives what the peer wants; it finds none
   only when the input cannot be made into it. *)
LEMMA SearchRight ==
  ASSUME NEW s, Whole(s), Rooted(s), NEW c \in Wants, inputCaps \in Inputs
  PROVE  LET r == find_or_create_bin_for_caps(s, c)
         IN  /\ Good(r, s)
             /\ Tied(s) /\ r.bin # NoBin => Accepts(c, r.s.tree[r.bin].gives)
             /\ Pure(s) /\ r.bin = NoBin => ~CanGive(inputCaps, c)
<1> DEFINE f == find_bin_for_caps(s, c)
           p == create_rtp_pay_bin(s, c)
           k == create_bin_for_caps(s, c)
           n == IF c \in Rtp THEN p ELSE k
           r == find_or_create_bin_for_caps(s, c)
<1>1. /\ f # NoBin => r = Found(Tell(s, "inactive"), f)
      /\ f = NoBin => r = Found(Tell(n.s, "active"), n.bin)
  BY DEF find_or_create_bin_for_caps, FoundOrNew
<1>2. /\ f \in s.bins \cup {NoBin}
      /\ f # NoBin => c = Any \/ s.tree[f].gives = c
      /\ f = NoBin => c # Any /\ Missing(s, c)
  BY FindRight
<1> HIDE DEF f
<1>3. CASE f # NoBin
  <2> DEFINE z == Found(s, f)
  <2>1. Good(z, s) /\ z.s = s /\ z.bin = f
    BY <1>2, GoodNone DEF Found
  <2> HIDE DEF z
  <2>2. Good(r, s) /\ r.bin = f /\ r.s.tree = s.tree
    BY <1>1, <1>3, <2>1, GoodTell
  <2> HIDE DEF r
  <2>3. Accepts(c, r.s.tree[r.bin].gives)
    BY <1>2, <1>3, <2>2 DEF Accepts
  <2> QED
    BY <1>3, <2>2, <2>3 DEF r
<1>4. CASE f = NoBin
  <2>1. /\ Good(n, s)
        /\ n.bin # NoBin => \/ n.s.tree[n.bin].gives = c
                            \/ n.bin = inputBin /\ inputCaps = Raw /\ c = Raw
        /\ Pure(s) /\ n.bin = NoBin => ~CanGive(inputCaps, c)
    <3>1. CASE c \in Rtp
      <4>1. /\ Good(p, s)
            /\ p.bin # NoBin => p.s.tree[p.bin].gives = c
            /\ Pure(s) /\ p.bin = NoBin => ~CanGive(inputCaps, c)
        BY <1>2, <1>4, <3>1, PayRight
      <4>2. n = p
        BY <3>1
      <4> HIDE DEF p, n
      <4> QED
        BY <4>1, <4>2
    <3>2. CASE c \notin Rtp
      <4>1. c \in Inputs
        BY <1>2, <1>4, <3>2, FormatFacts
      <4>2. /\ Good(k, s)
            /\ k.bin # NoBin => \/ k.s.tree[k.bin].gives = c
                                \/ k.bin = inputBin /\ inputCaps = Raw /\ c = Raw
            /\ Pure(s) => IF k.bin # NoBin THEN k.s.tree[k.bin].gives = c
                                           ELSE ~CanGive(inputCaps, c)
        BY <1>2, <1>4, <4>1, CreateRight
      <4>3. n = k
        BY <3>2
      <4> HIDE DEF k, n
      <4> QED
        BY <4>2, <4>3
    <3> QED
      BY <3>1, <3>2
  <2> HIDE DEF n
  <2>2. Good(r, s) /\ r.bin = n.bin /\ r.s.tree = n.s.tree
    BY <1>1, <1>4, <2>1, GoodTell
  <2> HIDE DEF r
  <2>3. n.s.tree[inputBin] = s.tree[inputBin]
    <3>1. inputBin \in 1..Len(s.tree)
      BY WholeParts DEF Rooted
    <3> QED
      BY <2>1, <3>1 DEF Good, More, MoreBins
  <2>4. ASSUME Tied(s), r.bin # NoBin
        PROVE  Accepts(c, r.s.tree[r.bin].gives)
    BY <2>1, <2>2, <2>3, <2>4 DEF Accepts, Tied
  <2> QED
    BY <2>1, <2>2, <2>4 DEF r
<1> QED
  BY <1>3, <1>4

-----------------------------------------------------------------------------
(* Linking pads.                                                           *)

(* Pad p is linked or not, the others are left alone. *)
Handled(t, s, p) ==
  /\ Whole(t) /\ Rooted(t) /\ MoreBins(t, s) /\ (Pure(s) => Pure(t))
  /\ \A q \in Pads \ {p} : t.target[q] = s.target[q] /\ t.got[q] = s.got[q]

(* What link_pad makes of pad p. *)
Tried(t, s, p) ==
  \/ /\ t.target[p] \in t.bins /\ t.target[p] # NoBin /\ ~t.got[p]
     /\ Tied(s) => Accepts(peer[p], t.tree[t.target[p]].gives)
  \/ /\ t.target[p] = s.target[p] /\ t.got[p] = s.got[p]
     /\ Pure(s) => ~CanGive(inputCaps, peer[p])

(* The target of a pad is removed. *)
LEMMA RemoveRight ==
  ASSUME NEW s, Whole(s), NEW p \in Pads
  PROVE  LET t == remove_target_pad(s, p)
         IN  /\ Whole(t) /\ t.tree = s.tree /\ t.bins = s.bins /\ t.src = s.src /\ t.told = s.told
             /\ t.target = [s.target EXCEPT ![p] = NoBin]
             /\ t.got = [s.got EXCEPT ![p] = FALSE]
             /\ t.target[p] = NoBin /\ ~t.got[p]
             /\ \A q \in Pads \ {p} : t.target[q] = s.target[q] /\ t.got[q] = s.got[q]
             /\ MoreBins(t, s)
<1> DEFINE t == remove_target_pad(s, p)
           ta == [s.target EXCEPT ![p] = NoBin]
           go == [s.got EXCEPT ![p] = FALSE]
<1>1. s \in Held /\ s.target \in [Pads -> Nat] /\ s.got \in [Pads -> BOOLEAN] /\ Len(s.tree) \in Nat
      /\ s.bins \subseteq 1..Len(s.tree) /\ \A q \in Pads : s.target[q] \in 0..Len(s.tree)
  BY WholeParts DEF Whole
<1>2. ta \in [Pads -> Nat] /\ go \in [Pads -> BOOLEAN] /\ ta[p] = NoBin /\ ~go[p]
      /\ \A q \in Pads \ {p} : ta[q] = s.target[q] /\ go[q] = s.got[q]
  BY <1>1 DEF NoBin
<1>3. t = [s EXCEPT !.target = ta, !.got = go]
  BY <1>1 DEF remove_target_pad, Held
<1> HIDE DEF ta, go
<1>4. t \in Held /\ t.tree = s.tree /\ t.bins = s.bins /\ t.src = s.src /\ t.told = s.told
      /\ t.target = ta /\ t.got = go
  <2> HIDE DEF t
  <2> QED
    BY <1>1, <1>2, <1>3 DEF Held
<1> HIDE DEF t
<1>5. \A q \in Pads : t.target[q] \in 0..Len(t.tree)
  BY <1>1, <1>2, <1>4 DEF NoBin
<1>6. Whole(t)
  BY <1>1, <1>4, <1>5 DEF Whole
<1>7. MoreBins(t, s)
  BY <1>1, <1>4 DEF MoreBins
<1> QED
  BY <1>2, <1>4, <1>6, <1>7 DEF t, ta, go

(* link_pad *)
LEMMA LinkRight ==
  ASSUME NEW s, Whole(s), Rooted(s), NEW p \in Pads, Linked(p), inputCaps \in Inputs
  PROVE  LET t == link_pad(s, p) IN Handled(t, s, p) /\ Tried(t, s, p)
<1> DEFINE r == find_or_create_bin_for_caps(s, peer[p])
           u == r.s
           t == link_pad(s, p)
           ta == [u.target EXCEPT ![p] = r.bin]
           go == [u.got EXCEPT ![p] = FALSE]
<1>1. /\ Good(r, s)
      /\ Tied(s) /\ r.bin # NoBin => Accepts(peer[p], r.s.tree[r.bin].gives)
      /\ Pure(s) /\ r.bin = NoBin => ~CanGive(inputCaps, peer[p])
  BY SearchRight DEF Linked
<1>2. /\ r.bin = NoBin => t = u
      /\ r.bin # NoBin => t = [u EXCEPT !.target[p] = r.bin, !.got[p] = FALSE]
  BY DEF link_pad
<1> HIDE DEF r
<1>3. /\ Whole(u) /\ Rooted(u) /\ MoreBins(u, s) /\ u.target = s.target /\ u.got = s.got
      /\ r.bin \in u.bins \cup {NoBin} /\ (Pure(s) => Pure(u))
  BY <1>1 DEF Good, More
<1> HIDE DEF u
<1>4. CASE r.bin = NoBin
  <2>1. t = u
    BY <1>2, <1>4
  <2>2. Handled(u, s, p)
    BY <1>3 DEF Handled
  <2>3. Tried(u, s, p)
    BY <1>1, <1>3, <1>4 DEF Tried
  <2> QED
    BY <2>1, <2>2, <2>3
<1>5. CASE r.bin # NoBin
  <2>1. /\ u \in Held /\ u.target \in [Pads -> Nat] /\ u.got \in [Pads -> BOOLEAN]
        /\ u.bins \subseteq 1..Len(u.tree) /\ Len(u.tree) \in Nat
        /\ \A q \in Pads : u.target[q] \in 0..Len(u.tree)
    BY <1>3, WholeParts DEF Whole
  <2>2. r.bin \in u.bins /\ r.bin \in Nat /\ r.bin \in 0..Len(u.tree)
    BY <1>3, <1>5, <2>1
  <2>3. /\ ta \in [Pads -> Nat] /\ go \in [Pads -> BOOLEAN] /\ ta[p] = r.bin /\ ~go[p]
        /\ \A q \in Pads \ {p} : ta[q] = u.target[q] /\ go[q] = u.got[q]
    BY <2>1, <2>2
  <2>4. t = [u EXCEPT !.target = ta, !.got = go]
    BY <1>2, <1>5, <2>1 DEF Held
  <2> HIDE DEF ta, go, t
  <2>5. t \in Held /\ t.tree = u.tree /\ t.bins = u.bins /\ t.src = u.src
        /\ t.target = ta /\ t.got = go
    BY <2>1, <2>3, <2>4 DEF Held
  <2>6. \A q \in Pads : t.target[q] \in 0..Len(t.tree)
    BY <2>1, <2>2, <2>3, <2>5
  <2>7. Whole(t)
    BY <2>1, <2>5, <2>6 DEF Whole
  <2>8. Rooted(t) /\ (Pure(s) => Pure(t))
    BY <1>3, <2>5, SameBins
  <2>9. MoreBins(t, s)
    BY <1>3, <2>5 DEF MoreBins
  <2>10. Handled(t, s, p)
    BY <1>3, <2>3, <2>5, <2>7, <2>8, <2>9 DEF Handled
  <2>11. Tried(t, s, p)
    BY <1>1, <1>5, <2>2, <2>3, <2>5 DEF Tried, u
  <2> QED
    BY <2>10, <2>11 DEF t
<1> QED
  BY <1>4, <1>5

(* process_pad *)
LEMMA ProcessRight ==
  ASSUME NEW s, Whole(s), Rooted(s), NEW p \in Pads, inputCaps \in Inputs,
         NEW isOn, NEW isStarted
  PROVE  LET t == process_pad(s, p, isOn, isStarted)
         IN  /\ Handled(t, s, p)
             /\ \/ /\ t = s
                   /\ \/ ~isOn \/ ~isStarted \/ ~Linked(p)
                      \/ s.target[p] # NoBin /\ cur[p] # NoCaps /\ Accepts(peer[p], cur[p])
                \/ /\ t.target[p] \in t.bins /\ t.target[p] # NoBin /\ ~t.got[p]
                   /\ Tied(s) => Accepts(peer[p], t.tree[t.target[p]].gives)
                \/ /\ Pure(s) => ~CanGive(inputCaps, peer[p])
                   /\ IF cur[p] # NoCaps THEN t.target[p] = NoBin /\ ~t.got[p]
                      ELSE t.target[p] = s.target[p] /\ t.got[p] = s.got[p]
<1> DEFINE t == process_pad(s, p, isOn, isStarted)
           settled == s.target[p] # NoBin /\ cur[p] # NoCaps /\ Accepts(peer[p], cur[p])
           u == IF cur[p] # NoCaps THEN remove_target_pad(s, p) ELSE s
           l == link_pad(u, p)
<1>1. IF ~isOn \/ ~isStarted \/ ~Linked(p) \/ settled THEN t = s ELSE t = l
  BY DEF process_pad
<1>2. MoreBins(s, s)
  BY WholeParts DEF MoreBins
<1>3. /\ Whole(u) /\ u.tree = s.tree /\ u.bins = s.bins /\ u.src = s.src
      /\ \A q \in Pads \ {p} : u.target[q] = s.target[q] /\ u.got[q] = s.got[q]
      /\ IF cur[p] # NoCaps THEN u.target[p] = NoBin /\ ~u.got[p]
         ELSE u.target[p] = s.target[p] /\ u.got[p] = s.got[p]
  <2>1. CASE cur[p] # NoCaps
    <3> DEFINE w == remove_target_pad(s, p)
    <3>1. u = w
      BY <2>1
    <3>2. /\ Whole(w) /\ w.tree = s.tree /\ w.bins = s.bins /\ w.src = s.src
          /\ \A q \in Pads \ {p} : w.target[q] = s.target[q] /\ w.got[q] = s.got[q]
          /\ w.target[p] = NoBin /\ ~w.got[p]
      BY RemoveRight
    <3> HIDE DEF u, w
    <3> QED
      BY <2>1, <3>1, <3>2
  <2>2. CASE cur[p] = NoCaps
    BY <2>2
  <2> QED
    BY <2>1, <2>2
<1> HIDE DEF u
<1>4. Rooted(u) /\ (Pure(u) <=> Pure(s)) /\ (Tied(u) <=> Tied(s))
  BY <1>3, SameBins DEF Tied
<1>5. CASE ~isOn \/ ~isStarted \/ ~Linked(p) \/ settled
  <2>1. t = s
    BY <1>1, <1>5
  <2>2. Handled(s, s, p)
    BY <1>2 DEF Handled
  <2> QED
    BY <1>5, <2>1, <2>2
<1>6. CASE ~(~isOn \/ ~isStarted \/ ~Linked(p) \/ settled)
  <2>1. Handled(l, u, p) /\ Tried(l, u, p)
    BY <1>3, <1>4, <1>6, LinkRight
  <2>2. t = l
    BY <1>1, <1>6
  <2> HIDE DEF l, t
  <2>3. MoreBins(l, s)
    BY <1>3, <2>1 DEF Handled, MoreBins
  <2>4. Handled(l, s, p)
    BY <1>3, <1>4, <2>1, <2>3 DEF Handled
  <2>5. \/ /\ l.target[p] \in l.bins /\ l.target[p] # NoBin /\ ~l.got[p]
           /\ Tied(s) => Accepts(peer[p], l.tree[l.target[p]].gives)
        \/ /\ Pure(s) => ~CanGive(inputCaps, peer[p])
           /\ l.target[p] = u.target[p] /\ l.got[p] = u.got[p]
    BY <1>4, <2>1 DEF Tried
  <2> QED
    BY <1>3, <2>2, <2>4, <2>5 DEF t
<1> QED
  BY <1>5, <1>6

(* A pad that is not to be linked yet. *)
LEMMA ProcessNot ==
  ASSUME NEW s, NEW p, NEW isOn, NEW isStarted, ~isOn \/ ~isStarted \/ ~Linked(p)
  PROVE  process_pad(s, p, isOn, isStarted) = s
BY DEF process_pad

(* add_linked_pads *)
LEMMA AddRight ==
  ASSUME NEW s, Whole(s), Rooted(s), NEW p \in Pads, inputCaps \in Inputs
  PROVE  LET t == add_linked_pads(s, p)
         IN  /\ Handled(t, s, p)
             /\ ~Linked(p) => t.target[p] = s.target[p] /\ t.got[p] = s.got[p]
             /\ Linked(p) => /\ t.target[p] \in t.bins \cup {NoBin} /\ ~t.got[p]
                             /\ Pure(s) /\ on[p] /\ t.target[p] = NoBin
                                  => ~CanGive(inputCaps, peer[p])
<1> DEFINE u == remove_target_pad(s, p)
           yes == TRUE
           l == process_pad(u, p, on[p], yes)
           t == add_linked_pads(s, p)
<1>1. (Linked(p) => t = l) /\ (~Linked(p) => t = s)
  BY DEF add_linked_pads
<1>0. yes
  OBVIOUS
<1> HIDE DEF yes
<1>2. MoreBins(s, s)
  BY WholeParts DEF MoreBins
<1>3. CASE ~Linked(p)
  <2>1. t = s
    BY <1>1, <1>3
  <2>2. Handled(s, s, p)
    BY <1>2 DEF Handled
  <2> QED
    BY <1>3, <2>1, <2>2
<1>4. CASE Linked(p)
  <2>1. t = l
    BY <1>1, <1>4
  <2>2. /\ Whole(u) /\ u.tree = s.tree /\ u.bins = s.bins /\ u.src = s.src
        /\ \A q \in Pads \ {p} : u.target[q] = s.target[q] /\ u.got[q] = s.got[q]
        /\ u.target[p] = NoBin /\ ~u.got[p]
    BY RemoveRight
  <2> HIDE DEF u
  <2>3. Rooted(u) /\ (Pure(u) <=> Pure(s))
    BY <2>2, SameBins
  <2>4. /\ Handled(l, u, p)
        /\ \/ l = u /\ ~on[p]
           \/ l.target[p] \in l.bins /\ l.target[p] # NoBin /\ ~l.got[p]
           \/ /\ Pure(u) => ~CanGive(inputCaps, peer[p])
              /\ l.target[p] = NoBin /\ ~l.got[p]
    <3>1. /\ Handled(l, u, p)
          /\ \/ /\ l = u
                /\ \/ ~on[p] \/ ~yes \/ ~Linked(p)
                   \/ u.target[p] # NoBin /\ cur[p] # NoCaps /\ Accepts(peer[p], cur[p])
             \/ /\ l.target[p] \in l.bins /\ l.target[p] # NoBin /\ ~l.got[p]
                /\ Tied(u) => Accepts(peer[p], l.tree[l.target[p]].gives)
             \/ /\ Pure(u) => ~CanGive(inputCaps, peer[p])
                /\ IF cur[p] # NoCaps THEN l.target[p] = NoBin /\ ~l.got[p]
                   ELSE l.target[p] = u.target[p] /\ l.got[p] = u.got[p]
      BY <2>2, <2>3, ProcessRight
    <3> HIDE DEF l
    <3> QED
      BY <1>0, <1>4, <2>2, <3>1
  <2> HIDE DEF l, t
  <2>5. MoreBins(l, s)
    BY <2>2, <2>4 DEF Handled, MoreBins
  <2>6. Handled(l, s, p)
    BY <2>2, <2>3, <2>4, <2>5 DEF Handled
  <2> QED
    BY <1>4, <2>1, <2>2, <2>3, <2>4, <2>6 DEF t
<1> QED
  BY <1>3, <1>4

(* The pads up to n have been linked. *)
LinkedUpTo(t, s, n) ==
  /\ Whole(t) /\ Rooted(t) /\ MoreBins(t, s) /\ (Pure(s) => Pure(t))
  /\ \A p \in Pads :
       IF p <= n /\ Linked(p)
       THEN /\ t.target[p] \in t.bins \cup {NoBin} /\ ~t.got[p]
            /\ Pure(s) /\ on[p] /\ t.target[p] = NoBin => ~CanGive(inputCaps, peer[p])
       ELSE t.target[p] = s.target[p] /\ t.got[p] = s.got[p]

(* The loop over the pads. *)
IsLoop(f, s, k) == f = [n \in 0..k |-> IF n = 0 THEN s ELSE add_linked_pads(f[n - 1], n)]
Loop(s) == CHOOSE f : IsLoop(f, s, NPads)

(* The loop has a result for any number of pads. *)
LEMMA LoopExists ==
  ASSUME NEW s, NEW len \in Nat
  PROVE  \E f : IsLoop(f, s, len)
<1> DEFINE Bad == {k \in Nat : ~\E f : IsLoop(f, s, k)}
<1>1. ASSUME Bad # {}
      PROVE  FALSE
  <2>1. PICK k \in Bad : \A j \in Bad : k <= j
    BY <1>1, Least
  <2>2. k # 0
    <3>1. IsLoop([n \in 0..0 |-> s], s, 0)
      BY DEF IsLoop
    <3> QED
      BY <3>1
  <2>3. k - 1 \in Nat /\ k - 1 \notin Bad
    BY <2>1, <2>2
  <2>4. PICK g : IsLoop(g, s, k - 1)
    BY <2>3
  <2> DEFINE f == [n \in 0..k |-> IF n = k THEN add_linked_pads(g[k - 1], k) ELSE g[n]]
  <2>5. IsLoop(f, s, k)
    <3>1. ASSUME NEW n \in 0..k
          PROVE  f[n] = IF n = 0 THEN s ELSE add_linked_pads(f[n - 1], n)
      <4>1. CASE n = k
        <5>1. f[n] = add_linked_pads(g[k - 1], k)
          BY <4>1
        <5>2. n - 1 \in 0..k /\ n - 1 # k
          BY <2>2, <4>1
        <5>3. f[n - 1] = g[k - 1]
          BY <5>2, <4>1
        <5> HIDE DEF f
        <5> QED
          BY <5>1, <5>3, <2>2, <4>1
      <4>2. CASE n # k
        <5>1. f[n] = g[n] /\ n \in 0..(k - 1)
          BY <4>2
        <5>2. g[n] = IF n = 0 THEN s ELSE add_linked_pads(g[n - 1], n)
          BY <2>4, <5>1 DEF IsLoop
        <5>3. n # 0 => f[n - 1] = g[n - 1]
          BY <4>2
        <5> HIDE DEF f
        <5> QED
          BY <5>1, <5>2, <5>3
      <4> QED
        BY <4>1, <4>2
    <3>2. f = [n \in 0..k |-> f[n]]
      OBVIOUS
    <3> HIDE DEF f
    <3> QED
      BY <3>1, <3>2 DEF IsLoop
  <2> HIDE DEF f
  <2> QED
    BY <2>5
<1> QED
  BY <1>1

(* ForEachPad links every pad. *)
LEMMA ForEachRight ==
  ASSUME NEW s, Whole(s), Rooted(s), inputCaps \in Inputs
  PROVE  LinkedUpTo(ForEachPad(s), s, NPads)
<1> DEFINE f == Loop(s)
<1>0. NPads \in Nat
  BY FormatsAssumption
<1>1. IsLoop(f, s, NPads)
  BY LoopExists, <1>0, Zenon DEF Loop
<1>2. ForEachPad(s) = f[NPads]
  BY DEF ForEachPad, Loop, IsLoop
<1> HIDE DEF f
<1>3. \A n \in 0..NPads : f[n] = IF n = 0 THEN s ELSE add_linked_pads(f[n - 1], n)
  BY <1>1 DEF IsLoop
<1> DEFINE Bad == {n \in 0..NPads : ~LinkedUpTo(f[n], s, n)}
<1>4. ASSUME Bad # {}
      PROVE  FALSE
  <2>0. Bad \in SUBSET Nat
    BY <1>0
  <2>1. PICK n \in Bad : \A m \in Bad : n <= m
    <3> HIDE DEF Bad
    <3> QED
      BY <1>4, <2>0, Least
  <2>2. n \in 0..NPads /\ ~LinkedUpTo(f[n], s, n)
    BY <2>1
  <2>3. CASE n = 0
    <3>1. f[n] = s /\ MoreBins(s, s)
      BY <1>3, <2>2, <2>3, WholeParts DEF MoreBins
    <3>2. \A p \in Pads : ~(p <= n)
      BY <2>3, <1>0 DEF Pads
    <3> QED
      BY <2>2, <3>1, <3>2 DEF LinkedUpTo
  <2>4. CASE n # 0
    <3> DEFINE m == n - 1
               u == f[m]
               t == add_linked_pads(u, n)
    <3>1. m \in 0..NPads /\ m \notin Bad /\ n \in Pads
      BY <1>0, <2>1, <2>2, <2>4 DEF Pads
    <3>2. LinkedUpTo(u, s, m)
      BY <3>1
    <3>3. f[n] = t
      BY <1>3, <2>2, <2>4
    <3> HIDE DEF u
    <3>4. /\ Whole(u) /\ Rooted(u) /\ MoreBins(u, s) /\ (Pure(s) => Pure(u))
      BY <3>2 DEF LinkedUpTo
    <3>5. /\ Handled(t, u, n)
          /\ ~Linked(n) => t.target[n] = u.target[n] /\ t.got[n] = u.got[n]
          /\ Linked(n) => /\ t.target[n] \in t.bins \cup {NoBin} /\ ~t.got[n]
                          /\ Pure(u) /\ on[n] /\ t.target[n] = NoBin
                               => ~CanGive(inputCaps, peer[n])
      BY <3>1, <3>4, AddRight
    <3> HIDE DEF t
    <3>6. Whole(t) /\ Rooted(t) /\ MoreBins(t, u) /\ (Pure(u) => Pure(t)) /\ u.bins \subseteq t.bins
      BY <3>5 DEF Handled, MoreBins
    <3>7. MoreBins(t, s)
      BY <3>4, <3>6, MoreMore
    <3>8. ASSUME NEW p \in Pads
          PROVE  IF p <= n /\ Linked(p)
                 THEN /\ t.target[p] \in t.bins \cup {NoBin} /\ ~t.got[p]
                      /\ Pure(s) /\ on[p] /\ t.target[p] = NoBin => ~CanGive(inputCaps, peer[p])
                 ELSE t.target[p] = s.target[p] /\ t.got[p] = s.got[p]
      <4>1. IF p <= m /\ Linked(p)
            THEN /\ u.target[p] \in u.bins \cup {NoBin} /\ ~u.got[p]
                 /\ Pure(s) /\ on[p] /\ u.target[p] = NoBin => ~CanGive(inputCaps, peer[p])
            ELSE u.target[p] = s.target[p] /\ u.got[p] = s.got[p]
        BY <3>2 DEF LinkedUpTo
      <4>2. CASE p = n
        <5>1. ~(p <= m) /\ p <= n
          BY <2>2, <4>2
        <5> HIDE DEF m
        <5> QED
          BY <3>4, <3>5, <4>1, <4>2, <5>1
      <4>3. CASE p # n
        <5>1. (p <= m <=> p <= n)
          BY <1>0, <2>2, <4>3 DEF Pads
        <5>2. t.target[p] = u.target[p] /\ t.got[p] = u.got[p]
          BY <3>5, <4>3 DEF Handled
        <5> HIDE DEF m
        <5> QED
          BY <3>6, <4>1, <5>1, <5>2
      <4> QED
        BY <4>2, <4>3
    <3>9. LinkedUpTo(t, s, n)
      BY <3>4, <3>6, <3>7, <3>8 DEF LinkedUpTo
    <3> QED
      BY <2>2, <3>3, <3>9
  <2> QED
    BY <2>3, <2>4
<1>5. LinkedUpTo(f[NPads], s, NPads)
  BY <1>0, <1>4
<1> QED
  BY <1>2, <1>5

-----------------------------------------------------------------------------
(* The state of the element.                                               *)

(* The parts of the type invariant. *)
LEMMA Types ==
  ASSUME TypeOK
  PROVE  /\ tree \in Seq(Bin) /\ Len(tree) \in Nat /\ \A b \in 1..Len(tree) : tree[b] \in Bin
         /\ inputBin \in 0..Len(tree) /\ inputBin \in Nat /\ bins \subseteq 1..Len(tree)
         /\ inputCaps \in Inputs \cup {NoCaps} /\ srcCaps \in Inputs \cup {NoCaps}
         /\ target \in [Pads -> Nat] /\ target \in [Pads -> 0..Len(tree)]
         /\ on \in [Pads -> BOOLEAN] /\ got \in [Pads -> BOOLEAN]
         /\ pending \in [Pads -> BOOLEAN] /\ unlinking \in [Pads -> BOOLEAN]
         /\ peer \in [Pads -> Wants \cup {NoPeer, NoPad}]
         /\ cur \in [Pads -> Inputs \cup Rtp \cup {NoCaps}]
         /\ started \in BOOLEAN /\ mixed \in BOOLEAN /\ told \in {"nothing", "active", "inactive"}
<1>1. /\ tree \in Seq(Bin) /\ inputBin \in 0..Len(tree) /\ bins \subseteq 1..Len(tree)
      /\ inputCaps \in Inputs \cup {NoCaps} /\ srcCaps \in Inputs \cup {NoCaps}
      /\ target \in [Pads -> 0..Len(tree)]
      /\ peer \in [Pads -> Wants \cup {NoPeer, NoPad}]
      /\ cur \in [Pads -> Inputs \cup Rtp \cup {NoCaps}]
      /\ started \in BOOLEAN /\ mixed \in BOOLEAN /\ told \in {"nothing", "active", "inactive"}
  BY DEF TypeOK
<1>2. /\ on \in [Pads -> BOOLEAN] /\ got \in [Pads -> BOOLEAN]
      /\ pending \in [Pads -> BOOLEAN] /\ unlinking \in [Pads -> BOOLEAN]
  BY Zenon DEF TypeOK
<1>3. Len(tree) \in Nat /\ \A b \in 1..Len(tree) : tree[b] \in Bin
  BY <1>1, LenProperties, ElementOfSeq
<1>4. target \in [Pads -> Nat]
  BY <1>1, <1>3
<1> QED
  BY <1>1, <1>2, <1>3, <1>4

(* What the search works on is the state. *)
LEMMA NowWhole ==
  ASSUME TypeOK
  PROVE  Whole(Now)
<1>1. bins \in SUBSET Nat
  BY Types
<1>2. Now \in Held
  BY <1>1, Types DEF Now, Held
<1>3. Now.bins \subseteq 1..Len(Now.tree) /\ \A p \in Pads : Now.target[p] \in 0..Len(Now.tree)
  BY Types DEF Now
<1> QED
  BY <1>2, <1>3 DEF Whole

(* ...and its parts. *)
LEMMA NowParts ==
  /\ Now.tree = tree /\ Now.bins = bins /\ Now.told = told /\ Now.src = srcCaps
  /\ Now.target = target /\ Now.got = got
BY DEF Now

(* Once the element has started the input is known. *)
LEMMA InputKnown ==
  ASSUME BinInv, started \/ bins # {} \/ inputBin # NoBin \/ probe # <<>>
  PROVE  inputCaps \in Inputs
<1>1. started \/ bins # {} => inputBin # NoBin
  <2>1. bins # {} => started
    BY DEF BinInv, InputInv
  <2>2. started => inputBin \in bins
    BY NowParts DEF BinInv, InputInv, Rooted
  <2>3. inputBin \in bins => inputBin # NoBin
    BY Types DEF BinInv, NoBin
  <2> QED
    BY <2>1, <2>2, <2>3
<1>2. inputCaps # NoCaps
  BY <1>1 DEF BinInv, InputInv, Idle
<1> QED
  BY <1>2, Types DEF BinInv

(* A step leaves the type invariant true of what pads are linked to. *)
LEMMA BecomesTypes ==
  ASSUME NEW t, Whole(t), Becomes(t)
  PROVE  /\ tree' \in Seq(Bin) /\ Len(tree') \in Nat
         /\ bins' \subseteq 1..Len(tree') /\ told' \in {"nothing", "active", "inactive"}
         /\ srcCaps' \in Inputs \cup {NoCaps}
         /\ target' \in [Pads -> 0..Len(tree')] /\ got' \in [Pads -> BOOLEAN]
<1>1. /\ tree' = t.tree /\ bins' = t.bins /\ told' = t.told /\ srcCaps' = t.src
      /\ target' = t.target /\ got' = t.got
  BY DEF Becomes
<1>2. t.target \in [Pads -> 0..Len(t.tree)]
  BY WholeParts
<1> QED
  BY <1>1, <1>2, WholeParts

(* A step in which bins are added and pads are linked, and the input stays what it is. *)
Grows(t) ==
  /\ Whole(t) /\ MoreBins(t, Now) /\ Becomes(t)
  /\ started => Rooted(t) /\ (Pure(Now) => Pure(t))
  /\ ~started => t.bins = bins
  /\ inputCaps' = inputCaps /\ probe' = probe /\ inputBin' = inputBin
  /\ started' = started /\ mixed' = mixed

(* Nothing done is such a step. *)
LEMMA GrowsNot ==
  ASSUME BinInv, UNCHANGED <<input, made, fed>>
  PROVE  Grows(Now)
<1>1. Whole(Now)
  BY NowWhole DEF BinInv
<1>2. MoreBins(Now, Now)
  BY <1>1, WholeParts DEF MoreBins
<1>3. Becomes(Now)
  BY NowParts DEF Becomes, input, made, fed
<1>4. started => Rooted(Now)
  BY DEF BinInv, InputInv
<1> QED
  BY <1>1, <1>2, <1>3, <1>4, NowParts DEF Grows, input

(* ...and leaves the input as it should be. *)
LEMMA GrowsInput ==
  ASSUME BinInv, NEW t, Grows(t)
  PROVE  /\ InputInv' /\ (Steady' <=> Steady) /\ bins \subseteq bins'
         /\ \A b \in 1..Len(tree) : tree'[b] = tree[b]
         /\ Len(tree) <= Len(tree')
<1>1. /\ tree' = t.tree /\ bins' = t.bins /\ srcCaps' = t.src
      /\ inputCaps' = inputCaps /\ probe' = probe /\ inputBin' = inputBin
      /\ started' = started /\ mixed' = mixed
  BY DEF Grows, Becomes
<1>2. /\ Len(tree) <= Len(tree') /\ \A b \in 1..Len(tree) : tree'[b] = tree[b]
      /\ bins \subseteq bins'
  BY <1>1, NowParts DEF Grows, MoreBins
<1>3. inputBin # NoBin => tree'[inputBin] = tree[inputBin]
  BY <1>2, Types DEF BinInv, NoBin
<1>4. Steady' <=> Steady
  BY <1>1, <1>3 DEF Steady
<1>5. started => Rooted(Now)'
  <2>1. started => Rooted(t)
    BY DEF Grows
  <2> QED
    BY <1>1, <2>1 DEF Rooted, Now
<1>6. Steady /\ started => Pure(Now)'
  <2>1. Steady /\ started => Pure(t)
    BY DEF Grows, BinInv, InputInv
  <2> QED
    BY <1>1, <2>1 DEF Pure, Fits, CanGive, CanRaw, Now
<1>7. ~started => bins' = {}
  BY <1>1 DEF Grows, BinInv, InputInv
<1>8. /\ (inputBin # NoBin \/ ~Idle => inputCaps # NoCaps)'
      /\ (inputBin # NoBin => tree[inputBin].kind = "parse")'
      /\ (inputBin # NoBin /\ ~mixed => tree[inputBin].takes = IF Idle THEN inputCaps ELSE probe[1])'
      /\ (Steady => tree[inputBin].gives = inputCaps)'
  <2>1. Idle' <=> Idle
    BY <1>1 DEF Idle
  <2>2. Steady => inputBin # NoBin
    BY DEF Steady
  <2>3. (inputBin # NoBin /\ ~mixed => tree[inputBin].takes = IF Idle THEN inputCaps ELSE probe[1])'
    BY <1>1, <1>3, <2>1 DEF BinInv, InputInv
  <2>4. /\ (inputBin # NoBin \/ ~Idle => inputCaps # NoCaps)'
        /\ (inputBin # NoBin => tree[inputBin].kind = "parse")'
    BY <1>1, <1>3, <2>1 DEF BinInv, InputInv
  <2>5. (Steady => tree[inputBin].gives = inputCaps)'
    BY <1>1, <1>3, <1>4, <2>2 DEF BinInv, InputInv
  <2> QED
    BY <2>3, <2>4, <2>5
<1>9. InputInv'
  BY <1>1, <1>4, <1>5, <1>6, <1>7, <1>8 DEF InputInv
<1> QED
  BY <1>2, <1>4, <1>9

(* A pad that the step leaves alone. *)
LEMMA GrowsPad ==
  ASSUME BinInv, NEW t, Grows(t), NEW q \in Pads,
         peer'[q] = peer[q], on'[q] = on[q], cur'[q] = cur[q], pending'[q] = pending[q],
         unlinking'[q] = unlinking[q], t.target[q] = target[q], t.got[q] = got[q]
  PROVE  PadInv(q)'
<1>1. /\ inputCaps' = inputCaps /\ inputBin' = inputBin /\ started' = started
      /\ target'[q] = target[q] /\ got'[q] = got[q]
  BY DEF Grows, Becomes
<1>2. /\ (Steady' <=> Steady) /\ bins \subseteq bins'
      /\ \A b \in 1..Len(tree) : tree'[b] = tree[b]
  BY GrowsInput
<1>3. PadInv(q)
  BY DEF BinInv, PadsInv
<1>4. target[q] # NoBin => tree'[target[q]] = tree[target[q]]
  BY <1>2, Types DEF BinInv, NoBin
<1>5. Linked(q)' <=> Linked(q)
  BY DEF Linked
<1>6. CanGive(inputCaps, peer[q])' <=> CanGive(inputCaps, peer[q])
  BY <1>1 DEF CanGive, CanRaw
<1>7. got[q] => target[q] # NoBin
  BY <1>3 DEF PadInv
<1>8. /\ (unlinking[q] => peer[q] = NoPeer)'
      /\ (~Linked(q) /\ ~unlinking[q] => target[q] = NoBin)'
      /\ (Linked(q) => on[q] \/ pending[q])'
      /\ (started /\ Linked(q) => target[q] \in bins \cup {NoBin})'
      /\ (~started => target[q] = NoBin \/ target[q] # inputBin)'
  BY <1>1, <1>2, <1>3, <1>5 DEF PadInv
<1>9. (got[q] => target[q] # NoBin /\ cur[q] = tree[target[q]].gives)'
  BY <1>1, <1>3, <1>4 DEF PadInv
<1>10. (Steady /\ started /\ Linked(q) /\ ~pending[q] =>
          /\ target[q] = NoBin => ~CanGive(inputCaps, peer[q])
          /\ got[q] => Accepts(peer[q], tree[target[q]].gives))'
  BY <1>1, <1>2, <1>3, <1>4, <1>5, <1>6, <1>7 DEF PadInv, Accepts
<1> QED
  BY <1>8, <1>9, <1>10 DEF PadInv

-----------------------------------------------------------------------------
(* Media that flows.                                                       *)

(* Media comes out of bin n when it comes, by f, out of the bin above. *)
Passing(f, n) ==
  /\ n \in bins
  /\ IF tree[n].kind = "parse"
     THEN n = inputBin /\ Passes(n, inputCaps)
     ELSE tree[n].from < n /\ f[tree[n].from] /\ tree[tree[n].from].gives = tree[n].takes
IsFlow(f, k) == f = [n \in 0..k |-> Passing(f, n)]
Flow == CHOOSE f : IsFlow(f, Len(tree))

(* Where media flows is determined for a tree of any size. *)
LEMMA FlowExists ==
  ASSUME TypeOK
  PROVE  IsFlow(Flow, Len(tree))
<1>0. /\ Len(tree) \in Nat /\ bins \subseteq 1..Len(tree)
      /\ \A n \in bins : tree[n].from \in Nat
  BY Types DEF Bin
<1> DEFINE Bad == {k \in 0..Len(tree) : ~\E f : IsFlow(f, k)}
<1>1. ASSUME Bad # {}
      PROVE  FALSE
  <2>0. Bad \in SUBSET Nat
    BY <1>0
  <2>1. PICK k \in Bad : \A j \in Bad : k <= j
    <3> HIDE DEF Bad
    <3> QED
      BY <1>1, <2>0, Least
  <2>2. k # 0
    <3>1. ASSUME NEW f
          PROVE  Passing(f, 0) = FALSE
      BY <1>0 DEF Passing
    <3>2. IsFlow([n \in 0..0 |-> FALSE], 0)
      BY <3>1 DEF IsFlow
    <3> QED
      BY <3>2
  <2>3. k \in Nat /\ k \in 0..Len(tree) /\ k - 1 \in 0..Len(tree) /\ k - 1 \notin Bad
    BY <1>0, <2>1, <2>2
  <2>4. PICK g : IsFlow(g, k - 1)
    BY <2>3
  <2> DEFINE f == [n \in 0..k |-> Passing(g, n)]
  <2>5. ASSUME NEW n \in 0..k
        PROVE  Passing(f, n) = Passing(g, n)
    <3>1. CASE n \in bins /\ tree[n].from < n
      <4>1. tree[n].from \in 0..(k - 1)
        BY <1>0, <2>3, <3>1
      <4>2. g[tree[n].from] = Passing(g, tree[n].from)
        BY <2>4, <4>1 DEF IsFlow
      <4>3. f[tree[n].from] = g[tree[n].from]
        BY <2>3, <4>1, <4>2
      <4> HIDE DEF f
      <4> QED
        BY <4>3 DEF Passing
    <3>2. CASE ~(n \in bins /\ tree[n].from < n)
      <4> HIDE DEF f
      <4> QED
        BY <3>2 DEF Passing
    <3> QED
      BY <3>1, <3>2
  <2>6. IsFlow(f, k)
    BY <2>5 DEF IsFlow
  <2> HIDE DEF f
  <2> QED
    BY <2>1, <2>6
<1>2. \E f : IsFlow(f, Len(tree))
  BY <1>0, <1>1
<1> QED
  BY <1>2, Zenon DEF Flow

(* Where media flows. *)
LEMMA FlowsMeans ==
  ASSUME TypeOK
  PROVE  /\ \A b : Flows(b) <=> Flow[b]
         /\ \A n \in 0..Len(tree) : Flow[n] = Passing(Flow, n)
<1>1. \A b : Flows(b) = Flow[b]
  BY DEF Flows, Flow, IsFlow, Passing
<1>2. IsFlow(Flow, Len(tree))
  BY FlowExists
<1>3. \A n \in 0..Len(tree) : Flow[n] = Passing(Flow, n)
  BY <1>2 DEF IsFlow
<1> QED
  BY <1>1, <1>3

(* Media that flows comes through the input bin. *)
LEMMA FlowsDown ==
  ASSUME TypeOK, NEW b \in 0..Len(tree), Flows(b)
  PROVE  b \in bins /\ Passes(inputBin, inputCaps)
<1>0. /\ Len(tree) \in Nat /\ bins \subseteq 1..Len(tree)
      /\ \A n \in bins : tree[n].from \in Nat
  BY Types DEF Bin
<1>1. Flow[b] /\ \A n \in 0..Len(tree) : Flow[n] = Passing(Flow, n)
  BY FlowsMeans
<1>2. b \in bins
  BY <1>1 DEF Passing
<1> DEFINE Bad == {n \in 0..Len(tree) : Flow[n]}
<1>3. Bad \in SUBSET Nat /\ Bad # {}
  BY <1>0, <1>1
<1>4. PICK n \in Bad : \A m \in Bad : n <= m
  <2> HIDE DEF Bad
  <2> QED
    BY <1>3, Least
<1>5. n \in 0..Len(tree) /\ Passing(Flow, n)
  BY <1>1, <1>4
<1>6. CASE tree[n].kind = "parse"
  BY <1>2, <1>5, <1>6 DEF Passing
<1>7. CASE tree[n].kind # "parse"
  <2>1. n \in bins /\ tree[n].from < n /\ Flow[tree[n].from]
    BY <1>5, <1>7 DEF Passing
  <2>2. tree[n].from \in 0..Len(tree)
    BY <1>0, <1>5, <2>1
  <2>3. tree[n].from \in Bad
    BY <2>1, <2>2
  <2>4. n <= tree[n].from /\ n \in Nat /\ tree[n].from \in Nat
    BY <1>0, <1>4, <1>5, <2>1, <2>3
  <2> QED
    BY <2>1, <2>4
<1> QED
  BY <1>2, <1>6, <1>7

(* Media flows out of every bin of the table while the input stays what it was. *)
LEMMA FlowsAll ==
  ASSUME TypeOK, Rooted(Now), Pure(Now), ~Crashed, Passes(inputBin, inputCaps),
         NEW b \in bins
  PROVE  Flows(b)
<1>0. /\ Len(tree) \in Nat /\ bins \subseteq 1..Len(tree)
      /\ \A n \in bins : tree[n].from \in Nat
  BY Types DEF Bin
<1>1. /\ Flows(b) <=> Flow[b]
      /\ \A n \in 0..Len(tree) : Flow[n] = Passing(Flow, n)
  BY FlowsMeans
<1> DEFINE Bad == {n \in bins : ~Flow[n]}
<1>2. ASSUME Bad # {}
      PROVE  FALSE
  <2>0. Bad \in SUBSET Nat
    <3>1. bins \subseteq Nat
      BY <1>0
    <3> QED
      BY <3>1, Zenon
  <2>1. PICK n \in Bad : \A m \in Bad : n <= m
    <3> HIDE DEF Bad
    <3> QED
      BY <1>2, <2>0, Least
  <2>2. n \in bins /\ n \in 0..Len(tree) /\ ~Passing(Flow, n)
    BY <1>0, <1>1, <2>1
  <2>3. CASE n = inputBin
    BY <2>2, <2>3, NowParts DEF Rooted, Passing
  <2>4. CASE n # inputBin
    <3>1. Hangs(tree[n], n, bins) /\ Fits(Now, tree[n])
      BY <2>2, <2>4, NowParts DEF Rooted, Pure
    <3>2. ~Dangling(tree[n])
      BY <2>2 DEF Crashed, Dangling
    <3>3. /\ tree[n].kind # "parse" /\ tree[n].from \in bins /\ tree[n].from < n
          /\ tree[tree[n].from].gives = tree[n].takes
      BY <3>1, <3>2, NowParts DEF Hangs, Fits
    <3>4. tree[n].from \notin Bad
      BY <1>0, <2>0, <2>1, <2>2, <3>3
    <3>5. Flow[tree[n].from]
      BY <3>3, <3>4
    <3> QED
      BY <2>2, <3>3, <3>5 DEF Passing
  <2> QED
    BY <2>3, <2>4
<1> QED
  BY <1>1, <1>2

-----------------------------------------------------------------------------
(* The steps.                                                              *)

(* The type invariant of the next state, from its parts. *)
LEMMA TypesNext ==
  ASSUME inputCaps' \in Inputs \cup {NoCaps}, srcCaps' \in Inputs \cup {NoCaps},
         probe' \in {<<>>} \cup {<<c>> : c \in Inputs \cup {NoCaps}},
         tree' \in Seq(Bin), inputBin' \in 0..Len(tree'), bins' \subseteq 1..Len(tree'),
         started' \in BOOLEAN, mixed' \in BOOLEAN, told' \in {"nothing", "active", "inactive"},
         peer' \in [Pads -> Wants \cup {NoPeer, NoPad}],
         cur' \in [Pads -> Inputs \cup Rtp \cup {NoCaps}],
         target' \in [Pads -> 0..Len(tree')],
         on' \in [Pads -> BOOLEAN], got' \in [Pads -> BOOLEAN],
         pending' \in [Pads -> BOOLEAN], unlinking' \in [Pads -> BOOLEAN],
         inputs' \in 0..MaxInputs, peers' \in 0..MaxPeers
  PROVE  TypeOK'
BY DEF TypeOK

(* The type invariant after a step that leaves the input alone. *)
LEMMA GrowsTypes ==
  ASSUME BinInv, NEW t, Grows(t),
         peer' \in [Pads -> Wants \cup {NoPeer, NoPad}],
         cur' \in [Pads -> Inputs \cup Rtp \cup {NoCaps}],
         on' \in [Pads -> BOOLEAN], pending' \in [Pads -> BOOLEAN],
         unlinking' \in [Pads -> BOOLEAN], inputs' = inputs, peers' \in 0..MaxPeers
  PROVE  TypeOK'
<1>1. Whole(t) /\ Becomes(t)
  BY DEF Grows
<1>2. /\ tree' \in Seq(Bin) /\ Len(tree') \in Nat
      /\ bins' \subseteq 1..Len(tree') /\ told' \in {"nothing", "active", "inactive"}
      /\ srcCaps' \in Inputs \cup {NoCaps}
      /\ target' \in [Pads -> 0..Len(tree')] /\ got' \in [Pads -> BOOLEAN]
  BY <1>1, BecomesTypes
<1>3. /\ inputCaps' = inputCaps /\ probe' = probe /\ inputBin' = inputBin
      /\ started' = started /\ mixed' = mixed
  BY DEF Grows
<1>4. inputBin' \in 0..Len(tree')
  BY <1>2, <1>3, GrowsInput, Types DEF BinInv
<1>5. /\ inputCaps' \in Inputs \cup {NoCaps} /\ started' \in BOOLEAN /\ mixed' \in BOOLEAN
      /\ inputs' \in 0..MaxInputs
      /\ probe' \in {<<>>} \cup {<<c>> : c \in Inputs \cup {NoCaps}}
  BY <1>3 DEF BinInv, TypeOK
<1> QED
  BY <1>2, <1>4, <1>5, TypesNext

(* A pad whose state changed while the bins did not. *)
LEMMA PadStep ==
  ASSUME BinInv, NEW t, Grows(t), NEW p \in Pads,
         \A q \in Pads \ {p} :
           /\ peer'[q] = peer[q] /\ on'[q] = on[q] /\ cur'[q] = cur[q]
           /\ pending'[q] = pending[q] /\ unlinking'[q] = unlinking[q]
           /\ t.target[q] = target[q] /\ t.got[q] = got[q],
         PadInv(p)', TypeOK'
  PROVE  BinInv'
<1>1. InputInv'
  BY GrowsInput
<1>2. \A q \in Pads \ {p} : PadInv(q)'
  BY GrowsPad
<1>3. PadsInv'
  BY <1>2 DEF PadsInv
<1> QED
  BY <1>1, <1>3 DEF BinInv

(* A new pad. *)
LEMMA RequestStep ==
  ASSUME BinInv, NEW p \in Pads, RequestNewPad(p)
  PROVE  BinInv'
<1>1. Grows(Now)
  BY GrowsNot DEF RequestNewPad
<1>2. /\ peer[p] = NoPad /\ peer' = [peer EXCEPT ![p] = NoPeer]
      /\ on' = on /\ cur' = cur /\ pending' = pending /\ unlinking' = unlinking
      /\ inputs' = inputs /\ peers' = peers
      /\ target' = target /\ got' = got /\ tree' = tree
  BY DEF RequestNewPad, fed, made
<1>3. peer'[p] = NoPeer /\ \A q \in Pads \ {p} : peer'[q] = peer[q]
  BY <1>2, Types DEF BinInv
<1>4. ~Linked(p) /\ ~Linked(p)'
  BY <1>2, <1>3, FormatFacts DEF Linked
<1>5. PadInv(p)'
  <2>1. PadInv(p) /\ NoPeer # NoPad /\ (Steady' <=> Steady)
    BY <1>1, GrowsInput, FormatFacts DEF BinInv, PadsInv
  <2>2. inputBin' = inputBin /\ started' = started
    BY <1>1 DEF Grows
  <2> QED
    BY <1>2, <1>3, <1>4, <2>1, <2>2 DEF PadInv
<1>6. TypeOK'
  <2>1. peers \in 0..MaxPeers
    BY DEF BinInv, TypeOK
  <2>2. peer' \in [Pads -> Wants \cup {NoPeer, NoPad}]
    BY <1>2, Types DEF BinInv
  <2> QED
    BY <1>1, <1>2, <2>1, <2>2, Types, GrowsTypes DEF BinInv
<1> QED
  BY <1>1, <1>2, <1>3, <1>5, <1>6, NowParts, PadStep

(* A pad goes. *)
LEMMA ReleaseStep ==
  ASSUME BinInv, NEW p \in Pads, ReleasePad(p)
  PROVE  BinInv'
<1>1. Grows(Now)
  BY GrowsNot DEF ReleasePad
<1>2. /\ peer[p] = NoPeer /\ ~unlinking[p] /\ peer' = [peer EXCEPT ![p] = NoPad]
      /\ on' = [on EXCEPT ![p] = FALSE] /\ cur' = [cur EXCEPT ![p] = NoCaps]
      /\ pending' = [pending EXCEPT ![p] = FALSE] /\ unlinking' = unlinking
      /\ inputs' = inputs /\ peers' = peers
      /\ target' = target /\ got' = got /\ tree' = tree
  BY DEF ReleasePad, fed, made
<1>3. /\ peer'[p] = NoPad
      /\ \A q \in Pads \ {p} : /\ peer'[q] = peer[q] /\ on'[q] = on[q] /\ cur'[q] = cur[q]
                               /\ pending'[q] = pending[q]
  BY <1>2, Types DEF BinInv
<1>4. ~Linked(p) /\ ~Linked(p)'
  BY <1>2, <1>3, FormatFacts DEF Linked
<1>5. PadInv(p)'
  <2>1. PadInv(p)
    BY DEF BinInv, PadsInv
  <2>2. target[p] = NoBin /\ ~got[p]
    BY <1>2, <1>4, <2>1 DEF PadInv
  <2> QED
    BY <1>2, <1>4, <2>2 DEF PadInv
<1>6. TypeOK'
  <2>1. peers \in 0..MaxPeers
    BY DEF BinInv, TypeOK
  <2>2. peer' \in [Pads -> Wants \cup {NoPeer, NoPad}] /\ cur' \in [Pads -> Inputs \cup Rtp \cup {NoCaps}]
    BY <1>2, Types DEF BinInv
  <2>3. on' \in [Pads -> BOOLEAN] /\ pending' \in [Pads -> BOOLEAN]
    BY <1>2, Types DEF BinInv
  <2> QED
    BY <1>1, <1>2, <2>1, <2>2, <2>3, Types, GrowsTypes DEF BinInv
<1> QED
  BY <1>1, <1>2, <1>3, <1>5, <1>6, NowParts, PadStep

(* A peer says what it wants. *)
LEMMA WantsStep ==
  ASSUME BinInv, NEW p \in Pads, NEW w \in Wants, PeerWants(p, w)
  PROVE  BinInv'
<1>1. Grows(Now)
  BY GrowsNot DEF PeerWants
<1>2. /\ peer[p] \in Wants \/ (peer[p] = NoPeer /\ ~unlinking[p])
      /\ peer' = [peer EXCEPT ![p] = w] /\ pending' = [pending EXCEPT ![p] = TRUE]
      /\ on' = on /\ cur' = cur /\ unlinking' = unlinking
      /\ inputs' = inputs /\ peers < MaxPeers /\ peers' = peers + 1
      /\ target' = target /\ got' = got /\ tree' = tree /\ bins' = bins
  BY DEF PeerWants, MorePeers, fed, made
<1>3. /\ peer'[p] = w /\ pending'[p] = TRUE
      /\ \A q \in Pads \ {p} : peer'[q] = peer[q] /\ pending'[q] = pending[q]
  BY <1>2, Types DEF BinInv
<1>4. Linked(p)'
  BY <1>3 DEF Linked
<1>5. PadInv(p)'
  <2>1. PadInv(p)
    BY DEF BinInv, PadsInv
  <2>2. ~unlinking[p]
    BY <1>2, <2>1, FormatFacts DEF PadInv
  <2>3. started => target[p] \in bins \cup {NoBin}
    BY <1>2, <2>1, <2>2 DEF PadInv, Linked
  <2>4. inputBin' = inputBin /\ started' = started
    BY <1>1 DEF Grows
  <2> QED
    BY <1>2, <1>3, <1>4, <2>1, <2>2, <2>3, <2>4 DEF PadInv
<1>6. TypeOK'
  <2>1. peers' \in 0..MaxPeers
    BY <1>2, FormatsAssumption DEF BinInv, TypeOK
  <2>2. peer' \in [Pads -> Wants \cup {NoPeer, NoPad}]
    BY <1>2, Types DEF BinInv
  <2>3. pending' \in [Pads -> BOOLEAN]
    BY <1>2, Types DEF BinInv
  <2> QED
    BY <1>1, <1>2, <2>1, <2>2, <2>3, Types, GrowsTypes DEF BinInv
<1> QED
  BY <1>1, <1>2, <1>3, <1>5, <1>6, NowParts, PadStep

(* A peer goes. *)
LEMMA UnlinkStep ==
  ASSUME BinInv, NEW p \in Pads, UnlinkPeer(p)
  PROVE  BinInv'
<1>1. Grows(Now)
  BY GrowsNot DEF UnlinkPeer
<1>2. /\ peer' = [peer EXCEPT ![p] = NoPeer] /\ unlinking' = [unlinking EXCEPT ![p] = TRUE]
      /\ on' = on /\ cur' = cur /\ pending' = pending
      /\ inputs' = inputs /\ peers' = peers
      /\ target' = target /\ got' = got /\ tree' = tree
  BY DEF UnlinkPeer, fed, made
<1>3. /\ peer'[p] = NoPeer /\ unlinking'[p] = TRUE
      /\ \A q \in Pads \ {p} : peer'[q] = peer[q] /\ unlinking'[q] = unlinking[q]
  BY <1>2, Types DEF BinInv
<1>4. ~Linked(p)'
  BY <1>3, FormatFacts DEF Linked
<1>5. PadInv(p)'
  <2>1. PadInv(p)
    BY DEF BinInv, PadsInv
  <2>2. inputBin' = inputBin /\ started' = started
    BY <1>1 DEF Grows
  <2> QED
    BY <1>2, <1>3, <1>4, <2>1, <2>2 DEF PadInv
<1>6. TypeOK'
  <2>1. peers \in 0..MaxPeers
    BY DEF BinInv, TypeOK
  <2>2. peer' \in [Pads -> Wants \cup {NoPeer, NoPad}]
    BY <1>2, Types DEF BinInv
  <2>3. unlinking' \in [Pads -> BOOLEAN]
    BY <1>2, Types DEF BinInv
  <2> QED
    BY <1>1, <1>2, <2>1, <2>2, <2>3, Types, GrowsTypes DEF BinInv
<1> QED
  BY <1>1, <1>2, <1>3, <1>5, <1>6, NowParts, PadStep

(* The target of a pad without a peer is removed. *)
LEMMA UnlinkedStep ==
  ASSUME BinInv, NEW p \in Pads, SrcUnlinked(p)
  PROVE  BinInv'
<1> DEFINE t == remove_target_pad(Now, p)
<1>1. /\ unlinking[p] /\ unlinking' = [unlinking EXCEPT ![p] = FALSE]
      /\ on' = [on EXCEPT ![p] = FALSE] /\ Becomes(t)
      /\ inputCaps' = inputCaps /\ probe' = probe /\ inputBin' = inputBin
      /\ started' = started /\ mixed' = mixed /\ peer' = peer /\ cur' = cur
      /\ pending' = pending /\ inputs' = inputs /\ peers' = peers
  BY DEF SrcUnlinked
<1>2. Whole(Now) /\ (started => Rooted(Now))
  BY NowWhole DEF BinInv, InputInv
<1>3. /\ Whole(t) /\ t.tree = Now.tree /\ t.bins = Now.bins /\ t.src = Now.src
      /\ t.target[p] = NoBin /\ ~t.got[p] /\ MoreBins(t, Now)
      /\ \A q \in Pads \ {p} : t.target[q] = Now.target[q] /\ t.got[q] = Now.got[q]
  BY <1>2, RemoveRight
<1> HIDE DEF t
<1>4. Grows(t)
  <2>1. (Rooted(Now) => Rooted(t)) /\ (Pure(Now) => Pure(t))
    BY <1>3, SameBins
  <2> QED
    BY <1>1, <1>2, <1>3, <2>1, NowParts DEF Grows
<1>5. target'[p] = NoBin /\ ~got'[p] /\ ~unlinking'[p]
      /\ \A q \in Pads \ {p} : on'[q] = on[q] /\ unlinking'[q] = unlinking[q]
  <2>1. target' = t.target /\ got' = t.got
    BY <1>1 DEF Becomes
  <2>2. ~unlinking'[p] /\ \A q \in Pads \ {p} : on'[q] = on[q] /\ unlinking'[q] = unlinking[q]
    BY <1>1, Types DEF BinInv
  <2> QED
    BY <1>3, <2>1, <2>2
<1>6. PadInv(p)'
  <2>1. peer[p] = NoPeer
    BY <1>1 DEF BinInv, PadsInv, PadInv
  <2>2. ~Linked(p)'
    BY <1>1, <2>1, FormatFacts DEF Linked
  <2> QED
    BY <1>5, <2>2 DEF PadInv
<1>7. TypeOK'
  <2>1. peers \in 0..MaxPeers
    BY DEF BinInv, TypeOK
  <2>2. unlinking' \in [Pads -> BOOLEAN] /\ on' \in [Pads -> BOOLEAN]
    BY <1>1, Types DEF BinInv
  <2> QED
    BY <1>1, <1>4, <2>1, <2>2, Types, GrowsTypes DEF BinInv
<1>8. \A q \in Pads \ {p} :
        /\ peer'[q] = peer[q] /\ on'[q] = on[q] /\ cur'[q] = cur[q]
        /\ pending'[q] = pending[q] /\ unlinking'[q] = unlinking[q]
        /\ t.target[q] = target[q] /\ t.got[q] = got[q]
  BY <1>1, <1>3, <1>5, NowParts
<1> QED
  BY <1>4, <1>6, <1>7, <1>8, PadStep

(* RECONFIGURE comes to a pad. *)
LEMMA ReconfigureStep ==
  ASSUME BinInv, NEW p \in Pads, Reconfigure(p)
  PROVE  BinInv'
<1> DEFINE yes == TRUE
           ready == started
           t == process_pad(Now, p, yes, ready)
<1>1. /\ pending' = [pending EXCEPT ![p] = FALSE] /\ on' = [on EXCEPT ![p] = TRUE]
      /\ Becomes(t)
      /\ inputCaps' = inputCaps /\ probe' = probe /\ inputBin' = inputBin
      /\ started' = started /\ mixed' = mixed /\ peer' = peer /\ cur' = cur
      /\ unlinking' = unlinking /\ inputs' = inputs /\ peers' = peers
  BY DEF Reconfigure
<1>2. Whole(Now) /\ (started => Rooted(Now)) /\ PadInv(p) /\ MoreBins(Now, Now)
      /\ (~started => bins = {})
  <2>1. Whole(Now)
    BY NowWhole DEF BinInv
  <2>2. MoreBins(Now, Now)
    BY <2>1, WholeParts DEF MoreBins
  <2> QED
    BY <2>1, <2>2 DEF BinInv, InputInv, PadsInv
<1>3. started => inputCaps \in Inputs
  BY InputKnown
<1>4. yes /\ (ready <=> started)
  OBVIOUS
<1> HIDE DEF yes, ready
<1>5. /\ Whole(t) /\ MoreBins(t, Now)
      /\ \A q \in Pads \ {p} : t.target[q] = target[q] /\ t.got[q] = got[q]
      /\ started => Rooted(t) /\ (Pure(Now) => Pure(t))
      /\ ~started => t.bins = bins
      /\ \/ /\ t.target[p] = target[p] /\ t.got[p] = got[p]
            /\ \/ ~started \/ ~Linked(p)
               \/ target[p] # NoBin /\ cur[p] # NoCaps /\ Accepts(peer[p], cur[p])
         \/ t.target[p] \in t.bins /\ t.target[p] # NoBin /\ ~t.got[p] /\ started
         \/ /\ Pure(Now) => ~CanGive(inputCaps, peer[p])
            /\ IF cur[p] # NoCaps THEN t.target[p] = NoBin /\ ~t.got[p]
               ELSE t.target[p] = target[p] /\ t.got[p] = got[p]
  <2>1. CASE started
    <3>1. /\ Handled(t, Now, p)
          /\ \/ /\ t = Now
                /\ \/ ~yes \/ ~ready \/ ~Linked(p)
                   \/ Now.target[p] # NoBin /\ cur[p] # NoCaps /\ Accepts(peer[p], cur[p])
             \/ /\ t.target[p] \in t.bins /\ t.target[p] # NoBin /\ ~t.got[p]
                /\ Tied(Now) => Accepts(peer[p], t.tree[t.target[p]].gives)
             \/ /\ Pure(Now) => ~CanGive(inputCaps, peer[p])
                /\ IF cur[p] # NoCaps THEN t.target[p] = NoBin /\ ~t.got[p]
                   ELSE t.target[p] = Now.target[p] /\ t.got[p] = Now.got[p]
      BY <1>2, <1>3, <2>1, ProcessRight
    <3> HIDE DEF t
    <3> QED
      BY <1>4, <2>1, <3>1, NowParts DEF Handled
  <2>2. CASE ~started
    <3>1. t = Now
      BY <1>4, <2>2, ProcessNot
    <3> HIDE DEF t
    <3> QED
      BY <1>2, <2>2, <3>1, NowParts
  <2> QED
    BY <2>1, <2>2
<1> HIDE DEF t
<1>6. Grows(t)
  BY <1>1, <1>5 DEF Grows
<1>7. target' = t.target /\ got' = t.got /\ bins' = t.bins
  BY <1>1 DEF Becomes
<1>8. /\ pending'[p] = FALSE /\ on'[p] = TRUE
      /\ \A q \in Pads \ {p} : on'[q] = on[q] /\ pending'[q] = pending[q]
  BY <1>1, Types DEF BinInv
<1>9. /\ InputInv' /\ (Steady' <=> Steady) /\ bins \subseteq bins'
      /\ \A b \in 1..Len(tree) : tree'[b] = tree[b]
  BY <1>6, GrowsInput
<1>10. target[p] # NoBin => tree'[target[p]] = tree[target[p]] /\ tree[target[p]].gives # NoCaps
  <2>1. target[p] # NoBin => target[p] \in 1..Len(tree)
    BY Types DEF BinInv, NoBin
  <2>2. target[p] # NoBin => tree[target[p]] \in Bin
    BY <2>1, Types DEF BinInv
  <2>3. target[p] # NoBin => tree[target[p]].gives # NoCaps
    BY <2>2, FormatFacts DEF Bin
  <2> QED
    BY <1>9, <2>1, <2>3
<1>11. (Linked(p)' <=> Linked(p)) /\ (CanGive(inputCaps, peer[p])' <=> CanGive(inputCaps, peer[p]))
  BY <1>1 DEF Linked, CanGive, CanRaw
<1>12. started /\ Linked(p) => t.target[p] \in t.bins \cup {NoBin}
  BY <1>2, <1>5, <1>7, <1>9 DEF PadInv
<1>13. PadInv(p)'
  <2>1. ~Linked(p) => t.target[p] = target[p] \/ t.target[p] = NoBin \/ started
    BY <1>5
  <2>2. /\ (unlinking[p] => peer[p] = NoPeer)'
        /\ (Linked(p) => on[p] \/ pending[p])'
        /\ (started /\ Linked(p) => target[p] \in bins \cup {NoBin})'
    BY <1>1, <1>2, <1>7, <1>8, <1>11, <1>12 DEF PadInv
  <2>3. (~Linked(p) /\ ~unlinking[p] => target[p] = NoBin)'
    <3>1. ASSUME ~Linked(p), ~unlinking[p]
          PROVE  t.target[p] = NoBin
      <4>1. target[p] = NoBin
        BY <1>2, <3>1 DEF PadInv
      <4>2. t = Now
        BY <3>1, ProcessNot DEF t
      <4> QED
        BY <4>1, <4>2, NowParts
    <3> QED
      BY <1>1, <1>7, <1>11, <3>1
  <2>4. (~started => target[p] = NoBin \/ target[p] # inputBin)'
    <3>1. ~started => t.target[p] = target[p] \/ t.target[p] = NoBin
      BY <1>5
    <3> QED
      BY <1>1, <1>2, <1>7, <3>1 DEF PadInv
  <2>5. t.got[p] => got[p] /\ t.target[p] = target[p] /\ target[p] # NoBin /\ cur[p] = tree[target[p]].gives
    BY <1>2, <1>5 DEF PadInv
  <2>6. (got[p] => target[p] # NoBin /\ cur[p] = tree[target[p]].gives)'
    BY <1>1, <1>7, <1>10, <2>5
  <2>7. ASSUME Steady, started, Linked(p)
        PROVE  /\ t.target[p] = NoBin => ~CanGive(inputCaps, peer[p])
               /\ t.got[p] => Accepts(peer[p], tree'[t.target[p]].gives)
    <3>1. Pure(Now)
      BY <2>7 DEF BinInv, InputInv
    <3>2. t.target[p] = NoBin => ~CanGive(inputCaps, peer[p])
      BY <1>5, <2>7, <3>1
    <3>3. ASSUME t.got[p]
          PROVE  Accepts(peer[p], cur[p])
      <4>1. cur[p] # NoCaps
        BY <1>10, <2>5, <3>3
      <4> QED
        BY <1>5, <2>7, <3>3, <4>1
    <3> QED
      BY <1>10, <2>5, <3>2, <3>3
  <2>8. (Steady /\ started /\ Linked(p) /\ ~pending[p] =>
          /\ target[p] = NoBin => ~CanGive(inputCaps, peer[p])
          /\ got[p] => Accepts(peer[p], tree[target[p]].gives))'
    BY <1>1, <1>7, <1>9, <1>11, <2>7 DEF Accepts
  <2> QED
    BY <2>2, <2>3, <2>4, <2>6, <2>8 DEF PadInv
<1>14. TypeOK'
  <2>1. peers \in 0..MaxPeers
    BY DEF BinInv, TypeOK
  <2>2. pending' \in [Pads -> BOOLEAN] /\ on' \in [Pads -> BOOLEAN]
    BY <1>1, Types DEF BinInv
  <2> QED
    BY <1>1, <1>6, <2>1, <2>2, Types, GrowsTypes DEF BinInv
<1>15. \A q \in Pads \ {p} :
         /\ peer'[q] = peer[q] /\ on'[q] = on[q] /\ cur'[q] = cur[q]
         /\ pending'[q] = pending[q] /\ unlinking'[q] = unlinking[q]
         /\ t.target[q] = target[q] /\ t.got[q] = got[q]
  BY <1>1, <1>5, <1>8
<1> QED
  BY <1>6, <1>13, <1>14, <1>15, PadStep

(* A pad that media can come to. *)
LEMMA ReadyMeans ==
  ASSUME BinInv, NEW p \in Pads, CapsReady(p)
  PROVE  /\ target[p] \in bins /\ target[p] # NoBin /\ target[p] \in 1..Len(tree)
         /\ started /\ inputBin \in bins
         /\ inputCaps \in Inputs /\ Linked(p) /\ ~got[p] /\ Passes(inputBin, inputCaps)
<1>1. TypeOK /\ target[p] \in 0..Len(tree) /\ bins \subseteq 1..Len(tree)
  BY Types DEF BinInv
<1>2. target[p] \in bins /\ Passes(inputBin, inputCaps)
  BY <1>1, FlowsDown DEF CapsReady
<1>3. started
  BY <1>2 DEF BinInv, InputInv
<1>4. inputBin \in bins /\ inputCaps \in Inputs
  BY <1>3, InputKnown, NowParts DEF BinInv, InputInv, Rooted
<1> QED
  BY <1>1, <1>2, <1>3, <1>4 DEF CapsReady

(* The caps of the target are accepted by the peer. *)
LEMMA AcceptedStep ==
  ASSUME BinInv, NEW p \in Pads, CapsReady(p), Accepts(peer[p], tree[target[p]].gives),
         cur' = [cur EXCEPT ![p] = tree[target[p]].gives], got' = [got EXCEPT ![p] = TRUE],
         UNCHANGED <<input, made, target, peer, on, pending, unlinking, inputs, peers>>
  PROVE  BinInv'
<1> DEFINE t == [Now EXCEPT !.got = got']
<1>1. /\ tree' = tree /\ bins' = bins /\ told' = told /\ srcCaps' = srcCaps /\ target' = target
      /\ inputCaps' = inputCaps /\ probe' = probe /\ inputBin' = inputBin
      /\ started' = started /\ mixed' = mixed
      /\ peer' = peer /\ on' = on /\ pending' = pending /\ unlinking' = unlinking
      /\ inputs' = inputs /\ peers' = peers
  BY DEF input, made
<1>2. /\ got' \in [Pads -> BOOLEAN] /\ got'[p] = TRUE /\ cur'[p] = tree[target[p]].gives
      /\ \A q \in Pads \ {p} : got'[q] = got[q] /\ cur'[q] = cur[q]
  BY Types DEF BinInv
<1>3. Whole(Now) /\ Now \in Held
  BY NowWhole DEF BinInv, Whole
<1>4. /\ t.tree = tree /\ t.bins = bins /\ t.told = told /\ t.src = srcCaps
      /\ t.target = target /\ t.got = got' /\ t \in Held
  <2>1. Now \in Held /\ got' \in [Pads -> BOOLEAN]
    BY <1>2, <1>3
  <2>2. /\ t.tree = Now.tree /\ t.bins = Now.bins /\ t.told = Now.told /\ t.src = Now.src
        /\ t.target = Now.target /\ t.got = got' /\ t \in Held
    BY <2>1 DEF Held
  <2> QED
    BY <2>2, NowParts
<1> HIDE DEF t
<1>5. Grows(t)
  <2>1. Whole(t)
    BY <1>3, <1>4, NowParts DEF Whole
  <2>2. MoreBins(t, Now)
    BY <1>3, <1>4, WholeParts, NowParts DEF MoreBins
  <2>3. (Rooted(t) <=> Rooted(Now)) /\ (Pure(t) <=> Pure(Now))
    BY <1>4, SameBins, NowParts
  <2>4. Becomes(t)
    BY <1>1, <1>4 DEF Becomes
  <2>5. started => Rooted(Now)
    BY DEF BinInv, InputInv
  <2> QED
    BY <1>1, <1>4, <2>1, <2>2, <2>3, <2>4, <2>5 DEF Grows
<1>6. PadInv(p)'
  <2>1. PadInv(p) /\ Linked(p) /\ target[p] # NoBin /\ started
    BY ReadyMeans DEF BinInv, PadsInv
  <2>2. Linked(p)'
    BY <1>1, <2>1 DEF Linked
  <2>3. Accepts(peer[p], tree[target[p]].gives)'
    BY <1>1 DEF Accepts
  <2> QED
    BY <1>1, <1>2, <2>1, <2>2, <2>3 DEF PadInv
<1>7. TypeOK'
  <2>1. peers \in 0..MaxPeers
    BY DEF BinInv, TypeOK
  <2>2. tree[target[p]].gives \in Inputs \cup Rtp
    BY ReadyMeans, Types DEF Bin, BinInv
  <2>3. cur' \in [Pads -> Inputs \cup Rtp \cup {NoCaps}]
    BY <2>2, Types DEF BinInv
  <2> QED
    BY <1>1, <1>5, <2>1, <2>3, Types, GrowsTypes DEF BinInv
<1>8. \A q \in Pads \ {p} :
        /\ peer'[q] = peer[q] /\ on'[q] = on[q] /\ cur'[q] = cur[q]
        /\ pending'[q] = pending[q] /\ unlinking'[q] = unlinking[q]
        /\ t.target[q] = target[q] /\ t.got[q] = got[q]
  BY <1>1, <1>2, <1>4
<1> QED
  BY <1>5, <1>6, <1>7, <1>8, PadStep

(* What becomes of a pad whose peer refuses the caps of the target. *)
LEMMA RefusedMeans ==
  ASSUME BinInv, NEW p \in Pads, CapsReady(p)
  PROVE  LET t == process_pad(remove_target_pad(Now, p), p, on[p], started)
         IN  /\ Whole(t) /\ MoreBins(t, Now) /\ Rooted(t) /\ (Pure(Now) => Pure(t))
             /\ \A q \in Pads \ {p} : t.target[q] = target[q] /\ t.got[q] = got[q]
             /\ ~t.got[p] /\ t.target[p] \in t.bins \cup {NoBin}
             /\ Tied(Now) /\ t.target[p] # NoBin => Accepts(peer[p], t.tree[t.target[p]].gives)
             /\ Pure(Now) /\ on[p] /\ t.target[p] = NoBin => ~CanGive(inputCaps, peer[p])
<1> DEFINE u == remove_target_pad(Now, p)
           ready == started
           t == process_pad(u, p, on[p], ready)
<1>1. Whole(Now) /\ Rooted(Now) /\ inputCaps \in Inputs /\ started /\ Linked(p)
  BY ReadyMeans, NowWhole DEF BinInv, InputInv
<1>2. ready
  BY <1>1
<1>3. /\ Whole(u) /\ u.tree = Now.tree /\ u.bins = Now.bins /\ u.src = Now.src
      /\ u.target[p] = NoBin /\ ~u.got[p]
      /\ \A q \in Pads \ {p} : u.target[q] = Now.target[q] /\ u.got[q] = Now.got[q]
  BY <1>1, RemoveRight
<1> HIDE DEF u, ready
<1>4. Rooted(u) /\ (Pure(u) <=> Pure(Now)) /\ (Tied(u) <=> Tied(Now))
  BY <1>1, <1>3, SameBins DEF Tied
<1>5. /\ Handled(t, u, p)
      /\ \/ /\ t = u
            /\ \/ ~on[p] \/ ~ready \/ ~Linked(p)
               \/ u.target[p] # NoBin /\ cur[p] # NoCaps /\ Accepts(peer[p], cur[p])
         \/ /\ t.target[p] \in t.bins /\ t.target[p] # NoBin /\ ~t.got[p]
            /\ Tied(u) => Accepts(peer[p], t.tree[t.target[p]].gives)
         \/ /\ Pure(u) => ~CanGive(inputCaps, peer[p])
            /\ IF cur[p] # NoCaps THEN t.target[p] = NoBin /\ ~t.got[p]
               ELSE t.target[p] = u.target[p] /\ t.got[p] = u.got[p]
  BY <1>1, <1>3, <1>4, ProcessRight
<1> HIDE DEF t
<1>6. /\ Whole(t) /\ Rooted(t) /\ MoreBins(t, u) /\ (Pure(u) => Pure(t))
      /\ \A q \in Pads \ {p} : t.target[q] = u.target[q] /\ t.got[q] = u.got[q]
  BY <1>5 DEF Handled
<1>7. MoreBins(t, Now)
  BY <1>3, <1>6 DEF MoreBins
<1>8. /\ ~t.got[p] /\ t.target[p] \in t.bins \cup {NoBin}
      /\ Tied(u) /\ t.target[p] # NoBin => Accepts(peer[p], t.tree[t.target[p]].gives)
      /\ Pure(u) /\ on[p] /\ t.target[p] = NoBin => ~CanGive(inputCaps, peer[p])
  BY <1>1, <1>2, <1>3, <1>5
<1>9. \A q \in Pads \ {p} : t.target[q] = target[q] /\ t.got[q] = got[q]
  BY <1>3, <1>6, NowParts
<1> QED
  BY <1>4, <1>6, <1>7, <1>8, <1>9 DEF t, u, ready

(* The peer refuses the caps of the target. *)
LEMMA RefusedStep ==
  ASSUME BinInv, NEW p \in Pads, CapsReady(p),
         Becomes(process_pad(remove_target_pad(Now, p), p, on[p], started)),
         UNCHANGED <<inputCaps, probe, inputBin, started, mixed, cur, peer, on, pending,
                     unlinking, inputs, peers>>
  PROVE  BinInv'
<1> DEFINE t == process_pad(remove_target_pad(Now, p), p, on[p], started)
<1>1. Becomes(t)
  OBVIOUS
<1>2. /\ Whole(t) /\ MoreBins(t, Now) /\ Rooted(t) /\ (Pure(Now) => Pure(t))
      /\ \A q \in Pads \ {p} : t.target[q] = target[q] /\ t.got[q] = got[q]
      /\ ~t.got[p] /\ t.target[p] \in t.bins \cup {NoBin}
      /\ Pure(Now) /\ on[p] /\ t.target[p] = NoBin => ~CanGive(inputCaps, peer[p])
  BY RefusedMeans
<1> HIDE DEF t
<1>3. started /\ Linked(p) /\ PadInv(p)
  BY ReadyMeans DEF BinInv, PadsInv
<1>4. Grows(t)
  BY <1>1, <1>2, <1>3 DEF Grows
<1>5. target' = t.target /\ got' = t.got /\ bins' = t.bins
  BY <1>1 DEF Becomes
<1>6. PadInv(p)'
  <2>1. Linked(p)' /\ (Steady' <=> Steady)
    BY <1>3, <1>4, GrowsInput DEF Linked
  <2>2. unlinking[p] => peer[p] = NoPeer
    BY <1>3 DEF PadInv
  <2>3. on[p] \/ pending[p]
    BY <1>3 DEF PadInv
  <2>4. Steady /\ ~pending[p] /\ t.target[p] = NoBin => ~CanGive(inputCaps, peer[p])
    BY <1>2, <1>3, <2>3 DEF BinInv, InputInv
  <2>5. (Steady /\ ~pending[p] /\ target[p] = NoBin => ~CanGive(inputCaps, peer[p]))'
    BY <1>5, <2>1, <2>4 DEF CanGive, CanRaw
  <2> QED
    BY <1>2, <1>3, <1>5, <2>1, <2>2, <2>3, <2>5 DEF PadInv
<1>7. TypeOK'
  <2>1. peers \in 0..MaxPeers
    BY DEF BinInv, TypeOK
  <2> QED
    BY <1>4, <2>1, Types, GrowsTypes DEF BinInv
<1>8. \A q \in Pads \ {p} :
        /\ peer'[q] = peer[q] /\ on'[q] = on[q] /\ cur'[q] = cur[q]
        /\ pending'[q] = pending[q] /\ unlinking'[q] = unlinking[q]
        /\ t.target[q] = target[q] /\ t.got[q] = got[q]
  BY <1>2
<1> QED
  BY <1>4, <1>6, <1>7, <1>8, PadStep

(* The caps of the target come to the pad. *)
LEMMA TargetCapsStep ==
  ASSUME BinInv, NEW p \in Pads, TargetCaps(p)
  PROVE  BinInv'
<1>1. CapsReady(p)
  BY DEF TargetCaps
<1>2. CASE Accepts(peer[p], tree[target[p]].gives)
  <2>1. /\ cur' = [cur EXCEPT ![p] = tree[target[p]].gives] /\ got' = [got EXCEPT ![p] = TRUE]
        /\ UNCHANGED <<input, made, target, peer, on, pending, unlinking, inputs, peers>>
    BY <1>2 DEF TargetCaps, input, made
  <2> QED
    BY <1>1, <1>2, <2>1, AcceptedStep
<1>3. CASE ~Accepts(peer[p], tree[target[p]].gives)
  <2>1. /\ Becomes(process_pad(remove_target_pad(Now, p), p, on[p], started))
        /\ UNCHANGED <<inputCaps, probe, inputBin, started, mixed, cur, peer, on, pending,
                       unlinking, inputs, peers>>
    BY <1>3 DEF TargetCaps
  <2> QED
    BY <1>1, <2>1, RefusedStep
<1> QED
  BY <1>2, <1>3

(* A caps event comes: the second section is still to run. *)
LEMMA SinkCapsStep ==
  ASSUME BinInv, NEW c \in Inputs, SinkCaps(c)
  PROVE  BinInv'
<1>1. /\ Idle /\ inputs < MaxInputs /\ inputs' = inputs + 1 /\ inputCaps' = c
      /\ probe' = <<inputCaps>>
      /\ inputBin' = inputBin /\ srcCaps' = srcCaps /\ started' = started /\ mixed' = mixed
      /\ tree' = tree /\ bins' = bins /\ told' = told /\ target' = target /\ got' = got
      /\ peer' = peer /\ on' = on /\ cur' = cur /\ pending' = pending
      /\ unlinking' = unlinking /\ peers' = peers
  BY DEF SinkCaps, MoreInput, made, fed, pads
<1>2. ~Idle' /\ probe'[1] = inputCaps
  BY <1>1 DEF Idle
<1>3. Steady' => Steady /\ inputCaps' = inputCaps
  <2>1. inputBin # NoBin /\ ~mixed => tree[inputBin].takes = inputCaps
    BY <1>1 DEF BinInv, InputInv
  <2> QED
    BY <1>1, <2>1 DEF Steady
<1>4. TypeOK'
  <2>1. inputs' \in 0..MaxInputs /\ peers' \in 0..MaxPeers
    BY <1>1, FormatsAssumption DEF BinInv, TypeOK
  <2>2. probe' \in {<<>>} \cup {<<d>> : d \in Inputs \cup {NoCaps}}
    BY <1>1, Types DEF BinInv
  <2> QED
    BY <1>1, <2>1, <2>2, Types, TypesNext DEF BinInv
<1>5. InputInv'
  <2>1. c # NoCaps
    BY FormatFacts
  <2>2. started => Rooted(Now)'
    BY <1>1 DEF Rooted, Now, BinInv, InputInv
  <2>3. (Steady /\ started => Pure(Now))'
    <3>1. ASSUME Steady', started
          PROVE  Pure(Now)'
      <4>1. Pure(Now) /\ inputCaps' = inputCaps
        BY <1>3, <3>1 DEF BinInv, InputInv
      <4> QED
        BY <1>1, <4>1 DEF Pure, Fits, CanGive, CanRaw, Now
    <3> QED
      BY <1>1, <3>1
  <2>4. (Steady => tree[inputBin].gives = inputCaps)'
    BY <1>1, <1>3 DEF BinInv, InputInv
  <2>5. (inputBin # NoBin /\ ~mixed => tree[inputBin].takes = IF Idle THEN inputCaps ELSE probe[1])'
    BY <1>1, <1>2 DEF BinInv, InputInv
  <2>6. (~started => bins = {})' /\ (inputBin # NoBin => tree[inputBin].kind = "parse")'
    BY <1>1 DEF BinInv, InputInv
  <2> QED
    BY <1>1, <2>1, <2>2, <2>3, <2>4, <2>5, <2>6 DEF InputInv
<1>6. ASSUME NEW p \in Pads
      PROVE  PadInv(p)'
  <2>1. PadInv(p)
    BY DEF BinInv, PadsInv
  <2>2. Linked(p)' <=> Linked(p)
    BY <1>1 DEF Linked
  <2>3. inputCaps' = inputCaps => (CanGive(inputCaps, peer[p])' <=> CanGive(inputCaps, peer[p]))
    BY <1>1 DEF CanGive, CanRaw
  <2>4. (Steady /\ started /\ Linked(p) /\ ~pending[p] =>
          /\ target[p] = NoBin => ~CanGive(inputCaps, peer[p])
          /\ got[p] => Accepts(peer[p], tree[target[p]].gives))'
    BY <1>1, <1>3, <2>1, <2>2, <2>3 DEF PadInv, Accepts
  <2> QED
    BY <1>1, <2>1, <2>2, <2>4 DEF PadInv
<1> QED
  BY <1>4, <1>5, <1>6 DEF BinInv, PadsInv

(* A new input bin. *)
LEMMA ConfigureStep ==
  ASSUME BinInv, inputCaps \in Inputs, configure_input(inputCaps),
         inputCaps' = inputCaps, probe' = <<>>, UNCHANGED <<pads, peers>>,
         inputs' \in 0..MaxInputs
  PROVE  BinInv'
<1> DEFINE x == ParseTreeBin(inputCaps)
           n == Len(tree) + 1
<1>1. /\ tree' = Append(tree, x) /\ inputBin' = n /\ started' = FALSE /\ mixed' = FALSE
      /\ bins' = {} /\ told' = told /\ srcCaps' = srcCaps /\ target' = target /\ got' = got
      /\ peer' = peer /\ on' = on /\ cur' = cur /\ pending' = pending
      /\ unlinking' = unlinking /\ peers' = peers
  BY DEF configure_input, fed, pads
<1>2. x \in Bin /\ x.kind = "parse" /\ x.takes = inputCaps /\ x.gives = inputCaps
  BY DEF ParseTreeBin, Bin, Kinds, NoBin
<1> HIDE DEF x
<1>3. /\ tree \in Seq(Bin) /\ Len(tree) \in Nat /\ target \in [Pads -> 0..Len(tree)]
  BY Types DEF BinInv
<1>4. /\ tree' \in Seq(Bin) /\ Len(tree') = n /\ tree'[n] = x
      /\ \A b \in 1..Len(tree) : tree'[b] = tree[b]
  BY <1>1, <1>2, <1>3, AppendProperties
<1>5. TypeOK'
  <2>1. peers' \in 0..MaxPeers
    BY <1>1 DEF BinInv, TypeOK
  <2>2. /\ inputBin' \in 0..Len(tree') /\ bins' \subseteq 1..Len(tree')
        /\ target' \in [Pads -> 0..Len(tree')]
    BY <1>1, <1>3, <1>4
  <2>3. probe' \in {<<>>} \cup {<<d>> : d \in Inputs \cup {NoCaps}}
    OBVIOUS
  <2> QED
    BY <1>1, <1>4, <2>1, <2>2, <2>3, Types, TypesNext DEF BinInv
<1>6. InputInv'
  <2>1. inputCaps # NoCaps /\ Idle'
    BY FormatFacts DEF Idle
  <2>2. tree'[inputBin'] = x
    BY <1>1, <1>4
  <2> QED
    BY <1>1, <1>2, <2>1, <2>2 DEF InputInv
<1>7. ASSUME NEW p \in Pads
      PROVE  PadInv(p)'
  <2>1. PadInv(p)
    BY DEF BinInv, PadsInv
  <2>2. Linked(p)' <=> Linked(p)
    BY <1>1 DEF Linked
  <2>3. target[p] \in 0..Len(tree) /\ target[p] # n
    BY <1>3
  <2>4. target[p] # NoBin => tree'[target[p]] = tree[target[p]]
    BY <1>3, <1>4, <2>3 DEF NoBin
  <2> HIDE DEF n
  <2> QED
    BY <1>1, <2>1, <2>2, <2>3, <2>4 DEF PadInv
<1> QED
  BY <1>5, <1>6, <1>7 DEF BinInv, PadsInv

(* The second section of the caps event. *)
LEMMA SinkCapsConfigureStep ==
  ASSUME BinInv, SinkCapsConfigure
  PROVE  BinInv'
<1>1. /\ probe # <<>> /\ probe' = <<>> /\ inputCaps' = inputCaps
      /\ UNCHANGED <<pads, inputs, peers>> /\ ~Idle
  BY DEF SinkCapsConfigure, Idle
<1>2. inputCaps \in Inputs /\ inputs' \in 0..MaxInputs
  BY <1>1, InputKnown DEF BinInv, TypeOK
<1>3. CASE configure_input(inputCaps)
  BY <1>1, <1>2, <1>3, ConfigureStep
<1>4. CASE /\ mixed' = (mixed \/ probe[1] # inputCaps)
           /\ UNCHANGED <<inputBin, srcCaps, started, made, fed>>
  <2>1. /\ mixed' = (mixed \/ probe[1] # inputCaps)
        /\ inputBin' = inputBin /\ srcCaps' = srcCaps /\ started' = started
        /\ tree' = tree /\ bins' = bins /\ told' = told /\ target' = target /\ got' = got
        /\ peer' = peer /\ on' = on /\ cur' = cur /\ pending' = pending
        /\ unlinking' = unlinking /\ peers' = peers
    BY <1>1, <1>4 DEF made, fed, pads
  <2>2. mixed' \in BOOLEAN /\ (~mixed' => ~mixed /\ probe[1] = inputCaps)
    BY <2>1
  <2>3. (Steady' => Steady) /\ Idle'
    BY <1>1, <2>1, <2>2 DEF Steady, Idle
  <2>4. TypeOK'
    <3>1. peers' \in 0..MaxPeers
      BY <2>1 DEF BinInv, TypeOK
    <3>2. probe' \in {<<>>} \cup {<<d>> : d \in Inputs \cup {NoCaps}}
      BY <1>1
    <3> QED
      BY <1>1, <1>2, <2>1, <2>2, <3>1, <3>2, Types, TypesNext DEF BinInv
  <2>5. InputInv'
    <3>1. started => Rooted(Now)'
      BY <2>1 DEF Rooted, Now, BinInv, InputInv
    <3>2. Steady /\ started => Pure(Now)'
      <4>1. Steady /\ started => Pure(Now)
        BY DEF BinInv, InputInv
      <4> QED
        BY <1>1, <2>1, <4>1 DEF Pure, Fits, CanGive, CanRaw, Now
    <3>3. inputBin # NoBin /\ ~mixed' => tree[inputBin].takes = inputCaps
      BY <1>1, <2>2 DEF BinInv, InputInv
    <3>4. /\ inputCaps # NoCaps /\ (inputBin # NoBin => tree[inputBin].kind = "parse")
          /\ ~started => bins = {}
          /\ Steady => tree[inputBin].gives = inputCaps
      BY <1>1 DEF BinInv, InputInv
    <3> QED
      BY <1>1, <2>1, <2>3, <3>1, <3>2, <3>3, <3>4 DEF InputInv
  <2>6. ASSUME NEW p \in Pads
        PROVE  PadInv(p)'
    <3>1. PadInv(p)
      BY DEF BinInv, PadsInv
    <3>2. (Linked(p)' <=> Linked(p)) /\ (CanGive(inputCaps, peer[p])' <=> CanGive(inputCaps, peer[p]))
      BY <1>1, <2>1 DEF Linked, CanGive, CanRaw
    <3> QED
      BY <1>1, <2>1, <2>3, <3>1, <3>2 DEF PadInv, Accepts
  <2> QED
    BY <2>4, <2>5, <2>6 DEF BinInv, PadsInv
<1> QED
  BY <1>3, <1>4 DEF SinkCapsConfigure

(* A flow error. *)
LEMMA FlowErrorStep ==
  ASSUME BinInv, FlowError
  PROVE  BinInv'
<1>1. /\ probe = <<>> /\ inputCaps # NoCaps /\ inputs < MaxInputs /\ inputs' = inputs + 1
      /\ configure_input(inputCaps)
      /\ inputCaps' = inputCaps /\ probe' = probe /\ UNCHANGED <<pads, peers>>
  BY DEF FlowError, Idle, MoreInput
<1>2. inputCaps \in Inputs
  BY <1>1, Types DEF BinInv
<1>3. inputs' \in 0..MaxInputs
  BY <1>1, FormatsAssumption DEF BinInv, TypeOK
<1> QED
  BY <1>1, <1>2, <1>3, ConfigureStep

(* New caps come to the tee of the input bin. *)
LEMMA TeeCapsStep ==
  ASSUME BinInv, TeeCaps
  PROVE  BinInv'
<1>1. /\ inputBin \in bins /\ tree[inputBin].gives # inputCaps
      /\ tree' = [tree EXCEPT ![inputBin].gives = inputCaps]
      /\ got' = [p \in Pads |-> got[p] /\ target[p] # inputBin]
      /\ inputCaps' = inputCaps /\ probe' = probe /\ inputBin' = inputBin
      /\ srcCaps' = srcCaps /\ started' = started /\ mixed' = mixed
      /\ bins' = bins /\ told' = told /\ target' = target
      /\ peer' = peer /\ on' = on /\ cur' = cur /\ pending' = pending
      /\ unlinking' = unlinking /\ inputs' = inputs /\ peers' = peers
  BY DEF TeeCaps, TeeReady, input, pads
<1>2. inputCaps \in Inputs /\ inputBin \in 1..Len(tree) /\ tree[inputBin] \in Bin
  BY <1>1, InputKnown, Types DEF BinInv
<1> DEFINE x == [tree[inputBin] EXCEPT !.gives = inputCaps]
<1>3. /\ x \in Bin /\ x.kind = tree[inputBin].kind /\ x.takes = tree[inputBin].takes
      /\ x.from = tree[inputBin].from
  BY <1>2 DEF Bin
<1> HIDE DEF x
<1>4. /\ tree' \in Seq(Bin) /\ Len(tree') = Len(tree) /\ tree'[inputBin] = x
      /\ \A b \in 1..Len(tree) : b # inputBin => tree'[b] = tree[b]
  <2>1. tree' = [tree EXCEPT ![inputBin] = x]
    BY <1>1 DEF x
  <2> QED
    BY <1>2, <1>3, <2>1, Types, ExceptSeq DEF BinInv
<1>5. ~Steady /\ ~Steady'
  BY <1>1, <1>3, <1>4 DEF Steady, BinInv, InputInv
<1>6. TypeOK'
  <2>1. /\ peers' \in 0..MaxPeers /\ inputs' \in 0..MaxInputs
        /\ probe' \in {<<>>} \cup {<<d>> : d \in Inputs \cup {NoCaps}}
    BY <1>1 DEF BinInv, TypeOK
  <2>2. got' \in [Pads -> BOOLEAN]
    BY <1>1
  <2>3. /\ inputBin' \in 0..Len(tree') /\ bins' \subseteq 1..Len(tree')
        /\ target' \in [Pads -> 0..Len(tree')]
    BY <1>1, <1>4, Types DEF BinInv
  <2> QED
    BY <1>1, <1>4, <2>1, <2>2, <2>3, Types, TypesNext DEF BinInv
<1>7. InputInv'
  <2>1. started => Rooted(Now)'
    <3>1. ASSUME started
          PROVE  Rooted(Now)'
      <4>1. Rooted(Now)
        BY <3>1 DEF BinInv, InputInv
      <4>2. inputBin' \in bins' /\ tree'[inputBin'].kind = "parse"
        BY <1>1, <1>3, <1>4, <4>1, NowParts DEF Rooted
      <4>3. ASSUME NEW b \in bins', b # inputBin'
            PROVE  Hangs(tree'[b], b, bins')
        BY <1>1, <1>4, <4>1, <4>3, NowParts, Types DEF Rooted, BinInv
      <4> QED
        BY <4>2, <4>3 DEF Rooted, Now, Hangs, Dangling
    <3> QED
      BY <3>1
  <2>2. /\ (inputBin # NoBin \/ ~Idle => inputCaps # NoCaps)'
        /\ (inputBin # NoBin => tree[inputBin].kind = "parse")'
        /\ (~started => bins = {})'
    BY <1>1, <1>3, <1>4 DEF BinInv, InputInv, Idle
  <2>3. (inputBin # NoBin /\ ~mixed => tree[inputBin].takes = IF Idle THEN inputCaps ELSE probe[1])'
    <3>1. Idle' <=> Idle
      BY <1>1 DEF Idle
    <3> QED
      BY <1>1, <1>3, <1>4, <3>1 DEF BinInv, InputInv
  <2> QED
    BY <1>1, <1>5, <2>1, <2>2, <2>3 DEF InputInv
<1>8. ASSUME NEW p \in Pads
      PROVE  PadInv(p)'
  <2>1. PadInv(p) /\ target[p] \in 0..Len(tree)
    BY Types DEF BinInv, PadsInv
  <2>2. Linked(p)' <=> Linked(p)
    BY <1>1 DEF Linked
  <2>3. got'[p] => got[p] /\ target[p] # inputBin
    BY <1>1
  <2>4. (got[p] => target[p] # NoBin /\ cur[p] = tree[target[p]].gives)'
    <3>1. ASSUME got'[p]
          PROVE  target[p] # NoBin /\ cur[p] = tree'[target[p]].gives
      <4>1. target[p] # NoBin /\ cur[p] = tree[target[p]].gives /\ target[p] # inputBin
        BY <2>1, <2>3, <3>1 DEF PadInv
      <4>2. target[p] \in 1..Len(tree)
        BY <2>1, <4>1, Types DEF NoBin, BinInv
      <4> QED
        BY <1>4, <4>1, <4>2
    <3> QED
      BY <1>1, <3>1
  <2> QED
    BY <1>1, <1>5, <2>1, <2>2, <2>4 DEF PadInv
<1> QED
  BY <1>6, <1>7, <1>8 DEF BinInv, PadsInv

(* The input bin tells its caps, and the pads are linked. *)
LEMMA ParserCapsStep ==
  ASSUME BinInv, ParserCaps
  PROVE  BinInv'
<1> DEFINE x == [tree[inputBin] EXCEPT !.gives = inputCaps]
           tr == [tree EXCEPT ![inputBin] = x]
           s == [Now EXCEPT !.tree = tr, !.src = inputCaps, !.bins = bins \cup {inputBin}]
           t == ForEachPad(s)
<1>1. /\ inputBin # NoBin /\ inputBin \notin bins /\ started' = TRUE
      /\ inputCaps' = inputCaps /\ probe' = probe /\ inputBin' = inputBin /\ mixed' = mixed
      /\ peer' = peer /\ on' = on /\ cur' = cur /\ pending' = pending
      /\ unlinking' = unlinking /\ inputs' = inputs /\ peers' = peers
  BY DEF ParserCaps, ParserReady, pads
<1>2. Becomes(t)
  <2>1. s = [Now EXCEPT !.tree[inputBin].gives = inputCaps, !.src = inputCaps,
                        !.bins = @ \cup {inputBin}]
    BY DEF Now
  <2> QED
    BY <2>1 DEF ParserCaps
<1>3. ~started /\ bins = {}
  BY <1>1, NowParts DEF BinInv, InputInv, Rooted
<1>4. inputCaps \in Inputs /\ inputBin \in 1..Len(tree) /\ tree[inputBin] \in Bin /\ inputBin \in Nat
      /\ tree[inputBin].kind = "parse"
  BY <1>1, InputKnown, Types DEF BinInv, NoBin, InputInv
<1>5. /\ x \in Bin /\ x.kind = "parse" /\ x.takes = tree[inputBin].takes /\ x.gives = inputCaps
  BY <1>4 DEF Bin
<1> HIDE DEF x
<1>6. /\ tr \in Seq(Bin) /\ Len(tr) = Len(tree) /\ tr[inputBin] = x
      /\ \A b \in 1..Len(tree) : b # inputBin => tr[b] = tree[b]
  BY <1>4, <1>5, Types, ExceptSeq DEF BinInv
<1> HIDE DEF tr
<1>7. /\ s \in Held /\ s.tree = tr /\ s.src = inputCaps /\ s.bins = {inputBin}
      /\ s.target = target /\ s.got = got
  <2>1. Now \in Held /\ bins \cup {inputBin} = {inputBin} /\ {inputBin} \in SUBSET Nat
    BY <1>3, <1>4, NowWhole DEF BinInv, Whole
  <2>2. /\ s \in Held /\ s.tree = tr /\ s.src = inputCaps /\ s.bins = {inputBin}
        /\ s.target = Now.target /\ s.got = Now.got
    BY <1>4, <1>6, <2>1 DEF Held
  <2> QED
    BY <2>2, NowParts
<1> HIDE DEF s
<1>8. Whole(s) /\ Rooted(s) /\ Pure(s)
  <2>1. Whole(s)
    BY <1>4, <1>6, <1>7, Types DEF BinInv, Whole
  <2>2. Rooted(s)
    BY <1>5, <1>6, <1>7 DEF Rooted
  <2>3. Pure(s)
    BY <1>5, <1>6, <1>7 DEF Pure
  <2> QED
    BY <2>1, <2>2, <2>3
<1>9. LinkedUpTo(t, s, NPads)
  BY <1>4, <1>8, ForEachRight
<1> HIDE DEF t
<1>10. /\ Whole(t) /\ Rooted(t) /\ MoreBins(t, s) /\ Pure(t)
       /\ \A p \in Pads :
            IF Linked(p)
            THEN /\ t.target[p] \in t.bins \cup {NoBin} /\ ~t.got[p]
                 /\ on[p] /\ t.target[p] = NoBin => ~CanGive(inputCaps, peer[p])
            ELSE t.target[p] = s.target[p] /\ t.got[p] = s.got[p]
  <2>1. \A p \in Pads : p <= NPads
    BY FormatsAssumption DEF Pads
  <2> QED
    BY <1>8, <1>9, <2>1 DEF LinkedUpTo
<1>11. /\ tree' = t.tree /\ bins' = t.bins /\ srcCaps' = t.src /\ target' = t.target
       /\ got' = t.got
  BY <1>2 DEF Becomes
<1>12. /\ Len(tree) <= Len(tree') /\ tree'[inputBin] = x
       /\ \A b \in 1..Len(tree) : b # inputBin => tree'[b] = tree[b]
  BY <1>4, <1>6, <1>7, <1>10, <1>11 DEF MoreBins
<1>13. TypeOK'
  <2>1. /\ tree' \in Seq(Bin) /\ Len(tree') \in Nat
        /\ bins' \subseteq 1..Len(tree') /\ told' \in {"nothing", "active", "inactive"}
        /\ srcCaps' \in Inputs \cup {NoCaps}
        /\ target' \in [Pads -> 0..Len(tree')] /\ got' \in [Pads -> BOOLEAN]
    BY <1>2, <1>10, BecomesTypes
  <2>2. inputBin' \in 0..Len(tree')
    BY <1>1, <1>4, <1>12, <2>1, Types DEF BinInv
  <2>3. /\ peers' \in 0..MaxPeers /\ inputs' \in 0..MaxInputs
        /\ probe' \in {<<>>} \cup {<<d>> : d \in Inputs \cup {NoCaps}}
    BY <1>1 DEF BinInv, TypeOK
  <2>4. started' \in BOOLEAN /\ mixed' \in BOOLEAN
    BY <1>1, Types DEF BinInv
  <2> QED
    BY <1>1, <2>1, <2>2, <2>3, <2>4, Types, TypesNext DEF BinInv
<1>14. InputInv'
  <2>1. Rooted(Now)'
    BY <1>1, <1>10, <1>11 DEF Rooted, Now
  <2>2. Pure(Now)'
    BY <1>1, <1>10, <1>11 DEF Pure, Fits, CanGive, CanRaw, Now
  <2>3. Idle' <=> Idle
    BY <1>1 DEF Idle
  <2>4. (inputBin # NoBin /\ ~mixed => tree[inputBin].takes = IF Idle THEN inputCaps ELSE probe[1])'
    BY <1>1, <1>5, <1>12, <2>3 DEF BinInv, InputInv
  <2>5. inputCaps # NoCaps
    BY <1>4, FormatFacts
  <2> QED
    BY <1>1, <1>5, <1>12, <2>1, <2>2, <2>4, <2>5 DEF InputInv
<1>15. ASSUME NEW p \in Pads
       PROVE  PadInv(p)'
  <2>1. PadInv(p) /\ target[p] \in 0..Len(tree)
    BY Types DEF BinInv, PadsInv
  <2>2. (Linked(p)' <=> Linked(p)) /\ (CanGive(inputCaps, peer[p])' <=> CanGive(inputCaps, peer[p]))
    BY <1>1 DEF Linked, CanGive, CanRaw
  <2>3. CASE Linked(p)
    <3>1. /\ target'[p] \in bins' \cup {NoBin} /\ ~got'[p]
          /\ on[p] /\ target'[p] = NoBin => ~CanGive(inputCaps, peer[p])
      BY <1>10, <1>11, <2>3
    <3>2. (unlinking[p] => peer[p] = NoPeer) /\ (on[p] \/ pending[p])
      BY <2>1, <2>3 DEF PadInv
    <3> QED
      BY <1>1, <2>2, <2>3, <3>1, <3>2 DEF PadInv
  <2>4. CASE ~Linked(p)
    <3>1. target'[p] = target[p] /\ got'[p] = got[p]
      BY <1>7, <1>10, <1>11, <2>4
    <3>2. target[p] = NoBin \/ target[p] # inputBin
      BY <1>3, <2>1 DEF PadInv
    <3>3. target[p] # NoBin => tree'[target[p]] = tree[target[p]]
      <4>1. target[p] # NoBin => target[p] \in 1..Len(tree)
        BY <2>1, Types DEF NoBin, BinInv
      <4> QED
        BY <1>12, <3>2, <4>1
    <3> QED
      BY <1>1, <2>1, <2>2, <2>4, <3>1, <3>3 DEF PadInv
  <2> QED
    BY <2>3, <2>4
<1> QED
  BY <1>13, <1>14, <1>15 DEF BinInv, PadsInv

(* The invariant holds of the first state. *)
LEMMA BinInit ==
  ASSUME Init
  PROVE  BinInv
<1>1. /\ inputCaps = NoCaps /\ probe = <<>> /\ inputBin = NoBin /\ srcCaps = NoCaps
      /\ started = FALSE /\ mixed = FALSE /\ tree = <<>> /\ bins = {} /\ told = "nothing"
      /\ peer = [p \in Pads |-> NoPad] /\ cur = [p \in Pads |-> NoCaps]
      /\ target = [p \in Pads |-> NoBin]
      /\ on = [p \in Pads |-> FALSE] /\ got = [p \in Pads |-> FALSE]
      /\ pending = [p \in Pads |-> FALSE] /\ unlinking = [p \in Pads |-> FALSE]
      /\ inputs = 0 /\ peers = 0
  BY DEF Init
<1>2. <<>> \in Seq(Bin) /\ Len(<<>>) = 0
  BY EmptySeq
<1>3. TypeOK
  <2>1. on \in [Pads -> BOOLEAN] /\ got \in [Pads -> BOOLEAN]
        /\ pending \in [Pads -> BOOLEAN] /\ unlinking \in [Pads -> BOOLEAN]
    BY <1>1
  <2>2. tree \in Seq(Bin) /\ inputBin \in 0..Len(tree) /\ bins \subseteq 1..Len(tree)
        /\ target \in [Pads -> 0..Len(tree)]
    BY <1>1, <1>2 DEF NoBin
  <2>3. inputs \in 0..MaxInputs /\ peers \in 0..MaxPeers
    BY <1>1, FormatsAssumption
  <2>4. /\ peer \in [Pads -> Wants \cup {NoPeer, NoPad}]
        /\ cur \in [Pads -> Inputs \cup Rtp \cup {NoCaps}]
    BY <1>1
  <2> QED
    BY <1>1, <2>1, <2>2, <2>3, <2>4 DEF TypeOK
<1>4. InputInv
  BY <1>1 DEF InputInv, Idle, Steady
<1>5. PadsInv
  BY <1>1, FormatFacts DEF PadsInv, PadInv, Linked
<1> QED
  BY <1>3, <1>4, <1>5 DEF BinInv

(* Nothing happens. *)
LEMMA BinStutter ==
  ASSUME BinInv, UNCHANGED vars
  PROVE  BinInv'
<1>1. /\ inputCaps' = inputCaps /\ probe' = probe /\ inputBin' = inputBin
      /\ srcCaps' = srcCaps /\ started' = started /\ mixed' = mixed
      /\ tree' = tree /\ bins' = bins /\ told' = told /\ target' = target /\ got' = got
      /\ peer' = peer /\ on' = on /\ cur' = cur /\ pending' = pending
      /\ unlinking' = unlinking /\ inputs' = inputs /\ peers' = peers
  BY DEF vars, input, made, fed, pads
<1>2. Grows(Now)
  BY <1>1, GrowsNot DEF input, made, fed
<1>3. TypeOK'
  <2>1. peers \in 0..MaxPeers
    BY DEF BinInv, TypeOK
  <2> QED
    BY <1>1, <1>2, <2>1, Types, GrowsTypes DEF BinInv
<1>4. \A p \in Pads : PadInv(p)'
  BY <1>1, <1>2, GrowsPad, NowParts
<1>5. InputInv'
  BY <1>2, GrowsInput
<1> QED
  BY <1>3, <1>4, <1>5 DEF BinInv, PadsInv

(* Every step keeps the invariant. *)
LEMMA BinNext ==
  ASSUME BinInv, [Next]_vars
  PROVE  BinInv'
<1>1. CASE \E c \in Inputs : SinkCaps(c)
  BY <1>1, SinkCapsStep
<1>2. CASE SinkCapsConfigure
  BY <1>2, SinkCapsConfigureStep
<1>3. CASE FlowError
  BY <1>3, FlowErrorStep
<1>4. CASE ParserCaps
  BY <1>4, ParserCapsStep
<1>5. CASE TeeCaps
  BY <1>5, TeeCapsStep
<1>6. ASSUME NEW p \in Pads,
             \/ RequestNewPad(p) \/ ReleasePad(p) \/ UnlinkPeer(p)
             \/ \E w \in Wants : PeerWants(p, w)
             \/ Internal(p)
      PROVE  BinInv'
  <2>1. CASE RequestNewPad(p)
    BY <2>1, RequestStep
  <2>2. CASE ReleasePad(p)
    BY <2>2, ReleaseStep
  <2>3. CASE UnlinkPeer(p)
    BY <2>3, UnlinkStep
  <2>4. CASE \E w \in Wants : PeerWants(p, w)
    BY <2>4, WantsStep
  <2>5. CASE Reconfigure(p)
    BY <2>5, ReconfigureStep
  <2>6. CASE SrcUnlinked(p)
    BY <2>6, UnlinkedStep
  <2>7. CASE TargetCaps(p)
    BY <2>7, TargetCapsStep
  <2> QED
    BY <1>6, <2>1, <2>2, <2>3, <2>4, <2>5, <2>6, <2>7 DEF Internal
<1>7. CASE UNCHANGED vars
  BY <1>7, BinStutter
<1> QED
  BY <1>1, <1>2, <1>3, <1>4, <1>5, <1>6, <1>7 DEF Next

(* The invariant of the element. *)
LEMMA BinAlways == Spec => []BinInv
<1>1. Init => BinInv
  BY BinInit
<1>2. BinInv /\ [Next]_vars => BinInv'
  BY BinNext
<1> QED
  BY <1>1, <1>2, PTL DEF Spec

(* While the input is what the input bin was made for, and once a bin is in the table. *)
LEMMA SteadyMeans ==
  ASSUME BinInv, Idle, inputBin # NoBin, ~mixed
  PROVE  /\ tree[inputBin].takes = inputCaps /\ Steady
         /\ bins # {} => started /\ Rooted(Now) /\ Pure(Now)
<1>1. tree[inputBin].takes = inputCaps
  BY DEF BinInv, InputInv
<1>2. Steady
  BY <1>1 DEF Steady
<1> QED
  BY <1>1, <1>2 DEF BinInv, InputInv

(* Pads are fed right. *)
LEMMA FedRightHolds ==
  ASSUME BinInv
  PROVE  FedRight
<1> SUFFICES ASSUME Quiet, ~Crashed, inputBin # NoBin, ~mixed, NEW p \in Pads, Linked(p)
             PROVE  IF CanGive(inputCaps, peer[p])
                    THEN target[p] # NoBin /\ Flows(target[p]) /\ Accepts(peer[p], tree[target[p]].gives)
                    ELSE target[p] = NoBin
  BY DEF FedRight
<1>1. Idle /\ ~ParserReady /\ ~pending[p] /\ ~CapsReady(p)
  BY DEF Quiet
<1>2. Steady /\ tree[inputBin].takes = inputCaps /\ Passes(inputBin, inputCaps)
  BY <1>1, SteadyMeans DEF Passes
<1>3. inputBin \in bins
  BY <1>1, <1>2 DEF ParserReady
<1>4. started /\ Rooted(Now) /\ Pure(Now)
  BY <1>1, <1>3, SteadyMeans
<1>5. /\ target[p] \in bins \cup {NoBin}
      /\ target[p] = NoBin => ~CanGive(inputCaps, peer[p])
      /\ got[p] => Accepts(peer[p], tree[target[p]].gives)
  BY <1>1, <1>2, <1>4 DEF BinInv, PadsInv, PadInv
<1>6. CASE target[p] = NoBin
  BY <1>5, <1>6
<1>7. CASE target[p] # NoBin
  <2>1. target[p] \in bins
    BY <1>5, <1>7
  <2>2. Flows(target[p])
    BY <1>2, <1>4, <2>1, FlowsAll DEF BinInv
  <2>3. got[p]
    BY <1>1, <1>7, <2>2 DEF CapsReady
  <2>4. Accepts(peer[p], tree[target[p]].gives)
    BY <1>5, <2>3
  <2>5. CanGive(inputCaps, peer[p])
    <3>1. CASE peer[p] = Any
      BY <3>1 DEF CanGive
    <3>2. CASE peer[p] = tree[target[p]].gives
      <4>1. CASE target[p] = inputBin
        BY <1>4, <3>2, <4>1, NowParts DEF Pure, CanGive
      <4>2. CASE target[p] # inputBin
        <5>1. Fits(Now, tree[target[p]]) /\ ~Dangling(tree[target[p]])
          BY <1>4, <2>1, <4>2, NowParts DEF Pure, Crashed, Dangling
        <5> QED
          BY <3>2, <5>1 DEF Fits
      <4> QED
        BY <4>1, <4>2
    <3> QED
      BY <2>4, <3>1, <3>2 DEF Accepts
  <2> QED
    BY <1>7, <2>2, <2>4, <2>5
<1> QED
  BY <1>6, <1>7

(* The search ends at the right bin. *)
LEMMA SearchSettlesHolds ==
  ASSUME BinInv
  PROVE  SearchSettles
<1>1. MadeOnce
  <2>1. ASSUME Idle, inputBin # NoBin, ~mixed, bins # {}
        PROVE  \A a, b \in bins : tree[a].gives = tree[b].gives => a = b
    BY <2>1, SteadyMeans, NowParts DEF Pure
  <2> QED
    BY <2>1 DEF MadeOnce
<1>2. RefusedOnce
  <2> SUFFICES ASSUME Idle, ~TeeReady, NEW p \in Pads, CapsReady(p)
               PROVE  LET after == process_pad(remove_target_pad(Now, p), p, on[p], started)
                          b     == after.target[p]
                      IN  b = NoBin \/ Accepts(peer[p], after.tree[b].gives)
    BY DEF RefusedOnce
  <2>1. inputBin \in bins /\ Passes(inputBin, inputCaps)
    BY ReadyMeans
  <2>2. tree[inputBin].gives = inputCaps
    BY <2>1 DEF TeeReady
  <2>3. Tied(Now)
    BY <2>2, NowParts DEF Tied
  <2> QED
    BY <2>3, RefusedMeans
<1> QED
  BY <1>1, <1>2 DEF SearchSettles

(* No bin is stale. *)
LEMMA NoStaleBinHolds ==
  ASSUME BinInv, Plugins
  PROVE  NoStaleBin
<1>1. bins # {} => started /\ Rooted(Now)
  BY DEF BinInv, InputInv
<1>2. ASSUME Crashed
      PROVE  mixed \/ tree[inputBin].takes # inputCaps
  <2>1. PICK b \in bins : Dangling(tree[b])
    BY <1>2 DEF Crashed, Dangling
  <2>2. started /\ Rooted(Now)
    BY <1>1, <2>1
  <2>3. tree[inputBin].kind = "parse" /\ inputBin # NoBin
    BY <2>2, NowParts, Types DEF Rooted, BinInv, NoBin
  <2>4. b # inputBin
    BY <2>1, <2>3 DEF Dangling
  <2>5. ASSUME Steady
        PROVE  FALSE
    <3>1. Fits(Now, tree[b])
      BY <2>2, <2>4, <2>5, NowParts DEF BinInv, InputInv, Pure
    <3> QED
      BY <2>1, <3>1 DEF Fits
  <2> QED
    BY <2>3, <2>5 DEF Steady
<1>3. ASSUME NEW b \in bins, b # inputBin, ~Crashed
      PROVE  tree[b].from \in bins
  <2>1. Hangs(tree[b], b, bins)
    BY <1>1, <1>3, NowParts DEF Rooted
  <2>2. ~Dangling(tree[b])
    BY <1>3 DEF Crashed, Dangling
  <2> QED
    BY <2>1, <2>2 DEF Hangs
<1>4. started => \A p \in Pads : Linked(p) /\ on[p] => target[p] \in bins \cup {NoBin}
  BY DEF BinInv, PadsInv, PadInv
<1> QED
  BY <1>2, <1>3, <1>4 DEF NoStaleBin

(* The type invariant. *)
THEOREM BinTypeCorrect == Spec => []TypeOK
<1>1. BinInv => TypeOK
  BY DEF BinInv
<1> QED
  BY <1>1, BinAlways, PTL

(* Once nothing is under way every linked pad whose peer wants what can be made of the input
   gets it, and no pad gets what its peer does not accept, for any number of pads and of
   caps events, RECONFIGURE events, links and unlinks in any order
   (kms_agnostic_bin2_process_pad and its callers). *)
THEOREM PadsFedRight == Spec => []FedRight
<1>1. BinInv => FedRight
  BY FedRightHolds
<1> QED
  BY <1>1, BinAlways, PTL

(* No format is made twice, and a pad whose peer refuses the caps of its target goes to a bin
   that is not refused or to none (find_or_create_bin_for_caps). *)
THEOREM SearchAlwaysSettles == Spec => []SearchSettles
<1>1. BinInv => SearchSettles
  BY SearchSettlesHolds
<1> QED
  BY <1>1, BinAlways, PTL

(* The bins of the table hang together and no pad is left at a bin thrown away, as long as
   every encoded format has a decoder and what a payloader takes has an encoder: a payloader
   is below nothing only after a change from or to raw (create_rtp_pay_bin,
   kms_agnostic_bin2_configure_input). *)
THEOREM NoBinIsStale == Plugins => (Spec => []NoStaleBin)
<1> SUFFICES ASSUME Plugins
             PROVE  Spec => []NoStaleBin
  OBVIOUS
<1>1. BinInv => NoStaleBin
  BY NoStaleBinHolds
<1> QED
  BY <1>1, BinAlways, PTL
=============================================================================
