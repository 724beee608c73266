----------------------------- MODULE MixerProofs -----------------------------
(***************************************************************************)
(* Proofs about the mixers, for any number of inputs.                      *)
(***************************************************************************)
EXTENDS AudioMixer, AudioMixerBin, TLAPS

(* What a branch br and its drain d know of each other.  The streaming thread links the
   adder last, so a branch that is drained is complete and nothing is added to it any more. *)
BranchInv(br, d) ==
  /\ br.thread = "flowing" => br.linked = {}
  /\ br.thread = "typed" => "adder" \notin br.linked
  /\ d.at # "none" => br.pad \in {"releasing", "gone"}
  /\ (d.at \in {"eos_sent", "waiting", "woken"} \/ d.freed \/ d.idle # "none")
       => br.thread = "done" /\ d.at # "none"

(* The probe and the loop hold one reference each; no EOS is under way once one fired the
   probe, and only then the loop has something to do; the drain is done once nobody holds a
   reference. *)
References(br, d) ==
  /\ d.count = (IF d.probe THEN 1 ELSE 0) + (IF d.idle # "none" THEN 1 ELSE 0)
  /\ d.probe_id => br.input # "ending"
  /\ d.idle # "none" => d.probe_id
  /\ d.at = "none" => ~d.probe /\ d.idle = "none" /\ ~d.freed
  /\ d.probe => d.at \in {"eos_sent", "waiting", "woken"}
  /\ d.done => ~d.probe /\ d.idle = "none"
  /\ d.at \in {"eos_sent", "waiting"} => d.done \/ d.probe \/ d.idle # "none"

(* A drain that nothing interrupts: before the EOS, the loop before and after it took the
   probe away, and the end, when the branch is out. *)
Drained(br, d) == d.done /\ d.count = 0 /\ br.made = {} /\ br.linked = {}
Progress(br, d, on) ==
  ~d.stopped =>
    /\ d.at \in {"eos_sent", "waiting"} =>
         /\ on
         /\ \/ d.idle = "none" /\ d.probe
            \/ d.idle = "queued" /\ d.probe
            \/ d.idle = "unlinked" /\ ~d.probe /\ br.linked = {}
            \/ Drained(br, d)
    /\ d.at = "woken" \/ d.freed => Drained(br, d)
    /\ d.at = "end" /\ ~d.freed => ~d.probe /\ d.idle = "none"

BranchDrain(br, d, on) ==
  /\ br \in BranchData /\ d \in DrainData
  /\ BranchInv(br, d) /\ References(br, d) /\ Progress(br, d, on)

(* The inductive invariant of the plain mixer. *)
DrainInv ==
  MixBinTypeOK /\ \A b \in Branches : BranchDrain(branch[b], drain[b], binPlaying)

(* A branch stays one, and a drain stays one, whichever of its fields is written. *)
LEMMA BranchFields ==
  ASSUME NEW br \in BranchData
  PROVE  /\ \A v \in {"none", "present", "releasing", "gone"} : [br EXCEPT !.pad = v] \in BranchData
         /\ \A v \in SUBSET {"typefind", "agnosticbin"} : [br EXCEPT !.made = v] \in BranchData
         /\ \A v \in SUBSET {"typefind", "adder"} : [br EXCEPT !.linked = v] \in BranchData
         /\ \A v \in {"flowing", "typed", "done"} : [br EXCEPT !.thread = v] \in BranchData
         /\ \A v \in {"open", "ending", "ended", "flushing"} : [br EXCEPT !.input = v] \in BranchData
BY DEF BranchData

(* The data of a drain, with one field changed, is still data of a drain. *)
LEMMA DrainFields ==
  ASSUME NEW d \in DrainData
  PROVE  /\ \A v \in {"none", "eos_sent", "waiting", "woken", "end"} : [d EXCEPT !.at = v] \in DrainData
         /\ \A v \in BOOLEAN : [d EXCEPT !.probe = v] \in DrainData
         /\ \A v \in BOOLEAN : [d EXCEPT !.probe_id = v] \in DrainData
         /\ \A v \in {"none", "queued", "unlinked"} : [d EXCEPT !.idle = v] \in DrainData
         /\ \A v \in Int : [d EXCEPT !.count = v] \in DrainData
         /\ \A v \in BOOLEAN : [d EXCEPT !.done = v] \in DrainData
         /\ \A v \in BOOLEAN : [d EXCEPT !.freed = v] \in DrainData
         /\ \A v \in BOOLEAN : [d EXCEPT !.stopped = v] \in DrainData
BY DEF DrainData

(* A step of one branch touches no other (kmsaudiomixerbin.c keeps the data of a branch on
   its pad), so what it leaves in its branch is all there is to look at. *)
LEMMA OneBranch ==
  ASSUME DrainInv, NEW b \in Branches, NEW br, NEW d,
         branch' = [branch EXCEPT ![b] = br], drain' = [drain EXCEPT ![b] = d],
         binPlaying' = binPlaying, BranchDrain(br, d, binPlaying)
  PROVE  DrainInv'
<1>1. MixBinTypeOK'
  BY DEF DrainInv, MixBinTypeOK, BranchDrain
<1>2. ASSUME NEW c \in Branches
      PROVE  BranchDrain(branch[c], drain[c], binPlaying)'
  <2>1. CASE c = b
    <3>1. branch'[c] = br /\ drain'[c] = d
      BY <2>1 DEF DrainInv, MixBinTypeOK
    <3> QED
      BY <3>1
  <2>2. CASE c # b
    <3>1. branch'[c] = branch[c] /\ drain'[c] = drain[c]
      BY <2>2 DEF DrainInv, MixBinTypeOK
    <3> QED
      BY <3>1 DEF DrainInv
  <2> QED
    BY <2>1, <2>2
<1> QED
  BY <1>1, <1>2 DEF DrainInv

(* A step that leaves the branch alone. *)
LEMMA SameBranch ==
  ASSUME DrainInv, NEW b \in Branches, UNCHANGED branch
  PROVE  branch' = [branch EXCEPT ![b] = branch[b]]
BY DEF DrainInv, MixBinTypeOK

(* A step that leaves the drain alone. *)
LEMMA SameDrain ==
  ASSUME DrainInv, NEW b \in Branches, UNCHANGED drain
  PROVE  drain' = [drain EXCEPT ![b] = drain[b]]
BY DEF DrainInv, MixBinTypeOK

(* request_new_pad and the two halves of have_type. *)
LEMMA LinkingSteps ==
  ASSUME DrainInv, NEW b \in Branches,
         RequestBranch(b) \/ BranchTyped(b) \/ BranchMixed(b)
  PROVE  DrainInv'
<1> DEFINE br == branch[b]
           d == drain[b]
<1>1. BranchDrain(br, d, binPlaying)
  BY DEF DrainInv
<1>2. CASE RequestBranch(b)
  <2> DEFINE nb == [br EXCEPT !.pad = "present", !.made = {"typefind"}]
  <2>1. BranchDrain(nb, d, binPlaying)
    BY <1>1, <1>2 DEF BranchDrain, BranchInv, References, Progress, Drained, BranchData, DrainData, RequestBranch
  <2> QED
    BY <2>1, <1>2, SameDrain, OneBranch DEF RequestBranch, SetBranch
<1>3. CASE BranchTyped(b)
  <2> DEFINE nb == [br EXCEPT !.made = @ \cup {"agnosticbin"}, !.linked = @ \cup {"typefind"}, !.thread = "typed"]
  <2>1. BranchDrain(nb, d, binPlaying)
    BY <1>1, <1>3 DEF BranchDrain, BranchInv, References, Progress, Drained, BranchData, DrainData, BranchTyped
  <2> QED
    BY <2>1, <1>3, SameDrain, OneBranch DEF BranchTyped, SetBranch
<1>4. CASE BranchMixed(b)
  <2> DEFINE nb == [br EXCEPT !.linked = @ \cup {"adder"}, !.thread = "done"]
  <2>1. BranchDrain(nb, d, binPlaying)
    BY <1>1, <1>4 DEF BranchDrain, BranchInv, References, Progress, Drained, BranchData, DrainData, BranchMixed
  <2> QED
    BY <2>1, <1>4, SameDrain, OneBranch DEF BranchMixed, SetBranch
<1> QED
  BY <1>2, <1>3, <1>4

(* What comes from upstream. *)
LEMMA InputSteps ==
  ASSUME DrainInv, NEW b \in Branches,
         InputEnds(b) \/ EosPasses(b) \/ InputFlushes(b) \/ FlushEnds(b)
  PROVE  DrainInv'
<1> DEFINE br == branch[b]
           d == drain[b]
<1>1. BranchDrain(br, d, binPlaying)
  BY DEF DrainInv
<1>2. PICK v \in {"open", "ending", "ended", "flushing"} :
        /\ branch' = [branch EXCEPT ![b] = [br EXCEPT !.input = v]]
        /\ UNCHANGED <<binPlaying, drain>>
        /\ v = "ending" => ~d.probe_id
  BY DEF InputEnds, EosPasses, InputFlushes, FlushEnds, SetInput, SetBranch
<1> DEFINE nb == [br EXCEPT !.input = v]
<1>3. BranchDrain(nb, d, binPlaying)
  BY <1>1, <1>2 DEF BranchDrain, BranchInv, References, Progress, Drained, BranchData, DrainData
<1> QED
  BY <1>2, <1>3, SameDrain, OneBranch

(* unlink_pad_in_playing up to the EOS: a branch that is not complete is left as it is. *)
LEMMA BeginDrainStep ==
  ASSUME DrainInv, NEW b \in Branches, BeginDrain(b)
  PROVE  DrainInv'
<1> DEFINE br == branch[b]
           complete == HasAgnostic(b) /\ "adder" \in br.linked
           in == IF complete /\ br.input = "open" THEN "ending" ELSE br.input
           nb == [br EXCEPT !.pad = "releasing", !.input = in]
           sent == [NoDrain EXCEPT !.at = "eos_sent", !.probe = TRUE, !.count = 1]
           nd == IF complete THEN sent ELSE [NoDrain EXCEPT !.at = "end"]
<1>1. BranchDrain(br, drain[b], binPlaying)
  BY DEF DrainInv
<1>2. nb \in BranchData /\ nd \in DrainData
  <2>1. br \in BranchData /\ NoDrain \in DrainData /\ in \in {"open", "ending", "ended", "flushing"}
    BY <1>1 DEF BranchDrain, DrainData, NoDrain, BranchData
  <2> HIDE DEF in
  <2>2. nb \in BranchData
    BY <2>1, BranchFields, Zenon
  <2>3. 1 \in Int
    OBVIOUS
  <2>4. sent \in DrainData /\ [NoDrain EXCEPT !.at = "end"] \in DrainData
    BY <2>1, <2>3, DrainFields, Zenon
  <2> QED
    BY <2>2, <2>4
<1>3. BranchInv(nb, nd) /\ References(nb, nd) /\ Progress(nb, nd, binPlaying)
  <2>1. nb.pad = "releasing" /\ nb.linked = br.linked /\ nb.thread = br.thread
    BY <1>1 DEF BranchDrain, BranchData
  <2>2. CASE complete
    <3>1. br.thread = "done"
      BY <1>1, <2>2 DEF BranchDrain, BranchInv, BranchData
    <3>2. /\ nd.at = "eos_sent" /\ nd.idle = "none" /\ nd.count = 1
          /\ nd.probe /\ ~nd.probe_id /\ ~nd.done /\ ~nd.freed
      BY <2>2 DEF NoDrain
    <3> HIDE DEF nd, nb
    <3> QED
      BY <2>1, <3>1, <3>2 DEF BranchInv, References, Progress, BeginDrain
  <2>3. CASE ~complete
    <3>2. /\ nd.at = "end" /\ nd.idle = "none" /\ nd.count = 0
          /\ ~nd.probe /\ ~nd.probe_id /\ ~nd.done /\ ~nd.freed
      BY <2>3 DEF NoDrain
    <3> HIDE DEF nd, nb
    <3> QED
      BY <1>1, <2>1, <3>2 DEF BranchDrain, BranchInv, References, Progress
  <2> QED
    BY <2>2, <2>3
<1>4. branch' = [branch EXCEPT ![b] = nb] /\ drain' = [drain EXCEPT ![b] = nd]
        /\ binPlaying' = binPlaying
  BY DEF BeginDrain, SetBranch, SetDrain
<1> QED
  BY <1>2, <1>3, <1>4, OneBranch DEF BranchDrain

(* event_probe_cb: the EOS becomes a task of the loop, which holds a reference of its own. *)
LEMMA EventProbeStep ==
  ASSUME DrainInv, NEW b \in Branches, event_probe(b)
  PROVE  DrainInv'
<1> DEFINE d == drain[b]
           nb == [branch[b] EXCEPT !.input = "ended"]
           nd == [d EXCEPT !.probe_id = TRUE, !.idle = "queued", !.count = @ + 1]
<1>1. BranchDrain(branch[b], d, binPlaying)
  BY DEF DrainInv
<1>2. ref_counter_inc([d EXCEPT !.probe_id = TRUE, !.idle = "queued"]) = nd
  BY <1>1 DEF BranchDrain, DrainData, ref_counter_inc
<1>3. BranchDrain(nb, nd, binPlaying)
  <2>1. nb \in BranchData /\ nd \in DrainData
    <3>1. branch[b] \in BranchData /\ d \in DrainData /\ d.count + 1 \in Int
      BY <1>1 DEF BranchDrain, DrainData
    <3> QED
      BY <3>1, BranchFields, DrainFields, Zenon
  <2>5. /\ nd.at = d.at /\ nd.freed = d.freed /\ nd.probe = d.probe /\ nd.done = d.done
        /\ nd.stopped = d.stopped /\ nd.count = d.count + 1 /\ nd.idle = "queued" /\ nd.probe_id
        /\ nb.thread = branch[b].thread /\ nb.pad = branch[b].pad /\ nb.linked = branch[b].linked
        /\ nb.made = branch[b].made /\ nb.input = "ended"
    BY <1>1 DEF BranchDrain, DrainData, BranchData
  <2>6. d.probe /\ d.idle = "none" /\ d.count = 1 /\ ~d.done
    BY <1>1 DEF BranchDrain, References, event_probe, DrainData
  <2> HIDE DEF nb, nd
  <2>2. BranchInv(nb, nd)
    BY <1>1, <2>5, <2>6 DEF BranchDrain, BranchInv, References
  <2>3. References(nb, nd)
    BY <1>1, <2>5, <2>6 DEF BranchDrain, References
  <2>4. Progress(nb, nd, binPlaying)
    BY <1>1, <2>5, <2>6 DEF BranchDrain, Progress, Drained
  <2> QED
    BY <2>1, <2>2, <2>3, <2>4 DEF BranchDrain
<1> QED
  BY <1>2, <1>3, OneBranch DEF event_probe, SetBranch, SetDrain

(* unlink_elements: the loop takes the probe away with its reference and keeps its own. *)
LEMMA UnlinkStep ==
  ASSUME DrainInv, NEW b \in Branches, unlink_elements(b)
  PROVE  DrainInv'
<1> DEFINE d == drain[b]
           nb == [branch[b] EXCEPT !.linked = {}]
           nd == [RemoveProbe(d) EXCEPT !.idle = "unlinked"]
<1>1. BranchDrain(branch[b], d, binPlaying)
  BY DEF DrainInv
<1>2. CASE d.probe
  <2>1. nd = [d EXCEPT !.probe = FALSE, !.count = 1, !.done = FALSE, !.idle = "unlinked"]
    <3>1. d.count = 2 /\ ~d.done /\ d \in DrainData
      BY <1>1, <1>2 DEF BranchDrain, References, DrainData, unlink_elements
    <3>2. RemoveProbe(d) = ref_counter_dec([d EXCEPT !.probe = FALSE])
      BY <1>2 DEF RemoveProbe
    <3>3. ref_counter_dec([d EXCEPT !.probe = FALSE]) = [d EXCEPT !.probe = FALSE, !.count = 1, !.done = FALSE]
      <4> DEFINE d1 == [d EXCEPT !.probe = FALSE]
      <4>1. d1.count = 2 /\ d1.done = FALSE
        BY <3>1 DEF DrainData
      <4> HIDE DEF d1
      <4>2. d1.count - 1 = 1 /\ (d1.done \/ d1.count = 1) = FALSE
        BY <4>1
      <4>3. ref_counter_dec(d1) = [d1 EXCEPT !.count = 1, !.done = FALSE]
        BY <4>2, Zenon DEF ref_counter_dec
      <4> QED
        BY <4>3 DEF d1
    <3> QED
      BY <3>2, <3>3
  <2>2. BranchDrain(nb, nd, binPlaying)
    <3> HIDE DEF nd
    <3>1. nb \in BranchData /\ nd \in DrainData
      <4>1. branch[b] \in BranchData /\ d \in DrainData
        BY <1>1 DEF BranchDrain
      <4>2. 1 \in Int
        OBVIOUS
      <4>3. nd \in DrainData
        BY <2>1, <4>1, <4>2, DrainFields, Zenon
      <4> QED
        BY <4>1, <4>3, BranchFields
    <3>2. BranchInv(nb, nd)
      BY <1>1, <1>2, <2>1 DEF BranchDrain, BranchInv, BranchData, DrainData, unlink_elements
    <3>3. References(nb, nd)
      BY <1>1, <1>2, <2>1 DEF BranchDrain, References, DrainData, unlink_elements
    <3>4. Progress(nb, nd, binPlaying)
      BY <1>1, <1>2, <2>1 DEF BranchDrain, References, Progress, Drained, BranchData, DrainData, unlink_elements
    <3> QED
      BY <3>1, <3>2, <3>3, <3>4 DEF BranchDrain
  <2> QED
    BY <2>2, OneBranch DEF unlink_elements, SetBranch, SetDrain
<1>3. CASE ~d.probe
  <2>1. nd = [d EXCEPT !.idle = "unlinked"]
    BY <1>1, <1>3 DEF RemoveProbe
  <2>2. BranchDrain(nb, nd, binPlaying)
    BY <1>1, <1>3, <2>1
    DEF BranchDrain, BranchInv, References, Progress, Drained, BranchData, DrainData, unlink_elements
  <2> QED
    BY <2>2, OneBranch DEF unlink_elements, SetBranch, SetDrain
<1> QED
  BY <1>2, <1>3 DEF BranchDrain, DrainData

(* remove_elements: the last reference goes, and the drain is done. *)
LEMMA RemoveStep ==
  ASSUME DrainInv, NEW b \in Branches, remove_elements(b)
  PROVE  DrainInv'
<1> DEFINE d == drain[b]
           nb == [branch[b] EXCEPT !.made = {}]
           nd == [d EXCEPT !.idle = "none", !.count = @ - 1, !.done = @ \/ d.count = 1]
<1>1. BranchDrain(branch[b], d, binPlaying)
  BY DEF DrainInv
<1>2. ref_counter_dec([d EXCEPT !.idle = "none"]) = nd
  BY <1>1 DEF BranchDrain, DrainData, ref_counter_dec
<1>3. BranchDrain(nb, nd, binPlaying)
  <2>1. nb \in BranchData /\ nd \in DrainData
    <3>1. branch[b] \in BranchData /\ d \in DrainData
      BY <1>1 DEF BranchDrain
    <3>2. d.count - 1 \in Int /\ (d.done \/ d.count = 1) \in BOOLEAN
      BY <3>1 DEF DrainData
    <3> QED
      BY <3>1, <3>2, BranchFields, DrainFields, Zenon
  <2>2. BranchInv(nb, nd)
    BY <1>1 DEF BranchDrain, BranchInv, BranchData, DrainData, remove_elements
  <2>3. References(nb, nd)
    BY <1>1 DEF BranchDrain, References, DrainData, remove_elements
  <2>4. Progress(nb, nd, binPlaying)
    <3>1. /\ nd.at = d.at /\ nd.idle = "none" /\ nd.count = d.count - 1
          /\ nd.freed <=> d.freed
          /\ nd.stopped <=> d.stopped
      BY <1>1 DEF BranchDrain, DrainData
    <3>2. nd.done <=> (d.done \/ d.count = 1)
      BY <1>1 DEF BranchDrain, DrainData
    <3>3. nb.made = {} /\ nb.linked = branch[b].linked
      BY <1>1 DEF BranchDrain, BranchData
    <3>4. d.idle = "unlinked"
      BY DEF remove_elements
    <3>5. d.count # 0 /\ ~d.done
      BY <1>1, <3>4 DEF BranchDrain, References, DrainData
    <3>6. ASSUME ~d.stopped, d.at \in {"eos_sent", "waiting"}
          PROVE  binPlaying /\ d.count = 1 /\ branch[b].linked = {}
      BY <1>1, <3>4, <3>5, <3>6 DEF BranchDrain, References, Progress, Drained, DrainData
    <3>7. ASSUME ~d.stopped
          PROVE  d.at # "woken" /\ ~d.freed /\ d.at # "end"
      BY <1>1, <3>4, <3>5, <3>7 DEF BranchDrain, Progress, Drained, DrainData
    <3> HIDE DEF d, nb, nd
    <3> QED
      BY <3>1, <3>2, <3>3, <3>6, <3>7 DEF Progress, Drained
  <2> QED
    BY <2>1, <2>2, <2>3, <2>4 DEF BranchDrain
<1> QED
  BY <1>2, <1>3, OneBranch DEF remove_elements, SetBranch, SetDrain

(* The releasing thread waits and is woken up. *)
LEMMA WaitSteps ==
  ASSUME DrainInv, NEW b \in Branches, BeginWait(b) \/ WaitUntilDone(b)
  PROVE  DrainInv'
<1> DEFINE d == drain[b]
           at == IF BeginWait(b) /\ binPlaying THEN "waiting" ELSE "woken"
           nd == [d EXCEPT !.at = at]
<1>1. BranchDrain(branch[b], d, binPlaying)
  BY DEF DrainInv
<1>2. BranchDrain(branch[b], nd, binPlaying)
  BY <1>1 DEF BranchDrain, BranchInv, References, Progress, Drained, BranchData, DrainData,
              BeginWait, WaitUntilDone
<1>3. drain' = [drain EXCEPT ![b] = nd] /\ UNCHANGED <<binPlaying, branch>>
  BY DEF BeginWait, WaitUntilDone, SetDrain
<1> QED
  BY <1>2, <1>3, SameBranch, OneBranch

(* The end of unlink_pad_in_playing: the probe, if it is still there, goes. *)
LEMMA EndDrainStep ==
  ASSUME DrainInv, NEW b \in Branches, EndDrain(b)
  PROVE  DrainInv'
<1> DEFINE d == drain[b]
           nd == [RemoveProbe(d) EXCEPT !.at = "end", !.freed = TRUE]
<1>1. BranchDrain(branch[b], d, binPlaying)
  BY DEF DrainInv
<1>2. BranchDrain(branch[b], nd, binPlaying)
  <2>1. CASE d.probe
    <3>0. nd = [d EXCEPT !.probe = FALSE, !.count = @ - 1, !.done = @ \/ d.count = 1,
                         !.at = "end", !.freed = TRUE]
      BY <1>1, <2>1 DEF BranchDrain, DrainData, RemoveProbe, ref_counter_dec
    <3> HIDE DEF nd
    <3>1. branch[b] \in BranchData /\ nd \in DrainData
      <4>1. branch[b] \in BranchData /\ d \in DrainData
        BY <1>1 DEF BranchDrain
      <4>2. d.count - 1 \in Int /\ (d.done \/ d.count = 1) \in BOOLEAN
        BY <4>1 DEF DrainData
      <4> QED
        BY <3>0, <4>1, <4>2, DrainFields, Zenon
    <3>2. BranchInv(branch[b], nd)
      BY <1>1, <2>1, <3>0 DEF BranchDrain, BranchInv, BranchData, DrainData, EndDrain
    <3>3. References(branch[b], nd)
      BY <1>1, <2>1, <3>0 DEF BranchDrain, References, DrainData, EndDrain
    <3>4. Progress(branch[b], nd, binPlaying)
      BY <1>1, <2>1, <3>0 DEF BranchDrain, References, Progress, Drained, BranchData, DrainData, EndDrain
    <3> QED
      BY <3>1, <3>2, <3>3, <3>4 DEF BranchDrain
  <2>2. CASE ~d.probe
    <3>1. nd = [d EXCEPT !.at = "end", !.freed = TRUE]
      BY <2>2 DEF RemoveProbe
    <3> QED
      BY <1>1, <2>2, <3>1
      DEF BranchDrain, BranchInv, References, Progress, Drained, BranchData, DrainData, EndDrain
  <2> QED
    BY <2>1, <2>2
<1> QED
  BY <1>2, SameBranch, OneBranch DEF EndDrain, SetDrain

(* The pad goes, with its branch when the bin does not play. *)
LEMMA ReleaseSteps ==
  ASSUME DrainInv, NEW b \in Branches, EndRelease(b) \/ ReleaseStopped(b)
  PROVE  DrainInv'
<1> DEFINE br == branch[b]
           d == drain[b]
<1>1. BranchDrain(br, d, binPlaying)
  BY DEF DrainInv
<1>2. CASE EndRelease(b)
  <2> DEFINE nb == [br EXCEPT !.pad = "gone"]
  <2>1. BranchDrain(nb, d, binPlaying)
    BY <1>1, <1>2
    DEF BranchDrain, BranchInv, References, Progress, Drained, BranchData, DrainData, EndRelease
  <2> QED
    BY <1>2, <2>1, SameDrain, OneBranch DEF EndRelease, SetBranch
<1>3. CASE ReleaseStopped(b)
  <2> DEFINE nb == [br EXCEPT !.pad = "gone", !.made = IF HasAgnostic(b) THEN {} ELSE @, !.linked = {}]
  <2>1. BranchDrain(nb, d, binPlaying)
    BY <1>1, <1>3
    DEF BranchDrain, BranchInv, References, Progress, Drained, BranchData, DrainData, ReleaseStopped
  <2> QED
    BY <1>3, <2>1, SameDrain, OneBranch DEF ReleaseStopped, SetBranch
<1> QED
  BY <1>2, <1>3

(* The state of the bin changes: a drain on its way is interrupted and loses its EOS. *)
LEMMA StateStep ==
  ASSUME DrainInv, ChangeBinState
  PROVE  DrainInv'
<1> DEFINE hit(b) == binPlaying /\ drain[b].at \in {"eos_sent", "waiting"}
           nd(b) == [drain[b] EXCEPT !.stopped = @ \/ hit(b)]
           nb(b) == [branch[b] EXCEPT !.input = "open"]
<1>1. ASSUME NEW b \in Branches
      PROVE  BranchDrain(nb(b), nd(b), ~binPlaying)
  <2>1. BranchDrain(branch[b], drain[b], binPlaying) /\ binPlaying \in BOOLEAN
    BY DEF DrainInv, MixBinTypeOK
  <2> DEFINE br == branch[b]
             d == drain[b]
             x == nd(b)
             y == nb(b)
  <2>2. d \in DrainData /\ br \in BranchData /\ hit(b) \in BOOLEAN
    BY <2>1 DEF BranchDrain
  <2>3. x \in DrainData /\ y \in BranchData
    <3>1. (d.stopped \/ hit(b)) \in BOOLEAN
      OBVIOUS
    <3> QED
      BY <2>2, <3>1, DrainFields, BranchFields, Zenon
  <2>4. /\ x.at = d.at /\ x.freed = d.freed /\ x.probe = d.probe /\ x.done = d.done
        /\ x.count = d.count /\ x.idle = d.idle /\ x.probe_id = d.probe_id
        /\ y.thread = br.thread /\ y.pad = br.pad /\ y.linked = br.linked
        /\ y.made = br.made /\ y.input = "open"
    BY <2>2 DEF BranchData, DrainData
  <2>5. ~x.stopped => ~d.stopped /\ ~hit(b)
    BY <2>2 DEF DrainData
  <2>6. ~x.stopped => ~(d.at \in {"eos_sent", "waiting"})
    BY <2>1, <2>5 DEF BranchDrain, Progress
  <2> HIDE DEF x, y, d, br, hit
  <2>7. BranchInv(y, x) /\ References(y, x) /\ Progress(y, x, ~binPlaying)
    <3>1. BranchInv(br, d) /\ References(br, d) /\ Progress(br, d, binPlaying)
      BY <2>1 DEF BranchDrain, br, d
    <3>2. BranchInv(y, x)
      BY <2>4, <3>1 DEF BranchInv
    <3>3. References(y, x)
      BY <2>4, <3>1 DEF References
    <3>4. Progress(y, x, ~binPlaying)
      BY <2>4, <2>5, <2>6, <3>1 DEF Progress, Drained
    <3> QED
      BY <3>2, <3>3, <3>4
  <2> QED
    BY <2>3, <2>7 DEF BranchDrain, x, y
<1>2. /\ drain' = [b \in Branches |-> nd(b)] /\ branch' = [b \in Branches |-> nb(b)]
      /\ binPlaying' = ~binPlaying
  BY DEF ChangeBinState
<1>3. \A b \in Branches : BranchDrain(branch[b], drain[b], binPlaying)'
  BY <1>1, <1>2
<1>4. MixBinTypeOK'
  BY <1>1, <1>2 DEF DrainInv, MixBinTypeOK, BranchDrain
<1> QED
  BY <1>3, <1>4 DEF DrainInv

(* tear_down: every branch goes, none of them while it is drained. *)
LEMMA DisposeStep ==
  ASSUME DrainInv, DisposeBin
  PROVE  DrainInv'
<1> DEFINE nb(b) == [branch[b] EXCEPT !.pad = IF @ = "none" THEN @ ELSE "gone", !.linked = {},
                                      !.made = IF HasAgnostic(b) THEN {} ELSE @]
<1>1. ASSUME NEW b \in Branches
      PROVE  BranchDrain(nb(b), drain[b], binPlaying)
  <2>1. BranchDrain(branch[b], drain[b], binPlaying)
    BY DEF DrainInv
  <2> DEFINE br == branch[b]
             y == nb(b)
             d == drain[b]
  <2>2. br \in BranchData /\ d \in DrainData
    BY <2>1 DEF BranchDrain
  <2>3. /\ y \in BranchData /\ y.thread = br.thread /\ y.linked = {} /\ y.input = br.input
        /\ y.pad \in {br.pad, "gone"} /\ y.made \in {br.made, {}}
    BY <2>2 DEF BranchData
  <2>4. BranchInv(br, d) /\ References(br, d) /\ Progress(br, d, binPlaying)
    BY <2>1 DEF BranchDrain
  <2> HIDE DEF y, br, d
  <2>5. BranchInv(y, d)
    BY <2>3, <2>4 DEF BranchInv
  <2>6. References(y, d)
    BY <2>3, <2>4 DEF References
  <2>7. Progress(y, d, binPlaying)
    BY <2>3, <2>4 DEF Progress, Drained
  <2> QED
    BY <2>2, <2>3, <2>5, <2>6, <2>7 DEF BranchDrain, y, d
<1>2. branch' = [b \in Branches |-> nb(b)] /\ UNCHANGED <<binPlaying, drain>>
  BY DEF DisposeBin
<1>3. \A b \in Branches : BranchDrain(branch[b], drain[b], binPlaying)'
  BY <1>1, <1>2
<1>4. MixBinTypeOK'
  BY <1>1, <1>2 DEF DrainInv, MixBinTypeOK, BranchDrain
<1> QED
  BY <1>3, <1>4 DEF DrainInv

(* Every step of the bin keeps the invariant. *)
LEMMA DrainInvStep ==
  ASSUME DrainInv, [MixBinNext]_mixBinVars
  PROVE  DrainInv'
<1>1. CASE UNCHANGED mixBinVars
  BY <1>1 DEF mixBinVars, DrainInv, MixBinTypeOK
<1>2. CASE MixBinNext
  BY <1>2, LinkingSteps, InputSteps, BeginDrainStep, EventProbeStep, UnlinkStep, RemoveStep, WaitSteps,
     EndDrainStep, ReleaseSteps, StateStep, DisposeStep DEF MixBinNext
<1> QED
  BY <1>1, <1>2

(* A bin starts with no branch. *)
LEMMA DrainInvInit ==
  ASSUME MixBinInit
  PROVE  DrainInv
<1>1. NoBranch \in BranchData /\ NoDrain \in DrainData
  BY DEF NoBranch, NoDrain, BranchData, DrainData
<1>2. BranchInv(NoBranch, NoDrain) /\ References(NoBranch, NoDrain) /\ Progress(NoBranch, NoDrain, FALSE)
  BY DEF NoBranch, NoDrain, BranchInv, References, Progress
<1> QED
  BY <1>1, <1>2 DEF MixBinInit, DrainInv, MixBinTypeOK, BranchDrain

(* The variables of the plain mixer keep their types. *)
THEOREM MixBinTypeCorrect == MixBinSpec => []MixBinTypeOK
<1>1. DrainInv => MixBinTypeOK
  BY DEF DrainInv
<1> QED
  BY <1>1, DrainInvInit, DrainInvStep, PTL DEF MixBinSpec

(* However the streaming threads, what comes from upstream, the loop, the releasing threads
   and the state of the bin interleave, a drain is clean: a thread that waits has somebody
   left who holds a reference and says done when dropping it, and a drain that the bin's state
   does not interrupt ends with the branch out and nobody left to touch its condition
   (unlink_pad_in_playing, event_probe_cb, remove_elements and RefCounter).  That an EOS comes
   for every such thread is not so: see DrainEnds. *)
THEOREM DrainsClean == MixBinSpec => []DrainClean
<1>1. DrainInv => DrainClean
  BY DEF DrainInv, DrainClean, BranchDrain, References, Progress, Drained, DrainData
<1> QED
  BY <1>1, DrainInvInit, DrainInvStep, PTL DEF MixBinSpec

-----------------------------------------------------------------------------
(* kmsaudiomixer.c.  unlinked_pad has taken the input i out of the tables and is at one of
   steps. *)
Going(i, steps) == mixSinks[i] = "unlinking" /\ removing[i].step \in steps
GoingAgnostic(i, steps) == Going(i, steps) /\ removing[i].found.agnostic

(* Which inputs have an agnosticbin and an adder in the bin, and which of them are linked. *)
AgnosticMade(i) == i \in agnostics \/ GoingAgnostic(i, {"unlink", "agnostic"})
AdderMade(i) == i \in adders \/ Going(i, {"unlink", "agnostic", "adder"})
AgnosticLinked(i) == i \in agnostics \/ GoingAgnostic(i, {"unlink"})
AdderLinked(i) == i \in adders \/ Going(i, {"unlink"})

(* The tables follow the sink pad of an input and its streaming thread. *)
TablesInv(i) ==
  /\ mixSinks[i] \in {"requested", "linked"} => i \in adders
  /\ i \in adders => mixSinks[i] \in {"requested", "linked", "gone"}
  /\ i \in typefinds => i \in adders
  /\ mixSinks[i] = "linked" /\ streams[i] \in {"flowing", "typed"} => i \in typefinds
  /\ i \in agnostics => mixSinks[i] = "linked" /\ streams[i] \in {"syncing", "done"}
  /\ mixSinks[i] \in {"none", "requested"} => streams[i] = "flowing"
  /\ mixSinks[i] = "requested" => i \in typefinds

(* A thread in have_type is in a mixer that plays, and unlinked_pad does not pass it. *)
ThreadInv(i) ==
  /\ InHandler(i) => playing /\ mixSinks[i] \in {"linked", "unlinking"}
  /\ streams[i] = "syncing" => AgnosticMade(i)
  /\ mixSinks[i] = "unlinking" =>
       /\ removing[i].step # "none" /\ removing[i].found.adder
       /\ streams[i] = "typed" => removing[i].found.typefind
       /\ removing[i].step # "unlink" /\ removing[i].found.typefind /\ ~removing[i].stop => ~InHandler(i)

(* The bin and the source pads follow the tables and unlinked_pad. *)
ElementsInv(i) ==
  /\ <<"agnosticbin", i>> \in mixBin <=> AgnosticMade(i)
  /\ <<"adder", i>> \in mixBin <=> AdderMade(i)
  /\ i \in teePads <=> mixSrcs[i] = "linked"
  /\ mixSrcs[i] # "none" => AdderMade(i)

LinksInv == \A l \in mixLinks : l[1] # l[2] /\ AgnosticLinked(l[1]) /\ AdderLinked(l[2])

(* The inductive invariant of the mixer. *)
MixInv ==
  /\ MixTypeOK
  /\ \A i \in MixInputs : TablesInv(i) /\ ThreadInv(i) /\ ElementsInv(i)
  /\ LinksInv /\ Heard

(* request_new_pad: the new adder hears every agnosticbin there is. *)
LEMMA RequestStep ==
  ASSUME MixInv, NEW i \in MixInputs, RequestMixPad(i)
  PROVE  MixInv'
<1> USE DEF RequestMixPad, add_src_pad, link_new_adder
<1>1. MixTypeOK'
  BY DEF MixInv, MixTypeOK, Removal
<1>2. ASSUME NEW j \in MixInputs
      PROVE  TablesInv(j)'
  BY DEF MixInv, MixTypeOK, TablesInv, ThreadInv, InHandler
<1>3. ASSUME NEW j \in MixInputs
      PROVE  ThreadInv(j)'
  BY DEF MixInv, MixTypeOK, Removal, TablesInv, ThreadInv, InHandler, Going, GoingAgnostic, AgnosticMade, AdderMade
<1>4. ASSUME NEW j \in MixInputs
      PROVE  ElementsInv(j)'
  BY DEF MixInv, MixTypeOK, Removal, TablesInv, ElementsInv, Going, GoingAgnostic, AgnosticMade, AdderMade
<1>5. LinksInv'
  BY DEF MixInv, MixTypeOK, Removal, TablesInv, LinksInv, Going, GoingAgnostic, AgnosticLinked, AdderLinked
<1>6. Heard'
  <2>1. i \notin agnostics
    BY DEF MixInv, TablesInv
  <2>2. ASSUME NEW a \in adders', NEW g \in agnostics'
        PROVE  (<<g, a>> \in mixLinks') <=> (a # g)
    <3>1. CASE a = i
      BY <2>1, <3>1
    <3>2. CASE a # i
      <4>1. a \in adders /\ g \in agnostics
        BY <3>2
      <4>2. <<g, a>> \in mixLinks' <=> <<g, a>> \in mixLinks
        BY <3>2
      <4> QED
        BY <4>1, <4>2 DEF MixInv, Heard
    <3> QED
      BY <3>1, <3>2
  <2> QED
    BY <2>2 DEF Heard
<1> QED
  BY <1>1, <1>2, <1>3, <1>4, <1>5, <1>6 DEF MixInv

(* A peer is linked to the sink pad of an input. *)
LEMMA LinkSinkStep ==
  ASSUME MixInv, NEW i \in MixInputs, LinkMixSink(i)
  PROVE  MixInv'
<1> USE DEF LinkMixSink, MixStep
<1>1. MixTypeOK'
  BY DEF MixInv, MixTypeOK, Removal
<1>2. ASSUME NEW j \in MixInputs
      PROVE  TablesInv(j)'
  BY DEF MixInv, MixTypeOK, TablesInv, ThreadInv, InHandler
<1>3. ASSUME NEW j \in MixInputs
      PROVE  ThreadInv(j)'
  BY DEF MixInv, MixTypeOK, Removal, TablesInv, ThreadInv, InHandler, Going, GoingAgnostic, AgnosticMade, AdderMade
<1>4. ASSUME NEW j \in MixInputs
      PROVE  ElementsInv(j)'
  BY DEF MixInv, MixTypeOK, Removal, TablesInv, ElementsInv, Going, GoingAgnostic, AgnosticMade, AdderMade
<1>5. LinksInv'
  BY DEF MixInv, MixTypeOK, Removal, TablesInv, LinksInv, Going, GoingAgnostic, AgnosticLinked, AdderLinked
<1>6. Heard'
  BY DEF MixInv, MixTypeOK, TablesInv, LinksInv, Heard, Going, GoingAgnostic, AgnosticLinked, AdderLinked
<1> QED
  BY <1>1, <1>2, <1>3, <1>4, <1>5, <1>6 DEF MixInv

(* The typefind emits have-type, in a mixer that plays. *)
LEMMA TypeFoundStep ==
  ASSUME MixInv, NEW i \in MixInputs, TypeFound(i)
  PROVE  MixInv'
<1> USE DEF TypeFound
<1>1. MixTypeOK'
  BY DEF MixInv, MixTypeOK, Removal
<1>2. ASSUME NEW j \in MixInputs
      PROVE  TablesInv(j)'
  BY DEF MixInv, MixTypeOK, TablesInv, ThreadInv, InHandler
<1>3. ASSUME NEW j \in MixInputs
      PROVE  ThreadInv(j)'
  BY DEF MixInv, MixTypeOK, Removal, TablesInv, ThreadInv, InHandler, Going, GoingAgnostic, AgnosticMade, AdderMade
<1>4. ASSUME NEW j \in MixInputs
      PROVE  ElementsInv(j)'
  BY DEF MixInv, MixTypeOK, Removal, TablesInv, ElementsInv, Going, GoingAgnostic, AgnosticMade, AdderMade
<1>5. LinksInv'
  BY DEF MixInv, MixTypeOK, Removal, TablesInv, LinksInv, Going, GoingAgnostic, AgnosticLinked, AdderLinked
<1>6. Heard'
  BY DEF MixInv, MixTypeOK, TablesInv, LinksInv, Heard, Going, GoingAgnostic, AgnosticLinked, AdderLinked
<1> QED
  BY <1>1, <1>2, <1>3, <1>4, <1>5, <1>6 DEF MixInv

(* have_type under the mutex: the new agnosticbin is heard by every other adder. *)
LEMMA HaveTypeStep ==
  ASSUME MixInv, NEW i \in MixInputs, have_type(i)
  PROVE  MixInv'
<1> USE DEF have_type, StillManaged, link_new_agnosticbin
<1>1. MixTypeOK'
  BY DEF MixInv, MixTypeOK, Removal
<1>2. ASSUME NEW j \in MixInputs
      PROVE  TablesInv(j)'
  BY DEF MixInv, MixTypeOK, TablesInv, ThreadInv, InHandler
<1>3. ASSUME NEW j \in MixInputs
      PROVE  ThreadInv(j)'
  BY DEF MixInv, MixTypeOK, Removal, TablesInv, ThreadInv, InHandler, Going, GoingAgnostic, AgnosticMade, AdderMade
<1>4. ASSUME NEW j \in MixInputs
      PROVE  ElementsInv(j)'
  BY DEF MixInv, MixTypeOK, Removal, TablesInv, ElementsInv, Going, GoingAgnostic, AgnosticMade, AdderMade
<1>5. LinksInv'
  BY DEF MixInv, MixTypeOK, Removal, TablesInv, LinksInv, Going, GoingAgnostic, AgnosticLinked, AdderLinked
<1>6. Heard'
  <2>1. ASSUME i \in typefinds, NEW a \in adders', NEW g \in agnostics'
        PROVE  (<<g, a>> \in mixLinks') <=> (a # g)
    <3>1. a \in adders
      OBVIOUS
    <3>2. CASE g = i
      <4>1. <<i, i>> \notin mixLinks
        BY DEF MixInv, LinksInv
      <4> QED
        BY <2>1, <3>1, <3>2, <4>1
    <3>3. CASE g # i
      <4>1. g \in agnostics /\ (<<g, a>> \in mixLinks' <=> <<g, a>> \in mixLinks)
        BY <2>1, <3>3
      <4> QED
        BY <3>1, <4>1 DEF MixInv, Heard
    <3> QED
      BY <3>2, <3>3
  <2> QED
    BY <2>1 DEF MixInv, Heard
<1> QED
  BY <1>1, <1>2, <1>3, <1>4, <1>5, <1>6 DEF MixInv

(* have_type after the mutex. *)
LEMMA SyncStep ==
  ASSUME MixInv, NEW i \in MixInputs, SyncStates(i)
  PROVE  MixInv'
<1> USE DEF SyncStates
<1>1. MixTypeOK'
  BY DEF MixInv, MixTypeOK, Removal
<1>2. ASSUME NEW j \in MixInputs
      PROVE  TablesInv(j)'
  BY DEF MixInv, MixTypeOK, TablesInv, ThreadInv, InHandler
<1>3. ASSUME NEW j \in MixInputs
      PROVE  ThreadInv(j)'
  BY DEF MixInv, MixTypeOK, Removal, TablesInv, ThreadInv, InHandler, Going, GoingAgnostic, AgnosticMade, AdderMade
<1>4. ASSUME NEW j \in MixInputs
      PROVE  ElementsInv(j)'
  BY DEF MixInv, MixTypeOK, Removal, TablesInv, ElementsInv, Going, GoingAgnostic, AgnosticMade, AdderMade
<1>5. LinksInv'
  BY DEF MixInv, MixTypeOK, Removal, TablesInv, LinksInv, Going, GoingAgnostic, AgnosticLinked, AdderLinked
<1>6. Heard'
  BY DEF MixInv, MixTypeOK, TablesInv, LinksInv, Heard, Going, GoingAgnostic, AgnosticLinked, AdderLinked
<1> QED
  BY <1>1, <1>2, <1>3, <1>4, <1>5, <1>6 DEF MixInv

(* An input that is not linked loses its pad. *)
LEMMA ReleaseUnlinkedStep ==
  ASSUME MixInv, NEW i \in MixInputs, ReleaseUnlinked(i)
  PROVE  MixInv'
<1> USE DEF ReleaseUnlinked, MixStep
<1>1. MixTypeOK'
  BY DEF MixInv, MixTypeOK, Removal
<1>2. ASSUME NEW j \in MixInputs
      PROVE  TablesInv(j)'
  BY DEF MixInv, MixTypeOK, TablesInv, ThreadInv, InHandler
<1>3. ASSUME NEW j \in MixInputs
      PROVE  ThreadInv(j)'
  BY DEF MixInv, MixTypeOK, Removal, TablesInv, ThreadInv, InHandler, Going, GoingAgnostic, AgnosticMade, AdderMade
<1>4. ASSUME NEW j \in MixInputs
      PROVE  ElementsInv(j)'
  BY DEF MixInv, MixTypeOK, Removal, TablesInv, ElementsInv, Going, GoingAgnostic, AgnosticMade, AdderMade
<1>5. LinksInv'
  BY DEF MixInv, MixTypeOK, Removal, TablesInv, LinksInv, Going, GoingAgnostic, AgnosticLinked, AdderLinked
<1>6. Heard'
  BY DEF MixInv, MixTypeOK, TablesInv, LinksInv, Heard, Going, GoingAgnostic, AgnosticLinked, AdderLinked
<1> QED
  BY <1>1, <1>2, <1>3, <1>4, <1>5, <1>6 DEF MixInv

(* remove_elements: no link of the input is left. *)
LEMMA UnlinkElementsStep ==
  ASSUME MixInv, NEW i \in MixInputs, UnlinkElements(i)
  PROVE  MixInv'
<1> USE DEF UnlinkElements, AtStep, ToStep
<1>1. MixTypeOK'
  <2> DEFINE b == removing[i].found.typefind /\ playing
             r == [removing[i] EXCEPT !.step = "agnostic", !.stop = b]
  <2>1. b \in BOOLEAN /\ removing[i] \in Removal
    BY DEF MixInv, MixTypeOK
  <2>2. removing' = [removing EXCEPT ![i] = r]
    OBVIOUS
  <2> HIDE DEF b
  <2>3. r \in Removal
    BY <2>1 DEF Removal
  <2> HIDE DEF r
  <2>4. mixLinks' \subseteq mixLinks
    OBVIOUS
  <2>5. UNCHANGED <<playing, mixSinks, typefinds, agnostics, adders, mixBin, mixSrcs, teePads,
                    streams, mixOps>>
    OBVIOUS
  <2> HIDE DEF UnlinkElements
  <2> QED
    BY <2>2, <2>3, <2>4, <2>5 DEF MixInv, MixTypeOK
<1>2. ASSUME NEW j \in MixInputs
      PROVE  TablesInv(j)'
  BY DEF MixInv, MixTypeOK, TablesInv, ThreadInv, InHandler
<1>3. ASSUME NEW j \in MixInputs
      PROVE  ThreadInv(j)'
  BY DEF MixInv, MixTypeOK, Removal, TablesInv, ThreadInv, InHandler, Going, GoingAgnostic, AgnosticMade, AdderMade
<1>4. ASSUME NEW j \in MixInputs
      PROVE  ElementsInv(j)'
  BY DEF MixInv, MixTypeOK, Removal, TablesInv, ElementsInv, Going, GoingAgnostic, AgnosticMade, AdderMade
<1>5. LinksInv'
  <2>1. i \notin agnostics /\ i \notin adders /\ removing[i].found.adder
    BY DEF MixInv, TablesInv, ThreadInv
  <2>2. ASSUME NEW l \in mixLinks'
        PROVE  (l[1] # l[2] /\ AgnosticLinked(l[1]) /\ AdderLinked(l[2]))'
    <3>1. l \in mixLinks /\ l[1] # l[2] /\ AgnosticLinked(l[1]) /\ AdderLinked(l[2])
      BY DEF MixInv, LinksInv
    <3>2. l[1] # i /\ l[2] # i
      BY <2>1, <3>1 DEF AgnosticLinked, GoingAgnostic
    <3>3. l[1] \in MixInputs /\ l[2] \in MixInputs
      BY <3>1 DEF MixInv, MixTypeOK
    <3>4. removing'[l[1]] = removing[l[1]] /\ removing'[l[2]] = removing[l[2]]
      BY <3>2, <3>3 DEF MixInv, MixTypeOK
    <3> QED
      BY <3>1, <3>4 DEF AgnosticLinked, AdderLinked, Going, GoingAgnostic
  <2> QED
    BY <2>2 DEF LinksInv
<1>6. Heard'
  BY DEF MixInv, MixTypeOK, TablesInv, LinksInv, Heard, Going, GoingAgnostic, AgnosticLinked, AdderLinked
<1> QED
  BY <1>1, <1>2, <1>3, <1>4, <1>5, <1>6 DEF MixInv

(* remove_agnostic_bin: no thread is in have_type any more. *)
LEMMA RemoveAgnosticStep ==
  ASSUME MixInv, NEW i \in MixInputs, remove_agnostic_bin(i)
  PROVE  MixInv'
<1> USE DEF remove_agnostic_bin, AtStep, ToStep
<1>1. MixTypeOK'
  BY DEF MixInv, MixTypeOK, Removal
<1>2. ASSUME NEW j \in MixInputs
      PROVE  TablesInv(j)'
  BY DEF MixInv, MixTypeOK, TablesInv, ThreadInv, InHandler
<1>3. ASSUME NEW j \in MixInputs
      PROVE  ThreadInv(j)'
  BY DEF MixInv, MixTypeOK, Removal, TablesInv, ThreadInv, InHandler, Going, GoingAgnostic, AgnosticMade, AdderMade
<1>4. ASSUME NEW j \in MixInputs
      PROVE  ElementsInv(j)'
  <2>1. i \notin agnostics /\ i \notin adders /\ removing[i].found.adder
    BY DEF MixInv, TablesInv, ThreadInv
  <2>2. TablesInv(j) /\ ElementsInv(j)
    BY DEF MixInv
  <2>3. CASE j = i
    BY <2>1, <2>2, <2>3 DEF MixInv, MixTypeOK, Removal, ElementsInv, Going, GoingAgnostic, AgnosticMade, AdderMade
  <2>4. CASE j # i
    <3>1. removing'[j] = removing[j] /\ mixSrcs'[j] = mixSrcs[j]
      BY <2>4 DEF MixInv, MixTypeOK
    <3>2. /\ <<"agnosticbin", j>> \in mixBin' <=> <<"agnosticbin", j>> \in mixBin
          /\ <<"adder", j>> \in mixBin' <=> <<"adder", j>> \in mixBin
          /\ j \in teePads' <=> j \in teePads
      BY <2>4
    <3> QED
      BY <2>2, <3>1, <3>2 DEF ElementsInv, Going, GoingAgnostic, AgnosticMade, AdderMade
  <2> QED
    BY <2>3, <2>4
<1>5. LinksInv'
  BY DEF MixInv, MixTypeOK, Removal, TablesInv, LinksInv, Going, GoingAgnostic, AgnosticLinked, AdderLinked
<1>6. Heard'
  BY DEF MixInv, MixTypeOK, TablesInv, LinksInv, Heard, Going, GoingAgnostic, AgnosticLinked, AdderLinked
<1> QED
  BY <1>1, <1>2, <1>3, <1>4, <1>5, <1>6 DEF MixInv

(* remove_adder takes the source pad with it. *)
LEMMA RemoveAdderStep ==
  ASSUME MixInv, NEW i \in MixInputs, remove_adder(i)
  PROVE  MixInv'
<1> USE DEF remove_adder, AtStep, ToStep
<1>1. MixTypeOK'
  BY DEF MixInv, MixTypeOK, Removal
<1>2. ASSUME NEW j \in MixInputs
      PROVE  TablesInv(j)'
  BY DEF MixInv, MixTypeOK, TablesInv, ThreadInv, InHandler
<1>3. ASSUME NEW j \in MixInputs
      PROVE  ThreadInv(j)'
  BY DEF MixInv, MixTypeOK, Removal, TablesInv, ThreadInv, InHandler, Going, GoingAgnostic, AgnosticMade, AdderMade
<1>4. ASSUME NEW j \in MixInputs
      PROVE  ElementsInv(j)'
  <2>1. i \notin agnostics /\ i \notin adders /\ removing[i].found.adder
    BY DEF MixInv, TablesInv, ThreadInv
  <2>2. TablesInv(j) /\ ElementsInv(j)
    BY DEF MixInv
  <2>3. CASE j = i
    BY <2>1, <2>2, <2>3 DEF MixInv, MixTypeOK, Removal, ElementsInv, Going, GoingAgnostic, AgnosticMade, AdderMade
  <2>4. CASE j # i
    <3>1. removing'[j] = removing[j] /\ mixSrcs'[j] = mixSrcs[j]
      BY <2>4 DEF MixInv, MixTypeOK
    <3>2. /\ <<"agnosticbin", j>> \in mixBin' <=> <<"agnosticbin", j>> \in mixBin
          /\ <<"adder", j>> \in mixBin' <=> <<"adder", j>> \in mixBin
          /\ j \in teePads' <=> j \in teePads
      BY <2>4
    <3> QED
      BY <2>2, <3>1, <3>2 DEF ElementsInv, Going, GoingAgnostic, AgnosticMade, AdderMade
  <2> QED
    BY <2>3, <2>4
<1>5. LinksInv'
  BY DEF MixInv, MixTypeOK, Removal, TablesInv, LinksInv, Going, GoingAgnostic, AgnosticLinked, AdderLinked
<1>6. Heard'
  BY DEF MixInv, MixTypeOK, TablesInv, LinksInv, Heard, Going, GoingAgnostic, AgnosticLinked, AdderLinked
<1> QED
  BY <1>1, <1>2, <1>3, <1>4, <1>5, <1>6 DEF MixInv

(* The end of unlinked_pad. *)
LEMMA EndUnlinkedStep ==
  ASSUME MixInv, NEW i \in MixInputs, EndUnlinked(i)
  PROVE  MixInv'
<1> USE DEF EndUnlinked, AtStep, ToStep
<1>1. MixTypeOK'
  BY DEF MixInv, MixTypeOK, Removal
<1>2. ASSUME NEW j \in MixInputs
      PROVE  TablesInv(j)'
  BY DEF MixInv, MixTypeOK, TablesInv, ThreadInv, InHandler
<1>3. ASSUME NEW j \in MixInputs
      PROVE  ThreadInv(j)'
  BY DEF MixInv, MixTypeOK, Removal, TablesInv, ThreadInv, InHandler, Going, GoingAgnostic, AgnosticMade, AdderMade
<1>4. ASSUME NEW j \in MixInputs
      PROVE  ElementsInv(j)'
  BY DEF MixInv, MixTypeOK, Removal, TablesInv, ElementsInv, Going, GoingAgnostic, AgnosticMade, AdderMade
<1>5. LinksInv'
  BY DEF MixInv, MixTypeOK, Removal, TablesInv, LinksInv, Going, GoingAgnostic, AgnosticLinked, AdderLinked
<1>6. Heard'
  BY DEF MixInv, MixTypeOK, TablesInv, LinksInv, Heard, Going, GoingAgnostic, AgnosticLinked, AdderLinked
<1> QED
  BY <1>1, <1>2, <1>3, <1>4, <1>5, <1>6 DEF MixInv

(* set_target_cb *)
LEMMA LinkSrcStep ==
  ASSUME MixInv, NEW i \in MixInputs, LinkMixSrc(i)
  PROVE  MixInv'
<1> USE DEF LinkMixSrc, MixStep
<1>1. MixTypeOK'
  BY DEF MixInv, MixTypeOK, Removal
<1>2. ASSUME NEW j \in MixInputs
      PROVE  TablesInv(j)'
  BY DEF MixInv, MixTypeOK, TablesInv, ThreadInv, InHandler
<1>3. ASSUME NEW j \in MixInputs
      PROVE  ThreadInv(j)'
  BY DEF MixInv, MixTypeOK, Removal, TablesInv, ThreadInv, InHandler, Going, GoingAgnostic, AgnosticMade, AdderMade
<1>4. ASSUME NEW j \in MixInputs
      PROVE  ElementsInv(j)'
  BY DEF MixInv, MixTypeOK, Removal, TablesInv, ElementsInv, Going, GoingAgnostic, AgnosticMade, AdderMade
<1>5. LinksInv'
  BY DEF MixInv, MixTypeOK, Removal, TablesInv, LinksInv, Going, GoingAgnostic, AgnosticLinked, AdderLinked
<1>6. Heard'
  BY DEF MixInv, MixTypeOK, TablesInv, LinksInv, Heard, Going, GoingAgnostic, AgnosticLinked, AdderLinked
<1> QED
  BY <1>1, <1>2, <1>3, <1>4, <1>5, <1>6 DEF MixInv

(* remove_target_cb *)
LEMMA UnlinkSrcStep ==
  ASSUME MixInv, NEW i \in MixInputs, UnlinkMixSrc(i)
  PROVE  MixInv'
<1> USE DEF UnlinkMixSrc, MixStep
<1>1. MixTypeOK'
  BY DEF MixInv, MixTypeOK, Removal
<1>2. ASSUME NEW j \in MixInputs
      PROVE  TablesInv(j)'
  BY DEF MixInv, MixTypeOK, TablesInv, ThreadInv, InHandler
<1>3. ASSUME NEW j \in MixInputs
      PROVE  ThreadInv(j)'
  BY DEF MixInv, MixTypeOK, Removal, TablesInv, ThreadInv, InHandler, Going, GoingAgnostic, AgnosticMade, AdderMade
<1>4. ASSUME NEW j \in MixInputs
      PROVE  ElementsInv(j)'
  BY DEF MixInv, MixTypeOK, Removal, TablesInv, ElementsInv, Going, GoingAgnostic, AgnosticMade, AdderMade
<1>5. LinksInv'
  BY DEF MixInv, MixTypeOK, Removal, TablesInv, LinksInv, Going, GoingAgnostic, AgnosticLinked, AdderLinked
<1>6. Heard'
  BY DEF MixInv, MixTypeOK, TablesInv, LinksInv, Heard, Going, GoingAgnostic, AgnosticLinked, AdderLinked
<1> QED
  BY <1>1, <1>2, <1>3, <1>4, <1>5, <1>6 DEF MixInv

(* unlinked_pad: the input leaves the tables, and what was found of it is kept. *)
LEMMA BeginUnlinkedStep ==
  ASSUME MixInv, NEW i \in MixInputs, NEW release \in BOOLEAN, BeginUnlinked(i, release)
  PROVE  MixInv'
<1> USE DEF BeginUnlinked, MixStep, MixFound
<1>1. MixTypeOK'
  BY DEF MixInv, MixTypeOK, Removal
<1>2. ASSUME NEW j \in MixInputs
      PROVE  TablesInv(j)'
  BY DEF MixInv, MixTypeOK, TablesInv, ThreadInv, InHandler
<1>3. ASSUME NEW j \in MixInputs
      PROVE  ThreadInv(j)'
  BY DEF MixInv, MixTypeOK, Removal, TablesInv, ThreadInv, InHandler, Going, GoingAgnostic, AgnosticMade, AdderMade
<1>4. ASSUME NEW j \in MixInputs
      PROVE  ElementsInv(j)'
  BY DEF MixInv, MixTypeOK, Removal, TablesInv, ElementsInv, Going, GoingAgnostic, AgnosticMade, AdderMade
<1>5. LinksInv'
  <2>1. removing'[i].step = "unlink" /\ (i \in agnostics => removing'[i].found.agnostic)
          /\ mixSinks'[i] = "unlinking"
    BY DEF MixInv, MixTypeOK
  <2>2. ASSUME NEW l \in mixLinks
        PROVE  (l[1] # l[2] /\ AgnosticLinked(l[1]) /\ AdderLinked(l[2]))'
    <3>1. l[1] # l[2] /\ AgnosticLinked(l[1]) /\ AdderLinked(l[2])
      BY DEF MixInv, LinksInv
    <3>2. l[1] \in MixInputs /\ l[2] \in MixInputs
      BY DEF MixInv, MixTypeOK
    <3>3. ASSUME NEW j \in MixInputs, j # i
          PROVE  mixSinks'[j] = mixSinks[j] /\ removing'[j] = removing[j]
      BY <3>3 DEF MixInv, MixTypeOK
    <3>4. AgnosticLinked(l[1])'
      BY <2>1, <3>1, <3>2, <3>3 DEF AgnosticLinked, Going, GoingAgnostic
    <3>5. AdderLinked(l[2])'
      BY <2>1, <3>1, <3>2, <3>3 DEF AdderLinked, Going
    <3> QED
      BY <3>1, <3>4, <3>5
  <2> QED
    BY <2>2 DEF LinksInv
<1>6. Heard'
  BY DEF MixInv, MixTypeOK, TablesInv, LinksInv, Heard, Going, GoingAgnostic, AgnosticLinked, AdderLinked
<1> QED
  BY <1>1, <1>2, <1>3, <1>4, <1>5, <1>6 DEF MixInv

(* The state of the mixer changes. *)
LEMMA MixStateStep ==
  ASSUME MixInv, ChangeMixState
  PROVE  MixInv'
<1> USE DEF ChangeMixState, MixStep
<1>1. MixTypeOK'
  BY DEF MixInv, MixTypeOK, Removal
<1>2. ASSUME NEW j \in MixInputs
      PROVE  TablesInv(j)'
  BY DEF MixInv, MixTypeOK, TablesInv, ThreadInv, InHandler
<1>3. ASSUME NEW j \in MixInputs
      PROVE  ThreadInv(j)'
  BY DEF MixInv, MixTypeOK, Removal, TablesInv, ThreadInv, InHandler, Going, GoingAgnostic, AgnosticMade, AdderMade
<1>4. ASSUME NEW j \in MixInputs
      PROVE  ElementsInv(j)'
  BY DEF MixInv, MixTypeOK, Removal, TablesInv, ElementsInv, Going, GoingAgnostic, AgnosticMade, AdderMade
<1>5. LinksInv'
  BY DEF MixInv, MixTypeOK, Removal, TablesInv, LinksInv, Going, GoingAgnostic, AgnosticLinked, AdderLinked
<1>6. Heard'
  BY DEF MixInv, MixTypeOK, TablesInv, LinksInv, Heard, Going, GoingAgnostic, AgnosticLinked, AdderLinked
<1> QED
  BY <1>1, <1>2, <1>3, <1>4, <1>5, <1>6 DEF MixInv

(* dispose: nothing is left of an input that was managed. *)
LEMMA DisposeMixerStep ==
  ASSUME MixInv, DisposeMixer
  PROVE  MixInv'
<1> USE DEF DisposeMixer
<1>1. MixTypeOK'
  <2>1. mixBin' \in SUBSET ({"typefind", "agnosticbin", "adder"} \X MixInputs)
    BY DEF MixInv, MixTypeOK
  <2>2. mixSrcs' \in [MixInputs -> {"none", "present", "linked"}]
    BY DEF MixInv, MixTypeOK
  <2>3. mixOps' \in Nat
    BY MixAssumption
  <2>4. mixSinks' \in [MixInputs -> {"none", "requested", "linked", "unlinking", "unlinked", "gone"}]
    OBVIOUS
  <2> QED
    BY <2>1, <2>2, <2>3, <2>4 DEF MixInv, MixTypeOK
<1>2. ASSUME NEW j \in MixInputs
      PROVE  TablesInv(j)'
  BY DEF MixInv, MixTypeOK, TablesInv, ThreadInv, InHandler
<1>3. ASSUME NEW j \in MixInputs
      PROVE  ThreadInv(j)'
  BY DEF MixInv, MixTypeOK, Removal, TablesInv, ThreadInv, InHandler, Going, GoingAgnostic, AgnosticMade, AdderMade
<1>4. ASSUME NEW j \in MixInputs
      PROVE  ElementsInv(j)'
  BY DEF MixInv, MixTypeOK, Removal, TablesInv, ElementsInv, Going, GoingAgnostic, AgnosticMade, AdderMade
<1>5. LinksInv'
  BY DEF MixInv, MixTypeOK, Removal, TablesInv, LinksInv, Going, GoingAgnostic, AgnosticLinked, AdderLinked
<1>6. Heard'
  BY DEF MixInv, MixTypeOK, TablesInv, LinksInv, Heard, Going, GoingAgnostic, AgnosticLinked, AdderLinked
<1> QED
  BY <1>1, <1>2, <1>3, <1>4, <1>5, <1>6 DEF MixInv

(* Every step of the mixer keeps the invariant. *)
LEMMA MixInvStep ==
  ASSUME MixInv, [MixNext]_mixVars
  PROVE  MixInv'
<1>1. CASE UNCHANGED mixVars
  BY <1>1 DEF mixVars, MixInv, MixTypeOK, TablesInv, ThreadInv, ElementsInv, LinksInv, Heard, InHandler,
              Going, GoingAgnostic, AgnosticMade, AdderMade, AgnosticLinked, AdderLinked
<1>2. ASSUME NEW i \in MixInputs, PeerUnlinked(i) \/ release_pad(i)
      PROVE  MixInv'
  BY <1>2, BeginUnlinkedStep DEF PeerUnlinked, release_pad
<1>3. CASE MixNext
  BY <1>2, <1>3, RequestStep, LinkSinkStep, TypeFoundStep, HaveTypeStep, SyncStep, ReleaseUnlinkedStep,
     UnlinkElementsStep, RemoveAgnosticStep, RemoveAdderStep, EndUnlinkedStep, LinkSrcStep,
     UnlinkSrcStep, MixStateStep, DisposeMixerStep DEF MixNext
<1> QED
  BY <1>1, <1>3

(* A mixer starts with no input. *)
LEMMA MixInvInit ==
  ASSUME MixInit
  PROVE  MixInv
<1>1. MixTypeOK
  BY DEF MixInit, MixTypeOK, Removal, NotFound
<1> QED
  BY <1>1 DEF MixInit, MixInv, TablesInv, ThreadInv, ElementsInv, LinksInv, Heard, InHandler,
              Going, GoingAgnostic, AgnosticMade, AdderMade

(* The variables of the mixer keep their types. *)
THEOREM MixTypeCorrect == MixSpec => []MixTypeOK
<1>1. MixInv => MixTypeOK
  BY DEF MixInv
<1> QED
  BY <1>1, MixInvInit, MixInvStep, PTL DEF MixSpec

(* With any number of inputs, and however pads, types, releases and state changes
   interleave, every input hears all the others and not itself, no link and no thread uses
   an element that left the bin, and unlinked_pad leaves nothing of its input behind
   (link_new_adder, link_new_agnosticbin, have_type and unlinked_pad). *)
THEOREM MixStaysInStep == MixSpec => []MixInStep
<1>1. ASSUME MixInv
      PROVE  NothingDangling
  <2>1. \A i \in MixInputs : /\ AgnosticMade(i) => <<"agnosticbin", i>> \in mixBin
                             /\ AdderMade(i) => <<"adder", i>> \in mixBin
    BY <1>1 DEF MixInv, ElementsInv
  <2>2. \A i \in MixInputs : /\ AgnosticLinked(i) => AgnosticMade(i)
                             /\ AdderLinked(i) => AdderMade(i)
                             /\ i \in agnostics => AgnosticMade(i)
                             /\ i \in adders => AdderMade(i)
    BY DEF AgnosticLinked, AgnosticMade, AdderLinked, AdderMade, GoingAgnostic, Going
  <2>3. /\ \A l \in mixLinks : l[1] \in MixInputs /\ l[2] \in MixInputs
        /\ agnostics \subseteq MixInputs /\ adders \subseteq MixInputs
    BY <1>1 DEF MixInv, MixTypeOK
  <2>4. \A l \in mixLinks : AgnosticLinked(l[1]) /\ AdderLinked(l[2])
    BY <1>1 DEF MixInv, LinksInv
  <2>5. \A i \in MixInputs : streams[i] = "syncing" => AgnosticMade(i)
    BY <1>1 DEF MixInv, ThreadInv
  <2> QED
    BY <2>1, <2>2, <2>3, <2>4, <2>5 DEF NothingDangling
<1>2. ASSUME MixInv
      PROVE  NothingLeft
  BY <1>2 DEF MixInv, MixTypeOK, NothingLeft, TablesInv, ElementsInv, LinksInv, AgnosticMade, AdderMade,
              AgnosticLinked, AdderLinked, Going, GoingAgnostic
<1>3. MixInv => MixInStep
  BY <1>1, <1>2 DEF MixInv, MixInStep
<1> QED
  BY <1>3, MixInvInit, MixInvStep, PTL DEF MixSpec
=============================================================================
