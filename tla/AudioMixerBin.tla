----------------------------- MODULE AudioMixerBin -----------------------------
(***************************************************************************)
(* The plain mixer, kmsaudiomixerbin.c: one adder for all the inputs.      *)
(*                                                                         *)
(* Releasing a pad of a playing bin drains its branch: a probe is set on   *)
(* the source pad of its agnosticbin, EOS is sent through it, the probe    *)
(* leaves the removal of the elements to the loop, and the releasing       *)
(* thread waits.  Who is last to drop the data of the probe, counted by    *)
(* RefCounter, wakes it up.  A pad that had an EOS of its own, or that is  *)
(* flushing, refuses the EOS of the release, and nobody looks whether it   *)
(* did.  have_type takes no lock.                                          *)
(***************************************************************************)
EXTENDS Integers, FiniteSets

CONSTANTS MaxBranches    \* bound: sink pads requested in a run

VARIABLES
  binPlaying,   \* the state of the bin is PAUSED or above
  branch,       \* the pad, the elements, the streaming thread and the EOS of every input
  drain         \* the release of a pad: its probe, RefCounter and WaitCond

mixBinVars == <<binPlaying, branch, drain>>

ASSUME BranchAssumption == MaxBranches \in Nat \ {0}

Branches == 1..MaxBranches
NoBranch == [pad |-> "none", made |-> {}, linked |-> {}, thread |-> "flowing", input |-> "open"]
NoDrain == [at |-> "none", probe |-> FALSE, probe_id |-> FALSE, idle |-> "none",
            count |-> 0, done |-> FALSE, freed |-> FALSE, stopped |-> FALSE]

SetBranch(b, v) == branch' = [branch EXCEPT ![b] = v]
SetDrain(b, v) == drain' = [drain EXCEPT ![b] = v]

(* get_agnostic_from_pad: through the link of the typefind. *)
HasAgnostic(b) == "typefind" \in branch[b].linked

(* ref_counter_dec with destroy_probe_data: the last one says that the drain is done. *)
ref_counter_dec(d) == [d EXCEPT !.count = @ - 1, !.done = @ \/ d.count = 1]

(* A mutated form: the loop holds no reference of its own. *)
ref_counter_inc_none(d) == d

ref_counter_inc(d) == [d EXCEPT !.count = @ + 1]

(* gst_pad_remove_probe: the probe drops its reference. *)
RemoveProbe(d) == IF d.probe THEN ref_counter_dec([d EXCEPT !.probe = FALSE]) ELSE d

-----------------------------------------------------------------------------
(* request_new_pad *)
RequestBranch(b) ==
  /\ branch[b].pad = "none" /\ (b > 1 => branch[b - 1].pad # "none")
  /\ SetBranch(b, [branch[b] EXCEPT !.pad = "present", !.made = {"typefind"}])
  /\ UNCHANGED <<binPlaying, drain>>

(* have_type: an agnosticbin behind the typefind, ... *)
BranchTyped(b) ==
  /\ binPlaying /\ branch[b].pad = "present" /\ branch[b].thread = "flowing"
  /\ branch[b].input = "open"
  /\ SetBranch(b, [branch[b] EXCEPT !.made = @ \cup {"agnosticbin"}, !.linked = @ \cup {"typefind"},
                                    !.thread = "typed"])
  /\ UNCHANGED <<binPlaying, drain>>

(* ... then linked to the adder, through the pad src_0 requested for it. *)
BranchMixed(b) ==
  /\ branch[b].thread = "typed"
  /\ SetBranch(b, [branch[b] EXCEPT !.linked = @ \cup {"adder"}, !.thread = "done"])
  /\ UNCHANGED <<binPlaying, drain>>

-----------------------------------------------------------------------------
(* What comes from upstream: external.  An EOS is under way while the input is "ending"; it
   leaves the agnosticbin through the probe, or to the adder when there is none.  Flushing
   drops it, and makes the pad refuse events until it ends.  After the EOS that fired the
   probe none comes any more. *)
Streaming(b) == binPlaying /\ branch[b].pad \in {"present", "releasing"}
SetInput(b, v) == SetBranch(b, [branch[b] EXCEPT !.input = v]) /\ UNCHANGED <<binPlaying, drain>>

InputEnds(b) ==
  /\ Streaming(b) /\ branch[b].input = "open" /\ branch[b].thread = "done" /\ ~drain[b].probe_id
  /\ SetInput(b, "ending")

EosPasses(b) ==
  /\ Streaming(b) /\ branch[b].input = "ending" /\ ~drain[b].probe
  /\ SetInput(b, "ended")

InputFlushes(b) ==
  /\ Streaming(b) /\ branch[b].input # "flushing"
  /\ SetInput(b, "flushing")

FlushEnds(b) ==
  /\ Streaming(b) /\ branch[b].input = "flushing"
  /\ SetInput(b, "open")

-----------------------------------------------------------------------------
(* release_pad in PAUSED or above: unlink_pad_in_playing up to the EOS.  A branch that is
   not complete is left as it is. *)
BeginDrain(b) ==
  LET complete == HasAgnostic(b) /\ "adder" \in branch[b].linked
  IN  /\ binPlaying /\ branch[b].pad = "present"
      /\ SetBranch(b, [branch[b] EXCEPT !.pad = "releasing",
                                        !.input = IF complete /\ @ = "open" THEN "ending" ELSE @])
      /\ IF complete THEN SetDrain(b, [NoDrain EXCEPT !.at = "eos_sent", !.probe = TRUE, !.count = 1])
                     ELSE SetDrain(b, [NoDrain EXCEPT !.at = "end"])
      /\ UNCHANGED binPlaying

(* event_probe_cb: an EOS leaves the agnosticbin, and is dropped. *)
event_probe(b) ==
  /\ binPlaying /\ branch[b].input = "ending" /\ drain[b].probe
  /\ SetBranch(b, [branch[b] EXCEPT !.input = "ended"])
  /\ SetDrain(b, ref_counter_inc([drain[b] EXCEPT !.probe_id = TRUE, !.idle = "queued"]))
  /\ UNCHANGED binPlaying

(* The loop: unlink_elements, which removes the probe by the number it left, ... *)
unlink_elements(b) ==
  /\ drain[b].idle = "queued"
  /\ SetBranch(b, [branch[b] EXCEPT !.linked = {}])
  /\ SetDrain(b, [RemoveProbe(drain[b]) EXCEPT !.idle = "unlinked"])
  /\ UNCHANGED binPlaying

(* ... and remove_elements, which waits for the streaming thread of the typefind. *)
remove_elements(b) ==
  /\ drain[b].idle = "unlinked"
  /\ branch[b].thread # "typed"
  /\ SetBranch(b, [branch[b] EXCEPT !.made = {}])
  /\ SetDrain(b, ref_counter_dec([drain[b] EXCEPT !.idle = "none"]))
  /\ UNCHANGED binPlaying

(* Back in the releasing thread: it waits if the bin still plays. *)
BeginWait(b) ==
  /\ drain[b].at = "eos_sent"
  /\ SetDrain(b, [drain[b] EXCEPT !.at = IF binPlaying THEN "waiting" ELSE "woken"])
  /\ UNCHANGED <<binPlaying, branch>>

WaitUntilDone(b) ==
  /\ drain[b].at = "waiting" /\ drain[b].done
  /\ SetDrain(b, [drain[b] EXCEPT !.at = "woken"])
  /\ UNCHANGED <<binPlaying, branch>>

(* The probe, if it is still there, and the condition go. *)
EndDrain(b) ==
  /\ drain[b].at = "woken"
  /\ SetDrain(b, [RemoveProbe(drain[b]) EXCEPT !.at = "end", !.freed = TRUE])
  /\ UNCHANGED <<binPlaying, branch>>

(* The pad is deactivated, which waits for the streaming thread, and removed. *)
EndRelease(b) ==
  /\ drain[b].at = "end" /\ branch[b].pad = "releasing"
  /\ branch[b].thread # "typed"
  /\ SetBranch(b, [branch[b] EXCEPT !.pad = "gone"])
  /\ UNCHANGED <<binPlaying, drain>>

(* release_pad below PAUSED: remove_stream_group. *)
ReleaseStopped(b) ==
  /\ ~binPlaying /\ branch[b].pad = "present"
  /\ SetBranch(b, [branch[b] EXCEPT !.pad = "gone", !.made = IF HasAgnostic(b) THEN {} ELSE @,
                                    !.linked = {}])
  /\ UNCHANGED <<binPlaying, drain>>

(* The state of the bin changes.  Going down waits for the streaming threads and loses the
   EOS on its way; the pads start anew. *)
ChangeBinState ==
  /\ binPlaying => \A b \in Branches : branch[b].thread # "typed"
  /\ binPlaying' = ~binPlaying
  /\ drain' = [b \in Branches |-> [drain[b] EXCEPT
       !.stopped = @ \/ (binPlaying /\ drain[b].at \in {"eos_sent", "waiting"})]]
  /\ branch' = [b \in Branches |-> [branch[b] EXCEPT !.input = "open"]]

(* dispose with tear_down *)
DisposeBin ==
  /\ ~binPlaying
  /\ \E b \in Branches : branch[b].pad = "present"
  /\ \A b \in Branches : branch[b].pad # "releasing" /\ drain[b].idle = "none"
  /\ branch' = [b \in Branches |-> [branch[b] EXCEPT
       !.pad = IF @ = "none" THEN @ ELSE "gone", !.linked = {},
       !.made = IF HasAgnostic(b) THEN {} ELSE @]]
  /\ UNCHANGED <<binPlaying, drain>>

MixBinInit ==
  /\ binPlaying = FALSE
  /\ branch = [b \in Branches |-> NoBranch]
  /\ drain = [b \in Branches |-> NoDrain]

MixBinNext ==
  \/ \E b \in Branches :
       \/ RequestBranch(b) \/ BranchTyped(b) \/ BranchMixed(b)
       \/ InputEnds(b) \/ EosPasses(b) \/ InputFlushes(b) \/ FlushEnds(b)
       \/ BeginDrain(b) \/ event_probe(b)
       \/ unlink_elements(b) \/ remove_elements(b) \/ BeginWait(b) \/ WaitUntilDone(b) \/ EndDrain(b)
       \/ EndRelease(b) \/ ReleaseStopped(b)
  \/ ChangeBinState \/ DisposeBin

MixBinSpec == MixBinInit /\ [][MixBinNext]_mixBinVars

-----------------------------------------------------------------------------
BranchData ==
  [pad : {"none", "present", "releasing", "gone"}, made : SUBSET {"typefind", "agnosticbin"},
   linked : SUBSET {"typefind", "adder"}, thread : {"flowing", "typed", "done"},
   input : {"open", "ending", "ended", "flushing"}]
DrainData ==
  [at : {"none", "eos_sent", "waiting", "woken", "end"}, probe : BOOLEAN, probe_id : BOOLEAN,
   idle : {"none", "queued", "unlinked"}, count : Int, done : BOOLEAN,
   freed : BOOLEAN, stopped : BOOLEAN]

(* The type invariant. *)
MixBinTypeOK ==
  /\ binPlaying \in BOOLEAN
  /\ branch \in [Branches -> BranchData]
  /\ drain \in [Branches -> DrainData]

(* However its end comes, a drain is clean: as long as the releasing thread waits there is
   a reference, of the probe or of the loop, whose dropping says that the drain is done; and
   when the thread was woken that way, and not by the bin going down, nobody touches the
   condition it freed any more and the branch is out of the bin (unlink_pad_in_playing,
   event_probe_cb, remove_elements and RefCounter). *)
DrainClean ==
  \A b \in Branches :
    /\ (drain[b].at = "waiting" /\ ~drain[b].done) =>
         drain[b].count > 0 /\ (drain[b].probe \/ drain[b].idle # "none")
    /\ (drain[b].freed /\ ~drain[b].stopped) =>
         /\ drain[b].count = 0 /\ drain[b].idle = "none"
         /\ branch[b].made = {} /\ branch[b].linked = {}

(* What the comment over the EOS of unlink_pad_in_playing says: "the probe will be fired when
   the EOS leaves the agnosticbin's src pad".  A thread that waits, in a bin that was not
   stopped meanwhile, has an EOS on its way or the loop still to run. *)
DrainEnds ==
  \A b \in Branches :
    (drain[b].at = "waiting" /\ ~drain[b].done /\ ~drain[b].stopped) =>
      branch[b].input = "ending" \/ drain[b].idle # "none"
=============================================================================
