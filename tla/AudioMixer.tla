------------------------------ MODULE AudioMixer -------------------------------
(***************************************************************************)
(* The audio mixer of the hubs, kmsaudiomixer.c.                           *)
(*                                                                         *)
(* Every input i has a sink pad, a typefind, an agnosticbin made when the  *)
(* type of its audio is known, an adder that mixes all the other inputs,   *)
(* and a source pad with that mix, behind a tee.  "adder" stands for the   *)
(* adder with its tee, fakesink and test source, "agnosticbin" for the     *)
(* agnosticbin with its audiorate.  A link from an agnosticbin to an adder *)
(* stands for its capsfilter too.                                          *)
(*                                                                         *)
(* A region under the mixer's mutex is one step.  have_type runs on the    *)
(* streaming thread of an input; setting the typefind to NULL, or          *)
(* deactivating the sink pad, waits until that thread has left them.       *)
(***************************************************************************)
EXTENDS Integers, FiniteSets

CONSTANTS MaxMixInputs,     \* bound: sink pads requested in a run
          MaxMixOps      \* bound: links, releases and state changes in a run

VARIABLES
  playing,     \* the state of the mixer is PAUSED or above
  mixSinks,    \* the sink pads, by number
  typefinds, agnostics, adders, \* the tables of KmsAudioMixerPrivate
  mixBin,      \* the elements in the bin: <<kind, input>>
  mixLinks,    \* <<agnosticbin, adder>>
  mixSrcs,     \* the source pads, by number
  teePads,     \* request pads of the tees
  streams,     \* where the streaming thread of an input is
  removing,    \* what unlinked_pad found in the tables, and the step it is at
  mixOps

mixVars == <<playing, mixSinks, typefinds, agnostics, adders, mixBin, mixLinks, mixSrcs,
             teePads, streams, removing, mixOps>>

ASSUME MixAssumption == MaxMixInputs \in Nat \ {0} /\ MaxMixOps \in Nat

MixInputs == 0..MaxMixInputs - 1
InHandler(i) == streams[i] \in {"typed", "syncing"}
MixFound(i) == [typefind |-> i \in typefinds, agnostic |-> i \in agnostics, adder |-> i \in adders]
NotFound == [typefind |-> FALSE, agnostic |-> FALSE, adder |-> FALSE]

MixStep == mixOps < MaxMixOps /\ mixOps' = mixOps + 1

-----------------------------------------------------------------------------
(* link_new_adder for every agnosticbin: all the inputs but its own. *)
link_new_adder(i) == {<<g, i>> : g \in agnostics \ {i}}

(* link_new_agnosticbin for every adder. *)
link_new_agnosticbin(i) == {<<i, a>> : a \in adders \ {i}}

(* add_src_pad: the adder of an input, linked to the inputs there are, and its source pad. *)
add_src_pad(i) ==
  /\ mixLinks' = mixLinks \cup link_new_adder(i)
  /\ adders' = adders \cup {i}
  /\ mixSrcs' = [mixSrcs EXCEPT ![i] = "present"]

(* request_new_pad; the number of a pad is never used again. *)
RequestMixPad(i) ==
  /\ mixSinks[i] = "none" /\ (i > 0 => mixSinks[i - 1] # "none")
  /\ mixSinks' = [mixSinks EXCEPT ![i] = "requested"]
  /\ mixBin' = mixBin \cup {<<"typefind", i>>, <<"adder", i>>}
  /\ add_src_pad(i)
  /\ typefinds' = typefinds \cup {i}
  /\ UNCHANGED <<playing, agnostics, teePads, streams, removing, mixOps>>

LinkMixSink(i) ==
  /\ MixStep
  /\ mixSinks[i] = "requested"
  /\ mixSinks' = [mixSinks EXCEPT ![i] = "linked"]
  /\ UNCHANGED <<playing, typefinds, agnostics, adders, mixBin, mixLinks, mixSrcs, teePads,
                 streams, removing>>

(* The typefind has seen enough of the input and emits have-type, once. *)
TypeFound(i) ==
  /\ playing /\ mixSinks[i] = "linked" /\ streams[i] = "flowing"
  /\ streams' = [streams EXCEPT ![i] = "typed"]
  /\ UNCHANGED <<playing, mixSinks, typefinds, agnostics, adders, mixBin, mixLinks, mixSrcs,
                 teePads, removing, mixOps>>

(* A mutated form: have_type does not look whether the input is still there. *)
StillManaged_any(i) == TRUE

StillManaged(i) == i \in typefinds

(* have_type under the mutex. *)
have_type(i) ==
  /\ streams[i] = "typed"
  /\ IF StillManaged(i)
     THEN /\ typefinds' = typefinds \ {i}
          /\ mixBin' = mixBin \cup {<<"agnosticbin", i>>}
          /\ mixLinks' = mixLinks \cup link_new_agnosticbin(i)
          /\ agnostics' = agnostics \cup {i}
          /\ streams' = [streams EXCEPT ![i] = "syncing"]
     ELSE /\ streams' = [streams EXCEPT ![i] = "done"]
          /\ UNCHANGED <<typefinds, mixBin, mixLinks, agnostics>>
  /\ UNCHANGED <<playing, mixSinks, adders, mixSrcs, teePads, removing, mixOps>>

(* have_type after the mutex: the new elements take the state of the mixer. *)
SyncStates(i) ==
  /\ streams[i] = "syncing"
  /\ streams' = [streams EXCEPT ![i] = "done"]
  /\ UNCHANGED <<playing, mixSinks, typefinds, agnostics, adders, mixBin, mixLinks, mixSrcs,
                 teePads, removing, mixOps>>

-----------------------------------------------------------------------------
(* unlinked_pad: the input leaves the tables ... *)
BeginUnlinked(i, release) ==
  /\ MixStep
  /\ mixSinks[i] = "linked"
  /\ mixSinks' = [mixSinks EXCEPT ![i] = "unlinking"]
  /\ removing' = [removing EXCEPT ![i] = [found |-> MixFound(i), step |-> "unlink", stop |-> FALSE, release |-> release]]
  /\ typefinds' = typefinds \ {i}
  /\ agnostics' = agnostics \ {i}
  /\ adders' = adders \ {i}
  /\ UNCHANGED <<playing, mixBin, mixLinks, mixSrcs, teePads, streams>>

(* ... because its peer was unlinked, *)
PeerUnlinked(i) == BeginUnlinked(i, FALSE)

(* ... or because the pad is released, which deactivates it first. *)
release_pad(i) == (playing => ~InHandler(i)) /\ BeginUnlinked(i, TRUE)

(* The pad of an input that is not linked is only removed. *)
ReleaseUnlinked(i) ==
  /\ MixStep
  /\ mixSinks[i] \in {"requested", "unlinked"}
  /\ mixSinks' = [mixSinks EXCEPT ![i] = "gone"]
  /\ UNCHANGED <<playing, typefinds, agnostics, adders, mixBin, mixLinks, mixSrcs, teePads,
                 streams, removing>>

AtStep(i, step) == mixSinks[i] = "unlinking" /\ removing[i].step = step
ToStep(i, step) == removing' = [removing EXCEPT ![i].step = step]

(* The state of the mixer decides whether a typefind still waiting for a type will be
   removed; then remove_elements, under the mutex: unlink_agnosticbin and
   unlink_adder_sources. *)
UnlinkElements(i) ==
  /\ AtStep(i, "unlink")
  /\ mixLinks' = {l \in mixLinks : /\ removing[i].found.agnostic => l[1] # i
                                   /\ removing[i].found.adder => l[2] # i}
  /\ removing' = [removing EXCEPT ![i].step = "agnostic",
                                  ![i].stop = removing[i].found.typefind /\ playing]
  /\ UNCHANGED <<playing, mixSinks, typefinds, agnostics, adders, mixBin, mixSrcs, teePads,
                 streams, mixOps>>

(* remove_agnostic_bin: the typefind goes to NULL first, and takes the agnosticbin with it. *)
remove_agnostic_bin(i) ==
  /\ AtStep(i, "agnostic")
  /\ removing[i].found.agnostic => ~InHandler(i)
  /\ mixBin' = IF removing[i].found.agnostic
               THEN mixBin \ {<<"typefind", i>>, <<"agnosticbin", i>>} ELSE mixBin
  /\ ToStep(i, "adder")
  /\ UNCHANGED <<playing, mixSinks, typefinds, agnostics, adders, mixLinks, mixSrcs, teePads,
                 streams, mixOps>>

(* remove_adder with remove_sometimes_src_pad: removing the source pad unlinks it when its
   target is gone already, so that the pad of the tee goes with the tee. *)
remove_adder(i) ==
  /\ AtStep(i, "adder")
  /\ mixBin' = mixBin \ (IF removing[i].found.adder THEN {<<"adder", i>>} ELSE {})
  /\ mixSrcs' = [mixSrcs EXCEPT ![i] = IF removing[i].found.adder THEN "none" ELSE @]
  /\ teePads' = teePads \ (IF removing[i].found.adder THEN {i} ELSE {})
  /\ ToStep(i, "typefind")
  /\ UNCHANGED <<playing, mixSinks, typefinds, agnostics, adders, mixLinks, streams, mixOps>>

(* The end of unlinked_pad, with the typefind that is to be removed. *)
EndUnlinked(i) ==
  /\ AtStep(i, "typefind")
  /\ removing[i].stop => ~InHandler(i)
  /\ mixBin' = mixBin \ (IF removing[i].stop THEN {<<"typefind", i>>} ELSE {})
  /\ mixSinks' = [mixSinks EXCEPT ![i] = IF removing[i].release THEN "gone" ELSE "unlinked"]
  /\ ToStep(i, "none")
  /\ UNCHANGED <<playing, typefinds, agnostics, adders, mixLinks, mixSrcs, teePads, streams,
                 mixOps>>

(* set_target_cb and remove_target_cb *)
LinkMixSrc(i) ==
  /\ MixStep
  /\ mixSrcs[i] = "present"
  /\ mixSrcs' = [mixSrcs EXCEPT ![i] = "linked"]
  /\ teePads' = teePads \cup {i}
  /\ UNCHANGED <<playing, mixSinks, typefinds, agnostics, adders, mixBin, mixLinks, streams, removing>>

UnlinkMixSrc(i) ==
  /\ MixStep
  /\ mixSrcs[i] = "linked"
  /\ mixSrcs' = [mixSrcs EXCEPT ![i] = "present"]
  /\ teePads' = teePads \ {i}
  /\ UNCHANGED <<playing, mixSinks, typefinds, agnostics, adders, mixBin, mixLinks, streams, removing>>

(* The state of the mixer changes; going down waits for the streaming threads. *)
ChangeMixState ==
  /\ MixStep
  /\ playing => \A i \in MixInputs : ~InHandler(i)
  /\ playing' = ~playing
  /\ UNCHANGED <<mixSinks, typefinds, agnostics, adders, mixBin, mixLinks, mixSrcs, teePads,
                 streams, removing>>

(* dispose and finalize, with the last reference: nobody else is at work. *)
DisposeMixer ==
  /\ \E i \in MixInputs : mixSinks[i] # "none"
  /\ ~playing
  /\ \A i \in MixInputs : ~InHandler(i) /\ mixSinks[i] # "unlinking"
  /\ typefinds' = {} /\ agnostics' = {} /\ adders' = {}
  /\ mixLinks' = {l \in mixLinks : l[1] \notin agnostics /\ l[2] \notin adders}
  /\ mixBin' = mixBin \ ({<<"adder", i>> : i \in adders}
                           \cup {<<kind, i>> : kind \in {"typefind", "agnosticbin"}, i \in agnostics})
  /\ mixSrcs' = [i \in MixInputs |-> IF i \in adders THEN "none" ELSE mixSrcs[i]]
  /\ teePads' = teePads \ adders
  /\ mixSinks' = [i \in MixInputs |-> "gone"]
  /\ mixOps' = MaxMixOps
  /\ UNCHANGED <<playing, streams, removing>>

-----------------------------------------------------------------------------
MixInit ==
  /\ playing = FALSE
  /\ mixSinks = [i \in MixInputs |-> "none"]
  /\ typefinds = {} /\ agnostics = {} /\ adders = {}
  /\ mixBin = {} /\ mixLinks = {}
  /\ mixSrcs = [i \in MixInputs |-> "none"]
  /\ teePads = {}
  /\ streams = [i \in MixInputs |-> "flowing"]
  /\ removing = [i \in MixInputs |-> [found |-> NotFound, step |-> "none", stop |-> FALSE, release |-> FALSE]]
  /\ mixOps = 0

MixNext ==
  \/ \E i \in MixInputs :
       \/ RequestMixPad(i) \/ LinkMixSink(i) \/ TypeFound(i) \/ have_type(i) \/ SyncStates(i)
       \/ PeerUnlinked(i) \/ release_pad(i) \/ ReleaseUnlinked(i) \/ UnlinkElements(i)
       \/ remove_agnostic_bin(i) \/ remove_adder(i) \/ EndUnlinked(i)
       \/ LinkMixSrc(i) \/ UnlinkMixSrc(i)
  \/ ChangeMixState \/ DisposeMixer

MixSpec == MixInit /\ [][MixNext]_mixVars

-----------------------------------------------------------------------------
Removal ==
  [found : [typefind : BOOLEAN, agnostic : BOOLEAN, adder : BOOLEAN],
   step : {"none", "unlink", "agnostic", "adder", "typefind"}, stop : BOOLEAN, release : BOOLEAN]

(* The type invariant. *)
MixTypeOK ==
  /\ playing \in BOOLEAN /\ mixOps \in Nat
  /\ mixSinks \in [MixInputs -> {"none", "requested", "linked", "unlinking", "unlinked", "gone"}]
  /\ typefinds \in SUBSET MixInputs /\ agnostics \in SUBSET MixInputs
  /\ adders \in SUBSET MixInputs /\ teePads \in SUBSET MixInputs
  /\ mixBin \in SUBSET ({"typefind", "agnosticbin", "adder"} \X MixInputs)
  /\ mixLinks \in SUBSET (MixInputs \X MixInputs)
  /\ mixSrcs \in [MixInputs -> {"none", "present", "linked"}]
  /\ streams \in [MixInputs -> {"flowing", "typed", "syncing", "done"}]
  /\ removing \in [MixInputs -> Removal]

(* Every participant hears all the others and not itself: whatever the order in which pads
   come, types are found and inputs go, the adder of an input is linked to exactly the
   agnosticbins of the other inputs. *)
Heard == \A a \in adders, g \in agnostics : (<<g, a>> \in mixLinks) <=> (a # g)

(* No link and no thread uses an element that is not in the bin: have_type gives its
   elements the mixer's state after it has left the mutex. *)
NothingDangling ==
  /\ \A l \in mixLinks : <<"agnosticbin", l[1]>> \in mixBin /\ <<"adder", l[2]>> \in mixBin
  /\ \A i \in MixInputs : streams[i] = "syncing" => <<"agnosticbin", i>> \in mixBin
  /\ \A i \in agnostics : <<"agnosticbin", i>> \in mixBin
  /\ \A i \in adders : <<"adder", i>> \in mixBin

(* An input whose unlinked_pad has ended left nothing behind, even if its type was found
   meanwhile; only a typefind that was waiting while the mixer was stopped stays. *)
NothingLeft ==
  \A i \in MixInputs : (mixSinks[i] \in {"unlinked", "gone"} /\ i \notin adders) =>
    /\ <<"agnosticbin", i>> \notin mixBin /\ <<"adder", i>> \notin mixBin
    /\ (\A l \in mixLinks : i \notin {l[1], l[2]})
    /\ i \notin typefinds \cup agnostics \cup teePads

(* The mix stays in step with the inputs that are there: Heard, NothingDangling and
   NothingLeft (link_new_adder, link_new_agnosticbin, have_type and unlinked_pad). *)
MixInStep == Heard /\ NothingDangling /\ NothingLeft
=============================================================================
