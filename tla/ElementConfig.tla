----------------------------- MODULE ElementConfig -----------------------------
(***************************************************************************)
(* What an element passes on to its parts (kmselement.c): encoder bitrates *)
(* and codec configuration to its output elements, agnostic bins that      *)
(* check them once more (kmsagnosticbin.c); collection of latencies to the *)
(* probes of its sink pads (kmsstats.c).  Parts are made and removed while *)
(* the settings change; every setting is made under the element's lock.    *)
(*                                                                         *)
(* Bitrates are numbers of a small set with 0 and UNLIMITED, the default   *)
(* of the maximum, and the bin's meaning of a maximum of 0.                *)
(***************************************************************************)
EXTENDS Integers, FiniteSets

CONSTANTS Bitrates,       \* what a client sets
          DEFAULT_TARGET,
          UNLIMITED,      \* G_MAXINT
          VideoOutputs, AudioOutputs,
          SinkNames,
          MaxSinkPads,    \* bound: pads made for a sink name
          MaxSettings     \* bound: settings in a run

ASSUME ConfigAssumption ==
  /\ Bitrates \cup {DEFAULT_TARGET, UNLIMITED, MaxSinkPads, MaxSettings} \subseteq Nat
  /\ \A r \in Bitrates : r <= UNLIMITED
  /\ VideoOutputs \cap AudioOutputs = {}

VARIABLES
  bitrates,    \* of the element
  codec_config,
  outputs,     \* output elements, with the bitrates and the configuration they were given
  statsEnabled,
  sinkPad,     \* the pad of a sink name: a number, or 0
  sinkPc,      \* "rest", "probing" in connect_sink_target, "leaving" in remove_sink
  statsProbes, \* the list stats.probes
  sinkPads,    \* pads made for a sink name so far
  crashed,
  settings     \* settings so far

configVars == <<bitrates, codec_config, outputs, statsEnabled, sinkPad, sinkPc, statsProbes,
                sinkPads, crashed, settings>>

OutputNames == VideoOutputs \cup AudioOutputs
DefaultBitrates == [target |-> DEFAULT_TARGET, min |-> 0, max |-> UNLIMITED]

(* init of the element: media-stats is a construct property. *)
ConfigInit ==
  /\ bitrates = DefaultBitrates /\ codec_config = 0
  /\ outputs = [o \in OutputNames |-> [known |-> FALSE, made |-> FALSE,
                                       rates |-> DefaultBitrates, config |-> 0]]
  /\ statsEnabled \in BOOLEAN
  /\ sinkPad = [s \in SinkNames |-> 0] /\ sinkPc = [s \in SinkNames |-> "rest"]
  /\ statsProbes = {} /\ sinkPads = [s \in SinkNames |-> 0]
  /\ crashed = FALSE /\ settings = 0

-----------------------------------------------------------------------------
(* The checks of kms_element_set_property, and the same of the bin except for a maximum
   of 0. *)
WithTarget(r, v) ==
  [r EXCEPT !.target = IF v < r.min \/ v > r.max THEN DEFAULT_TARGET ELSE v]
WithMin(r, v) == [r EXCEPT !.min = IF v > r.max THEN r.max ELSE v]
WithMax(r, v) == [r EXCEPT !.max = IF v < r.min THEN r.min ELSE v]
BinWithMax(r, v) == IF v = 0 THEN [r EXCEPT !.max = UNLIMITED] ELSE WithMax(r, v)

(* set_video_output_properties for a new bin: target, maximum, minimum. *)
video_output_properties(r, c) ==
  [rates |-> WithMin(BinWithMax(WithTarget(DefaultBitrates, r.target), r.max), r.min), config |-> c]

(* set_target_encoder_bitrate and its kin pass a setting on to the video outputs that exist. *)
MadeVideo == {o \in VideoOutputs : outputs[o].made}
PassTarget(v) == [o \in OutputNames |-> IF o \in MadeVideo
                    THEN [outputs[o] EXCEPT !.rates = WithTarget(@, v)] ELSE outputs[o]]
PassMin(v) == [o \in OutputNames |-> IF o \in MadeVideo
                    THEN [outputs[o] EXCEPT !.rates = WithMin(@, v)] ELSE outputs[o]]
PassMax(v) == [o \in OutputNames |-> IF o \in MadeVideo
                    THEN [outputs[o] EXCEPT !.rates = BinWithMax(@, v)] ELSE outputs[o]]

ConfigStep == ~crashed /\ settings < MaxSettings /\ settings' = settings + 1

SetTarget(v) ==
  /\ ConfigStep
  /\ bitrates' = WithTarget(bitrates, v)
  /\ outputs' = PassTarget(bitrates'.target)
  /\ UNCHANGED <<codec_config, statsEnabled, sinkPad, sinkPc, statsProbes, sinkPads, crashed>>

SetMin(v) ==
  /\ ConfigStep
  /\ bitrates' = WithMin(bitrates, v)
  /\ outputs' = PassMin(bitrates'.min)
  /\ UNCHANGED <<codec_config, statsEnabled, sinkPad, sinkPc, statsProbes, sinkPads, crashed>>

SetMax(v) ==
  /\ ConfigStep
  /\ bitrates' = WithMax(bitrates, v)
  /\ outputs' = PassMax(bitrates'.max)
  /\ UNCHANGED <<codec_config, statsEnabled, sinkPad, sinkPc, statsProbes, sinkPads, crashed>>

(* set_codec_config goes to audio and video outputs, and does not look whether the element
   of an output that was requested exists. *)
PassConfig(c) == [o \in OutputNames |-> IF outputs[o].made THEN [outputs[o] EXCEPT !.config = c]
                                        ELSE outputs[o]]
NotMadeYet == \E o \in OutputNames : outputs[o].known /\ ~outputs[o].made

SetCodecConfig(c) ==
  /\ ConfigStep
  /\ codec_config' = c
  /\ crashed' = NotMadeYet
  /\ outputs' = PassConfig(c)
  /\ UNCHANGED <<bitrates, statsEnabled, sinkPad, sinkPc, statsProbes, sinkPads>>

(* request_new_srcpad for an output that does not exist yet. *)
RequestOutput(o) ==
  /\ ~crashed /\ ~outputs[o].known
  /\ outputs' = [outputs EXCEPT ![o].known = TRUE]
  /\ UNCHANGED <<bitrates, codec_config, statsEnabled, sinkPad, sinkPc, statsProbes, sinkPads,
                 crashed, settings>>

(* get_output_element *)
MakeOutput(o) ==
  LET given == IF o \in VideoOutputs THEN video_output_properties(bitrates, codec_config)
               ELSE [rates |-> DefaultBitrates, config |-> 0]
  IN  /\ ~crashed /\ ~outputs[o].made
      /\ outputs' = [outputs EXCEPT ![o] = [known |-> TRUE, made |-> TRUE,
                                            rates |-> given.rates, config |-> given.config]]
      /\ UNCHANGED <<bitrates, codec_config, statsEnabled, sinkPad, sinkPc, statsProbes, sinkPads,
                     crashed, settings>>

-----------------------------------------------------------------------------
(* connect_sink_target_full adds the pad, then set_sink_input_stats enters its probe. *)
AddSink(s) ==
  /\ ~crashed /\ sinkPad[s] = 0 /\ sinkPc[s] = "rest"
  /\ sinkPads[s] < MaxSinkPads
  /\ sinkPads' = [sinkPads EXCEPT ![s] = @ + 1]
  /\ sinkPad' = [sinkPad EXCEPT ![s] = sinkPads[s] + 1]
  /\ sinkPc' = [sinkPc EXCEPT ![s] = "probing"]
  /\ UNCHANGED <<bitrates, codec_config, outputs, statsEnabled, statsProbes, crashed, settings>>

AddSinkProbe(s) ==
  /\ ~crashed /\ sinkPc[s] = "probing"
  /\ statsProbes' = statsProbes \cup {[sink |-> s, pad |-> sinkPad[s], latency |-> statsEnabled]}
  /\ sinkPc' = [sinkPc EXCEPT ![s] = "rest"]
  /\ UNCHANGED <<bitrates, codec_config, outputs, statsEnabled, sinkPad, sinkPads, crashed, settings>>

(* remove_sink takes the probe out of the list, then the pad from the element. *)
RemoveSinkProbe(s) ==
  /\ ~crashed /\ sinkPad[s] # 0 /\ sinkPc[s] = "rest"
  /\ statsProbes' = {p \in statsProbes : <<p.sink, p.pad>> # <<s, sinkPad[s]>>}
  /\ sinkPc' = [sinkPc EXCEPT ![s] = "leaving"]
  /\ UNCHANGED <<bitrates, codec_config, outputs, statsEnabled, sinkPad, sinkPads, crashed, settings>>

RemoveSinkPad(s) ==
  /\ ~crashed /\ sinkPc[s] = "leaving"
  /\ sinkPad' = [sinkPad EXCEPT ![s] = 0]
  /\ sinkPc' = [sinkPc EXCEPT ![s] = "rest"]
  /\ UNCHANGED <<bitrates, codec_config, outputs, statsEnabled, statsProbes, sinkPads, crashed, settings>>

(* A mutated form: latencies are collected on, and never off. *)
CollectStatsAlways(enable) == {[p EXCEPT !.latency = TRUE] : p \in statsProbes}

(* collect_media_stats: enabling finds the pad of a probe by the element's sink pads. *)
CollectStats(enable) ==
  {[p EXCEPT !.latency = enable /\ (@ \/ sinkPad[p.sink] = p.pad)] : p \in statsProbes}

SetMediaStats(enable) ==
  /\ ConfigStep
  /\ enable # statsEnabled
  /\ statsEnabled' = enable
  /\ statsProbes' = CollectStats(enable)
  /\ UNCHANGED <<bitrates, codec_config, outputs, sinkPad, sinkPc, sinkPads, crashed>>

ConfigNext ==
  \/ \E v \in Bitrates : SetTarget(v) \/ SetMin(v) \/ SetMax(v)
  \/ \E c \in {1, 2} : SetCodecConfig(c)
  \/ \E o \in OutputNames : RequestOutput(o) \/ MakeOutput(o)
  \/ \E s \in SinkNames : AddSink(s) \/ AddSinkProbe(s) \/ RemoveSinkProbe(s) \/ RemoveSinkPad(s)
  \/ \E e \in BOOLEAN : SetMediaStats(e)

ConfigSpec == ConfigInit /\ [][ConfigNext]_configVars

-----------------------------------------------------------------------------
Rates == [target : Nat, min : Nat, max : Nat]
Output == [known : BOOLEAN, made : BOOLEAN, rates : Rates, config : 0..2]
StatsProbe == [sink : SinkNames, pad : 0..MaxSinkPads, latency : BOOLEAN]

ConfigTypeOK ==
  /\ bitrates \in Rates /\ codec_config \in 0..2
  /\ outputs \in [OutputNames -> Output]
  /\ statsEnabled \in BOOLEAN /\ crashed \in BOOLEAN
  /\ sinkPad \in [SinkNames -> 0..MaxSinkPads] /\ sinkPads \in [SinkNames -> 0..MaxSinkPads]
  /\ sinkPc \in [SinkNames -> {"rest", "probing", "leaving"}]
  /\ statsProbes \in SUBSET StatsProbe
  /\ settings \in 0..MaxSettings

(* A video output works with the settings of the element, whether it was there when they
   were made or came later, although it checks them by limits of its own. *)
OutputsFollow ==
  \A o \in VideoOutputs : outputs[o].made =>
    /\ outputs[o].rates = [bitrates EXCEPT !.max = IF @ = 0 THEN UNLIMITED ELSE @]
    /\ outputs[o].config = codec_config

(* A sink pad that is in place has one probe, which collects latencies exactly when the
   element does. *)
ProbesFollow ==
  \A s \in SinkNames : (sinkPad[s] # 0 /\ sinkPc[s] = "rest") =>
    {p.latency : p \in {p \in statsProbes : <<p.sink, p.pad>> = <<s, sinkPad[s]>>}} = {statsEnabled}

(* The parts of an element follow its settings (kms_element_set_property,
   set_video_output_properties, set_sink_input_stats, collect_media_stats). *)
PartsFollow == OutputsFollow /\ ProbesFollow
=============================================================================
