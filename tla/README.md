# TLA+ models of kms-core

kms-core is the core of the Kurento Media Server: the registry of media objects
that clients create over JSON-RPC, the media elements and the connections between
them, the GStreamer plugins below them, and the SDP negotiation by which endpoints
agree on media with a peer. This directory models the parts of it whose
correctness depends on the order of events: which thread takes which lock first,
whether a pad appears before or after the connection that needs it, what a failed
or cancelled negotiation leaves behind. TLC checks the models on small instances;
TLAPS proves most of the safety properties for every instance.

To check: `tlc -config <cfg> <module>` for a run of `PROJECT.json`, `tlapm
<module>.tla` for a module of proofs.

## Inventory

| Part (source) | State it keeps | Operations | What makes it correct |
|---|---|---|---|
| Media object registry (`MediaSet.cpp`, `Factory.cpp`) | objects by id, children of each, objects per session and its inverse, sessions in use, event handlers, posted releases and deletions | register, ref, unref, release, keep alive, unref/release a session, list pipelines, collector round, worker tasks, shutdown | the hand-kept maps agree, nothing held is destroyed, nothing leaks, shutdown ends |
| Media element connections (`MediaElementImpl.cpp`) | `sources` and `sinks` maps, a recursive mutex each | connect, disconnect, release, pad-added callbacks | the two maps agree, connected pads are linked, requests and releases end |
| Pads of `KmsElement` (`kmselement.c`) | output elements, requested pads, pending and created pads, sink targets; flow statistics | request and release pads, create output elements, add and remove sinks | a requested pad is created once its element exists |
| SDP agent (`kmssdpagent.c`) | handlers, handlers by m= line, two descriptions, versions, state | add/remove handler, create/cancel offer, create answer, set local/remote description | lines, handlers and flags in step through renegotiation; the state diagram |
| SDP endpoint and session (`SdpEndpointImpl.cpp`, `kmsbasesdpendpoint.c`, `kmssdpsession.c`) | three atomic flags, handlers per kind, descriptions, started media | generateOffer, processOffer, processAnswer, getters | the flags, taken outside the lock, agree with the agent; media starts once |
| Media handlers, extensions, payload numbers (`commons/sdpagent`, `sdp_utils.c`) | codecs with their payload numbers per line, numbers shared by the lines of an endpoint, the line agreed on | offer, answer and offer again one m= line | answers fit offers; what was agreed on can be offered again; numbers are unique |
| Media groups (`kmssdpgroupmanager.c`, `kmssdpmidext.c`, group classes) | names (mids) of lines, counters, names in use, members of the BUNDLE group | name a line, take a peer's name, answer a group | names are unique and both sides agree on the groups |
| Hub and hub ports (`kmsbasehub.c`, `kmshubport.c`) | ports by id, ghost pads and their targets, requested pads | handle/unhandle a port, link/unlink | pads of a port are linked once both sides exist, and go with it |
| Agnostic bins (`kmsagnosticbin*.c`, tree bins) | input caps, bins by caps, pads to link | caps change, pad request, link, reconfigure | every pad is fed by a bin of its caps |
| RTP endpoint and session (`kmsbasertpendpoint.c`, `kmsbasertpsession.c`) | connections, SSRCs, payloaders, jitter buffers, media and connection state | configure lines, start transport, connect rtpbin, streams, RTCP | payloaders connected once; streams reach their session; the state told is the state |
| Congestion control (`kmsremb.c`, event manager of `kmsutils.c`, `kmsenctreebin.c`) | estimates, counters, bitrates asked for, limits | process a report, a REMB packet or event, a tag | the estimate is bounded by what arrives, the encoder by the slowest consumer |
| RTP synchroniser (`kmsrtpsynchronizer.c`) | extended stamps, base times, last time | process a packet or a sender report | times mean what the sender meant |
| Audio mixers (`kmsaudiomixer.c`, `kmsaudiomixerbin.c`) | inputs with their typefinds, agnostic bins, adders | add, link, unlink, release an input | everybody hears all the others; nothing of an input stays |
| Flow and settings of an element (`kmselement.c`, `kmsstats.c`) | flow marks, timer; bitrates, codec configuration, probes | buffers, timer; set properties, make and remove parts | what is told is what is held; parts follow the settings |
| Filters, URI endpoint, loop, worker pool, pipeline | timers, uri state, sources, workers | start/pause/stop, attach, post | every task runs |

How they interact: the JSON-RPC threads (outside this repository) look objects up in
the registry and call them; a media object's release is a task of the worker pool; an
element's operations emit signals of its `KmsElement`, whose pads appear later, in
streaming threads, and come back to `MediaElementImpl` as `pad-added` callbacks; an
`SdpEndpointImpl` emits signals of its element, which drives the session's SDP agent
under the element's lock, and the agent calls back for handlers. So the shared state is
reached by request threads, the collector, workers and GStreamer threads at once.

What is hard to test here: operations of two critical sections with a window between
them (registry lookups, flags of endpoints), pairs of mutexes taken by two elements,
callbacks before, during and after the request that needs them, failures that leave half
of the work done, and negotiations that build on what an earlier one left behind.
`PROJECT.json` lists them under `hazards`, each at its line.

## Modules

| Module | Models | Used by |
|---|---|---|
| `MediaSet` | registry, collector, workers, shutdown | `MCMediaSet`, `MediaSetProofs` |
| `MediaElement` | connections, mutexes, pads, callbacks | `MCMediaElement`, `MediaElementProofs` |
| `SdpAgentStates` | the state diagram drawn in `kmssdpagent.c`: abstract specification | `SdpAgent` |
| `SdpAgent` | the agent through several negotiations; implements `SdpAgentStates` | `MCSdpAgent`, `SdpAgentProofs` |
| `SdpEndpoint` | flags, element and session of an endpoint under concurrent requests | `MCSdpEndpoint`, `MCEndpoints`, `SdpEndpointProofs` |
| `AgnosticBin` | the agnostic bin with its tree bins: input, bins, source pads | `MCAgnosticBin`, `MCAgnosticBins`, `ElementProofs` |
| `SdpMedia` | media handlers, payload numbers, `sdp_utils.c` | `MCEndpoints`, `SdpEndpointProofs` |
| `SdpGroups` | names and BUNDLE group of lines | `MCEndpoints`, `SdpEndpointProofs` |
| `RtpEndpoint` | RTP endpoint, its session and connections | `MCRtp`, `RtpEndpointProofs` |
| `Remb` | local and remote estimates, event manager, encoder | `MCRtp`, `RtpEndpointProofs` |
| `RtpSync` | RTP synchroniser | `MCRtp`, `RtpEndpointProofs` |
| `Hub` | hub, ports, their pads | `MCAgnosticBins`, `HubProofs` |
| `AudioMixer`, `AudioMixerBin` | the two mixers | `MCEndpoints`, `MixerProofs` |
| `ElementFlow` | is media flowing through an element? | `MCEndpoints`, `ElementProofs` |
| `ElementConfig` | settings passed on to output elements and probes | `MCAgnosticBins`, `ElementProofs` |
| `AgnosticBin3` | the bin that puts agnostic bins between several inputs and outputs | `MCAgnosticBins`, `ElementProofs` |
| `MediaSetProofs`, `MediaElementProofs`, `SdpAgentProofs`, `HubProofs` | proofs about the module they are named after | |
| `SdpEndpointProofs` | proofs about `SdpEndpoint`, `SdpMedia` and `SdpGroups` | |
| `RtpEndpointProofs` | proofs about `RtpEndpoint`, `Remb` and `RtpSync` | |
| `MixerProofs` | proofs about the two mixers | |
| `ElementProofs` | proofs about `ElementFlow`, `ElementConfig`, `AgnosticBin3` and `AgnosticBin` | |
| `MCEndpoints`, `MCRtp`, `MCAgnosticBins` | several modules in one run | |
| other `MC*` | constants for TLC | |

Modules that share a run share no state: a media handler is called by the agent and its
answer is a free choice in `SdpAgent`, and so on. Their product would multiply what is
independent. So each of the three modules in the last row but one has a variable `focus`,
chosen at the start: a behaviour moves the module in focus and the others rest at one
initial state. The state spaces add up, and every property is checked on all of the
behaviours of its module. TLC counts the steps of such a run under one name; each module
on its own, under the same constants, takes every one of its actions.

A definition whose comment begins with "A mutated form" is a plausible bug in the
definition that follows it. It is not used by any specification: it shows, substituted
for that definition, that the property it belongs to can fail.

### MediaSet

One action per critical section of `recMutex`. An operation by object id is two of
them, as in the code: `GetMediaObject` is the lookup, `RefObject`, `UnrefObject` and
`ReleaseObject` are what follows it. A creation is three: `Construct` (the parent is
looked up and the constructor runs without a lock), `Register` (`MediaSet::ref
(MediaObjectImpl *)`), `RefCreated`. Shared pointers are not counted: `Referenced(o)`
says whether anyone holds one, from the maps, the locals of the threads, the posted
tasks and the parent members of existing children, and `ReleasePointer` is the deleter
that runs when nobody does.

Abstractions:
- A round of `doGarbageCollection` is one step, because its thread holds the recursive
  mutex around the inner unlocks.
- `call_release` posted twice for one object is one task; `release ()` is idempotent.
- A map entry that is absent and one that is empty are the same.
- `releasePointer` and the `checkEmpty` it ends with are one step.
- `postConstructor` does not throw. `getMediaSet` after `deleteMediaSet` has returned,
  which makes a new registry, is not modelled.
- Object ids are never reused (they are UUIDs) and spell out the ancestors (`Anc`).

### MediaElement

A request thread's `connect` is `ConnectLockSinks`, `ConnectLockSources`,
`ConnectReplace` (the disconnect of the present source), `ConnectInsert` or
`ConnectRefused`; `disconnect` is `DisconnectLockSources`, `DisconnectErase`. The worker
that runs `release ()` of element e is the thread named e: `SinksLoop`, `SourcesLoop`
take a snapshot under the element's mutex, `DisconnectOne` and `RetryLater` are the two
outcomes of the timed `try_lock`, `NextRound` gives the mutex up. `OutputElement`,
`PadAdded`, `SinkTarget`, `RemoveSink` and `SinkPadAdded` run in GStreamer threads.

Abstractions: one media type and one sink description, since the maps have an
independent entry for each; the loop of `pad-added` that tries both mutexes and gives
the first one up is one step, taken when both are free; the emptiness test of
`disconnectAll` and the lock that follows are one step; elements do not expire while
another holds a weak pointer to them.

### SdpAgent and SdpAgentStates

Every operation of the agent holds its mutex from end to end and is one action. The
handlers are numbered in the order they were made, `handlers` and `offerHandlers` are
the two lists of the code, `h` holds the fields of each handler. A description is a
version and, per m= line, a kind and whether its port is not zero; a kind stands for a
media type with its protocol. Attributes, codecs, bandwidths, groups and extensions are
left out; that they make a description differ from the last one is the parameter
`changed` of `CreateOffer`. An offer may fail before its lines are looked at
(`CreateOfferFailsEarly`), at one of them or after them (`CreateOfferFails`). Whether a media handler accepts, refuses or fails is free.
`RtpKinds` are the handlers that take the port of the previous local description;
a data channel is always on. `Supplies` is the endpoint's `on_handler_required_cb`,
which gives up to `PerKind` handlers. The peer conforms to RFC 3264.

`SdpAgentStates` is the diagram above `KMS_SDP_AGENT_...` in the source (lines 54-86)
and what the text there says of handlers. `FollowsDiagram` is the refinement.

### SdpEndpoint

Each flag of `SdpEndpointImpl` (`offerInProcess`, `waitingAnswer`, `answerProcessed`)
is a `std::atomic_bool` exchanged by the request before it emits the signal; the signal
runs under the element's lock and is one step; the flags set after it are another.
Of the agent only the state is kept, and what it answers is free within what its
handlers allow. Branches that `AgentExpects` shows cannot be reached (an answer that
meets an agent that does not wait for one) have no action. One session per element.

### AgnosticBin

`KmsAgnosticBin2` takes media in one format and gives it to each source pad in the format
its peer wants. `tree` lists every tree bin ever made (parser, decoder, encoder, payloader)
with the bin above it, `bins` is the hash table, `target[p]` the bin at whose tee the ghost
pad p hangs. `SinkCaps` and `SinkCapsConfigure` are the two critical sections of
`sink_caps_probe`, `ParserCaps` is the probe of the new parser, which links all pads again,
`TeeCaps` the caps that come to a tree bin's tee later, `FlowError` is `check_ret_error`.
`Reconfigure`, `SrcUnlinked` and `TargetCaps` (the query function of the pad, when the peer
refuses) are what happens to a pad; `PeerWants` and `UnlinkPeer` are its peer. The search for
a bin and its making are functions from a state to a state, since one step may link several
pads one after the other.

Abstractions: caps are formats of one media type and intersect when they are equal; a peer
wants one format, or any. The queue and the converters between a tee and a pad, and their
removal, are part of the link. `Flows` says when media comes out of a bin: everything above
it is in place and gives what the next one takes; the caps of a target come to the pad only
then. A peer that changes its mind sends RECONFIGURE. A pad is unlinked and linked again by
one thread at a time. Bitrates are in `Remb` and `ElementConfig`. `mixed` observes that the
input went from encoded to raw media or back, which leaves the input bin of the old caps in
place (see the deviations).

### SdpMedia

Two endpoints exchange offers and answers line by line; either may be of another make
(`foreign`), and then offers members of `PeerLines` and takes what it is offered.
`CreateHandler` is what an endpoint does for a new line: codecs get the static numbers of
RFC 3551, those of the payload manager, or numbers of other lines. `CreateMediaOffer` and
`CreateMediaAnswer` run the chain of heirs: `NewOffer` and `NegotiatedOffer` (offered
again), `AnswerFmts`, `AddProtection` (red and ulpfec), `AnswerDirection`, `AnswerSetup`,
`AnswerFeedback` and `Intersect` (`sdp_utils.c`). A line is its formats, rtpmap, fmtp and
extmap attributes, direction, setup, feedback and multiplexing.

Abstractions: a codec is a name with clock rate and channels, and two spellings the code
takes for the same are the same. Attributes without effect on either side are left out. A
rejected line takes no further part (the agent offers it by its reject handler, which is in
`SdpGroups`), handlers are made for the line that is negotiated next, and peers keep the
numbers they agreed on, as RFC 3264 asks. Payload numbers end at 102 in the run so that
they run out. `reclaimed` observes that a line offered again took back numbers of its own
which the manager may meanwhile have given to others or seen peers use (see the deviations).

### SdpGroups

The agent seen by the group manager: an offer or an answer is one step, a line has a kind,
a name and is on or off. `OfferName` and `AnswerName` are the callbacks of the mid
extension, `AddLineHandler`, `RemoveLineHandler` and `RemoveFromGroup` what the user of the
agent does, `GroupOf`, `OfferedGroup` and `AnsweredGroup` the lists of the BUNDLE group.
`LetGo` and `OfferAgain` are `merge_offer_handlers` for the slots of handlers that were removed
or refuse media: the first handler without a line takes the slot. The peer keeps the names of
lines, adds at most one line per offer and may choose the names this server would choose. At
most one group. Only the first offer is cancelled here (cancelled re-offers are in `SdpAgent`),
and a peer does not offer a line again whose handler was removed locally (see the deviations).

### RtpEndpoint

The negotiating thread runs `ConfigureMedia`, `Subscribe`, `UpdateConnState`,
`ConfigureConnection`, `CreateRembManager`, `AttachPayloader`, `ReadConnected` and
`ConnectPayloader`, line by line as `rtp_pc` says; a connection's thread runs `Connected`,
`EmitConnected` and the handlers `ConnectedSession` and `ConnectedPayloader`; a session's
thread `StreamStarts`, `PadAdded`, `NewSsrcPad`, `ReceiverReport` and the RTCP callbacks.
Whatever is told after an unlock is a step of its own (`TellConnState`, `TellMediaState`,
`StopSignal`). One audio and one video line, bundled or not, with or without rtcp-mux, an
announced SSRC, formats, a known protocol. Connections, demultiplexers and rtpbin are
external, as the code uses them. Statistics and header extensions are left out.

### Remb

`Tick` is the interval of reports: what arrives is a member of `Arrivals`, or the source
restarts. `SendRtcp` is `KmsRembLocal` with its linear and exponential parts,
`RembPacket` is `KmsRembRemote`, `RembEvent` the event manager with `Stale` entries,
`calc_min` looking through the table in any order (`MinsOf`), `CapsArrive` the probe that sends
`remb_on_connect`, `TagEvent`, `SetMin` and `SetMax` what
the encoder is given. `Marshalled` is a bitrate through a REMB packet (mantissa and
exponent). The counters are modulo `COUNTER_SIZE`. The role of a behaviour says which
event manager the events end at. Time is in ticks, and factors are in tenths.

### RtpSync

`RtpPacket` and `SenderReport` choose a media time within a quarter of a cycle of the newest
one (`Near`); `ext_timestamp` extends their stamps. `SyncedTime` works out the time by the last
report with the flags `wrapped_up` and `wrapped_down`, `InterpolatedTime` that before the first
one, both through `rtp_diff_full`, branch by branch and in unsigned arithmetic (`U64`,
`MAX_TIME` being `G_MAXUINT64` and thus `GST_CLOCK_TIME_NONE`); `uint64_scale_int` cuts off what
is less than a nanosecond, and so do the sender's report and the arrival times (`Nanoseconds`).
`Sorted` is what the sorted mode makes of a time. `SetWallClock` sets the sender's clock,
`SetClockRate` is `set_pt_clock_rate`. A packet of another SSRC or format is an error that the
probe ignores and no step. What the depayloader makes of the times is left out.

### Hub

`HandlePort`, `UnhandlePort` are the requests; `BeginLinkSink` finds or requests the target
without the lock and `EndLinkSink` or `LinkSinkFails` is what follows under it. `link_src_pad`
takes no lock: `BeginLinkSrc` finds the target and looks for the ghost pad; `SetSrcTarget` gives
the one it found its target, though it may have been removed meanwhile, and `AddSrcPad` adds a
new one, though another thread may have added it or the port may have gone, which ends the
behaviour (`hub_crashed`). `UnlinkPad` is a single change of a target. A target is a static
pad, a requested one that exists or one requested now; one that another ghost pad has is
refused (`Taken`, `Granted`). `requested` keeps every pad requested of an internal element with
whether it is to be removed when unlinked. Adding a source and `pad_added` are one step, and two
threads do not request a pad of one name at once.

### AudioMixer and AudioMixerBin

In `AudioMixer` the streaming thread of an input runs `TypeFound` (the tables, under the
mutex) and `SyncStates` (after it); `BeginUnlinked`, `UnlinkElements` and `EndUnlinked` are
`unlinked_pad` of the mixer, called when a peer goes or when the pad is released;
`LinkMixSrc`, `UnlinkMixSrc` are the source pads, `ChangeMixState` and `DisposeMixer` the
element. In `AudioMixerBin` a release is `BeginDrain`, `BeginWait`, `WaitUntilDone`,
`EndDrain`, `EndRelease`, or `ReleaseStopped`, with the probe, EOS and the loop's idle
callback between them, and `RefCounter` counted. `InputEnds`, `EosPasses`, `InputFlushes` and
`FlushEnds` are what comes from upstream: an input that ended or is flushing refuses the EOS of
the release. After the EOS that fired the probe no other comes.

### AgnosticBin3

`CapsEvent` is an input that learns its format, `RequestOut` and `RequestOutWithCaps` the
two ways to get a pad, `LinkOut` and `EndLinkOut` the handler of its link, `AskUpstream` the
signal by which the elements upstream are asked for a format. Which input a transcoder is
put behind goes by a hash table of pointers, so any may be next.

### ElementFlow and ElementConfig

`ElementFlow` is one `KmsMediaFlowData` with several streaming threads and the timer; each
atomic operation is a step, and so are the two of `MediaElementImpl`, keeping the state and
raising the event. `ElementConfig` has the three bitrate properties with the checks of the
element and those of the agnostic bin (`WithTarget`, `WithMin`, `WithMax`, `BinWithMax`),
the codec configuration, output elements made when requested or later, and the statistics
probes of sink pads. A sink pad is not removed while its probe is being set.

## Runs

| Run | Bounds | Result |
|---|---|---|
| `media_set` | server manager, a pipeline and an element in it, two sessions, two threads, three requests and a shutdown, with fairness | passes: 191,417 states |
| `media_set_stale_ref` | the same without the shutdown | violated, see below |
| `media_element` | three elements, two sources competing for one sink, one client thread, two elements being released, one that refuses pads, three requests | passes: 58,666 states |
| `media_element_locks` | two client threads, no releases | violated, see below |
| `sdp_agent` | audio and data, two lines, two handlers, three negotiations; removal, cancelling, failures and slot reuse all on | passes: 339,589 states |
| `sdp_agent_lines` | audio, video and data, two lines, three handlers, three negotiations, removal on | passes: 1,128,624 states |
| `sdp_agent_slots` | audio and video, the peer reuses slots | violated, see below |
| `sdp_endpoint` (`MCEndpoints`) | endpoint: three request threads, four requests, audio and video, one line each, peer offers of two. Media: an audio and two video lines, three exchanges, five configurations, five lines of peers. Groups: two kinds, two handlers, five operations. Mixers: three inputs and six operations; two branches, each of whose inputs may end and flush. Flow: three threads, four buffers | passes: 668,482 states |
| `agnostic_bin` (`MCAgnosticBins`) | bin: two pads, one parsed and one unparsed encoded format, raw and one RTP format, one format without an encoder, three caps events or flow errors, two links or changes of mind. Bin 3: three inputs, two outputs. Settings: four, three bitrates, an output of each kind, a sink. Hub: a port that comes back under another id, two threads (symmetric), two kinds, a requested pad | passes: 2,314,133 states |
| `agnostic_bin_told` | the agnostic bin with one caps event | violated, see below |
| `audio_mixer_drain` | the mixer bin with one branch | violated, see below |
| `rtp` (`MCRtp`) | endpoint: five setups of two lines, two streams, one RTCP event. REMB: two consumers (symmetric), five, two and three ticks by role, three packets. Synchroniser: five packets and reports over one wrap, from a start well before, before and just before it, the clock set back or forth; a cycle of 12, three units to a second of five nanoseconds, so that no distance but multiples of three is whole, times below 121 | passes: 1,097,979 states |

Why the bounds suffice for what they are meant to show: a race of the registry needs two
requests (or a request and the collector) on one object, and the ancestor rules need a
chain of two; two sessions tell "its" session from "another". A conflict of two
connections needs two sources and one sink, a round of `disconnectAll` that meets another
needs two releases. A pad is left with stale caps when its peer changes its mind, so two links or
changes; an input goes from raw to encoded and back in three caps events; bins are shared
between two pads. A slot is filled, freed and filled again within three negotiations.
The flags of an endpoint can disagree only among requests of the three kinds, so three
threads. A payload number is
taken, lost to a peer and given again within three exchanges, and the third line is the one
whose handler is made after that. A name of a line is given, brought by a peer and given
again within five operations. A payloader races with the one connection of its line. An
event manager's entry is made, expires and is passed by another's within three ticks, and
the estimate passes from probing through losses to recovery in five. A stamp wraps after 12
of 16 units. A hub's port is unhandled while one thread holds a target for it and another links the same pad; a mixer's third
input joins two others while one of these goes. What does not depend on the bounds is proved
(below).

Properties of the passing runs:
- `SessionDuality`, `HeldAlive`, `LinkedParentsInSession`, `HandlersFollow`: the maps of
  the registry agree and nobody points to a destroyed object.
- `NothingLeaks`, `ShutdownEnds`: with silent clients the registry empties and
  `deleteMediaSet` returns.
- `MapsAgree`, `LinksFollow`: a connection is in both maps or in none, and is linked once
  its pads exist and their callbacks have run.
- `RequestsEnd`, `ReleaseEnds`: no request or release hangs, with one client thread.
- `SlotsInStep` (`HandlerPerMedia`, `OwnSlot`), `VersionStep`, `FollowsDiagram`: hold with
  everything that can go wrong in a negotiation.
- `AnswerMatches`, `NeverStuck` (`AnswerPossible`, `OfferPossible`), `LinesInStep`: hold
  while no offer is cancelled, no media handler fails and the peer reuses no slot; with those
  they fail (see below).
- `AnswerRight`: an offer a handler can manage gets an answer, which takes formats of the
  offer in their order and meaning, mirrors the direction and keeps the feedback of the
  formats it takes. `Reoffered`: what two endpoints of this server agreed on can be offered
  again unchanged. `NumbersKept`: a handler made later gives out no number that peers use for
  another codec, unless a line took old numbers back.
- `LinesNamed`: both sides use the same names for the lines and an answer's group has those
  lines of the offered group that are on; lines have different names as long as no offer was
  cancelled.
- `AgentExpects`, `StartsOnce`, `OneOffer`, `WithinMedias`: the endpoint's flags are right.
- `HubInStep`: pads of the hub belong to ports it handles, a port has a sink just when the hub
  has a pad for it, and a requested pad that was linked is given back when nothing leads to it.
- `MixInStep`: every adder hears exactly the other inputs, no link leads to an element that
  is gone, and nothing of an input that went stays. `DrainClean`: a thread that waits for a
  drained branch is waited for by the probe or the loop, and nobody uses the condition after it
  was freed by one that was woken that way.
- `FlowTold`: each change of the flow is told once, and what was told last is true at rest.
- `FedRight`, `NoStaleBin`, `SearchSettles` (`MadeOnce`, `RefusedOnce`): once at rest, every
  pad of the agnostic bin gets what its peer wants, if it can be made, from bins of the
  present input, each made once; and it does come to rest.
- `EveryPadServed`: once all inputs have their caps each linked pad of bin 3 is served, by an
  input that fits if there is one. `PartsFollow`: output elements and probes have the settings
  of their element, whenever they were made.
- `PayloadersConnected`, `ConnectionTold`, `StreamsFed`: a payloader is connected exactly once
  when its connection is, CONNECTED is told exactly when all connections are connected, and a
  stream reaches the session of its line.
- `EstimateBounded`, `SlowestRespected`: a probed estimate is at most twice the highest rate
  received; neither the bitrate asked of the sender nor that of the encoder is above what the
  slowest consumer asked for.
- `TimesMeant`: a packet's presentation time is as far from the first report as its media
  time is, up to two nanoseconds of rounding and 0 if negative, through wraps, reordering and reports ahead of packets; in sorted mode a time that
  would go back is the last one instead.

Each module has a type invariant, and all of them are proved. Only that of `MediaSet` is among
the properties of a run; name the others under `INVARIANTS` to have TLC check them too.

Deadlock is not checked where the bound on requests ends the behaviours of the clients.

### Fairness

- Registry: a request that began completes (`Proceed`), the collector wakes again and
  again (`MediaSet.cpp:119`, a timed wait), workers run what is posted, a shutdown that
  started goes on. No client is obliged to send a request, and nothing starts a shutdown.
- Elements: threads that can go on do. Strong fairness on `ClientStep` is a mutex that is
  not starved for ever. Strong fairness on `RoundSeen` and `DisconnectOne` is the random
  time of `try_lock_for (millisRand)`, 1 to 100 ms, which the changelog (1694-1695) gives
  as the reason of the loop: of two workers that try for each other's mutex, one outlasts
  the other's round sooner or later.

## Proofs

Every proof is for all values of the constants that satisfy the assumption named in the
component's module; the bounds of the runs (requests, rounds, operations) are such constants,
so the theorems speak of behaviours of any length. Most of the properties are not inductive as
they stand; what has to be added is said for each.

**`MediaSetProofs`**, for every forest of objects, every set of sessions and threads and any
number of requests, from `AncAssumption` (ids spell out a forest) and
`ConstantsAssumption`: `TypeCorrect`, `DualityHolds`, `LinkedParentsHold`,
`NoDanglingPointer`, `HandlersFollowHolds`. The inductive invariant is `TypeOK /\
SessionDuality /\ LinkedParentsInSession /\ HeldAlive /\ RequestInv`. The last conjunct is
what a thread knows between its two critical sections: an object under construction is
new, belongs to one thread, which holds its parent; a request that looked its object up
still holds it. Without it `HeldAlive` is not inductive: a state in which a thread is
about to ref an object it has no pointer to would satisfy it. The argument runs along two
lemmas, `RefPreserves` and `UnrefPreserves`, about what `ref` and `unref` do to the maps,
and one lemma per group of actions.

**`MediaElementProofs`**, for any elements, clients and releases: `ElementTypeCorrect`, and,
under `Undisputed`, `MapsStayAgreed` and `LinksAlwaysFollow`. `Undisputed` says that one
description is used, that `disconnect` is called on the source that is connected, and that
two client threads do not give one sink different sources. It is a hypothesis of the two
theorems and not an assumption of the model because the code does not ensure it: the first
two parts are the deviations listed below, and a `disconnect` that finds its
connection replaced by another client's erases that one. One client with any pairs, or any
number of clients with one source to a sink, satisfy it. `ElementInv` adds the mutexes held at
each program counter (`LockInv`), what is known of the maps while they are held (`WorkInv`:
an insert finds the sink without a source, the snapshot of `disconnectAll` is still in the
map), and which pads exist and are linked (`PadInv`, `LinkInv`). `OneSource` (a sink has one
connection at most), `DetachedKeeps` (what stays true when a connection leaves both maps) and
`InsertStep` carry the proof.

**`SdpAgentProofs`**, for any kinds, handlers, lines and negotiations, with removal,
cancelling, failures and reused slots: `AgentTypeCorrect`, `SlotsStayInStep`, `VersionsStep`
and the refinement `AgentImplementsDiagram` (`Spec => FollowsDiagram`, `SdpAgentStates` with
its state and handlers mapped). `SlotsInStep` needs both lists to be free of repetition
(`IdsInv`), since handlers move from one to the other, and the length of a description made
but not set yet (`LinesMade`). `VersionStep` needs how far the version runs ahead of the
description that was set (`VersionInv`): a cancelled offer leaves it one ahead, and the next
one counts from the description again. The loop of `GenerateAnswer` over the m= lines is a
fold. Its invariant (`AnsAt`) is carried along by the least turn that could break it: a non-empty set of numbers
has a least element (`Least`, from the well-founded order of the naturals), which takes the
place of an induction theorem. The same argument serves the lists filtered by `Those`.

What descriptions say line by line is `AnswersMatch`, `LinesStayInStep` and `AgentNeverStuck`,
under `Plain`: no offer is cancelled, no media handler fails, the peer reuses no line. That is
a hypothesis and not an assumption of the model because the code behaves otherwise without it,
as the deviations below say. `LinesInv` says for each state of the agent which descriptions its
handlers fit: each handler is at its index and of the kind of its line in the description the
next operation reads, and one that refuses media is behind a line without a port. It has to
speak of all the states, since a line is agreed over three or four operations; a handler that was
never negotiated is neither removed nor refused (`NewRight`), which is what a slot is filled
with. The loop of the answer keeps the lines answered so far in step (`AnsLines`).

**`SdpEndpointProofs`**, for any number of threads, kinds, lines and requests, from
`EndpointAssumption`: `TypeCorrect`, `AgentExpectsHolds`, `StartsOnceHolds`,
`OneOfferHolds`, `WithinMediasHolds`. `FlagsRight` ties the flags, the agent and the program
counters together, `OneEach` says that the flags admit one thread at a time into each part,
and `StartCounts` counts the starts of media; the first three properties follow from the
conjunction. `WithinMedias` speaks of descriptions; `HandlersBounded` bounds the handlers the
agent keeps, from which descriptions are made, by what was configured and what each failure
left behind.

The same module proves `MediaTypeCorrect`, `AnswersFitOffers`, `AgreedIsReoffered` and
`NumbersStayApart` of `SdpMedia`, for any codecs, numbers, protocols, configurations, lines of
peers and number of exchanges. `MediaInv` says of a handler that its formats have different
numbers (`HandlersRight`), of a line that the formats its handler supports are the first ones
(`LinesHeld`; this is why `add_supported_fmtp`, which looks parameters up by position, finds the
right ones), of an offer on its way that its handler supports all of it (`OfferRight`), and of a
payload manager that shares numbers that what peers brought is in its table, under the same
codec (`NumbersRight`). The chain of heirs is folds over lists of formats. Each is characterised once,
by the least turn that could break what it keeps, and only that is used afterwards.

And it proves `GroupTypeCorrect` and `LinesStayNamed` of `SdpGroups`, for any kinds, handlers,
lines and operations. `GroupInv`: a handler has the name of its line and no line has two handlers
(`HoldsNames`), the names of lines differ, are in `used_mids` and are those of their handlers
only (`Apart`, as long as no first offer was cancelled), a handler has a line just when it is
negotiated once no offer is pending (`Settled`), and that line is agreed on (`AgreedHeld`). That `assign_mid` finds a
free name is a pigeonhole argument: it tries more names than there are used ones.

**`RtpEndpointProofs`**, for any negotiated lines and streams of a peer and any number of
RTCP events, from `RtpAssumption`: `RtpTypeCorrect`, `PayloadersAlwaysConnected`,
`ConnectionAlwaysTold`, `StreamsAlwaysFed`. The assumption is about the peer: an SSRC it
announces for a line is a stream of that line's kind, and a payload number that a stream uses
is among those of its own line if it is of any. The invariant of the connections says that
nobody listens before `check_conn_status` (`EarlyInv`), that only connected connections emit
(`EmitInv`), that while the state is not CONNECTED some connection will still call the session's
handler, and what is still to be told is true (`ToldInv`), and that a payloader that was made
is connected, is about to be, or waits for a signal that comes or for the look at the
connection after it (`PayInv`). This last disjunction is why `connect_payloader_async` has to
subscribe first and look at the connection then: a signal emitted before the subscription
leaves a connection that is seen connected. Streams need what reports pair them with (`MetInv`).

The same module proves `EstimateAlwaysBounded` of `Remb`, for any parameters, arrivals and
bandwidths of `RembAssumption` (intervals and grades that divide are not 0, a decrement is at
most ten tenths): `EstimateInv` says that what came since the last report is what the counters
differ by (`GotInv`) and that the record of bitrates is bounded by the peak (`RecordBound`).
The estimate alone is not inductive: it is made from the average and the maximum.

`SlowestAlwaysRespected` and `RembTypeCorrect`, for any number of consumers and any bitrates,
add what is known of the table (`RembInv`): its minimum is no more than any entry and is there
when there are entries, unless it was worked out with an entry of 0 (`ManagerInv`); what a peer
asked for a short time ago is still in it (`AskedInv`), which fails for what is older than
`CLEAR_INTERVAL`, so the two intervals have to agree; the encoder was told the minimum
(`EncoderTold`) and is set to no more (`EncoderInv`). `Marshalled` needs that the powers of two
are positive: `PowerOf2` is a recursive function, whose existence (`PowersExist`) and values
(`PowerFacts`) follow from the least number for which they would fail.

And it proves `TimesAsMeant` of `RtpSync`, for any cycle, clock rate, start and delay of
`SyncAssumption`, any number of packets and reports, and any order of them within a quarter of a
cycle. `SyncInv`: the extended stamps are media times less a number of cycles that is fixed
when the first stamp is read (`SyncTracks`); the last stamp kept is within a quarter of a cycle
of the newest, which is what makes the choice of `ext_timestamp` among three readings right
(`ExtRight`). Cycles and nanoseconds are operators of their own (`Cycles`, `Nanoseconds`) with the
few facts that are needed of products and quotients, so that every other step is linear. Two
roundings differ from one by at most 1 (`NanosecondsSum`), so the three on the way from the
first report by the last one to the packet by at most 2 (`ApartThrough`). `SyncedRight` goes
through the branches of `rtp_diff_full`: the flags and comparisons give the true sum, 0 if it is
negative, and `NO_TIME` if it is -1. `SyncTypeCorrect` says that nothing leaves 64 bits.

**`HubProofs`**, for any ports, threads and pads: `HubTypeCorrect`, `HubStaysInStep`. `HubInv`
adds that two ids are of different ports (`PortsApart`) and that only handled ports have
sinks (`SinksOwned`): when a port goes, the sinks taken away are those of its id and of no
other. That a pad asked for while its port went comes to nothing is the step `EndLinkSink`; that
a source linked without the lock leaves no target held by a pad that went, and no pad of a port
that went in a behaviour that goes on, are the steps `SetSrcStep` and `AddSrcStep`.

**`MixerProofs`**, for any number of inputs: `MixBinTypeCorrect`, `DrainsClean`,
`MixTypeCorrect`, `MixStaysInStep`. For a drain: who holds a reference (`References`: the
counter is the probe and the loop's task) and which of the probe, the task and the end is still
to come (`Progress`), whatever the input does; that the EOS comes is not proved, since it may not
(`audio_mixer_drain`). For the mixer: which tables, threads and elements an input has at every
step of `unlinked_pad` (`TablesInv`, `ThreadInv`, `ElementsInv`), and that links join what is
still linked (`LinksInv`); the tables are emptied before the elements are unlinked, so
`MixInStep` alone says nothing of what is under way.

**`ElementProofs`**: for any threads, `FlowTypeCorrect` and `FlowAlwaysTold`, by a count of
the changes made, told and still to tell (`FlowCount`), where the timer is (`TickInv`), and
that without an overtaken telling one change at most is being told, the last (`FlowOrder`).
For any outputs and bitrates, `ConfigTypeCorrect` and `PartsAlwaysFollow`: the bitrates of the
element and of each output are ordered, so that the checks of the agnostic bin take what
those of the element took (`Ordered`, `OutputInv`), and a sink has one probe (`ProbeInv`,
`SinkInv`). For any inputs, outputs and formats, `Bin3TypeCorrect` and
`EveryPadAlwaysServed`: `PadRight` says for each pad and each step of its link handler what is
already sure of it; the configured inputs are among the requested ones, which makes the
comparison of two counts (`AllConfigured`) mean that none is missing. A pad linked late is
excepted.

For any pads and formats of `AgnosticBin`, `BinTypeCorrect`, `PadsFedRight`,
`SearchAlwaysSettles` and, under `Plugins`, `NoBinIsStale`. `Plugins` says that every encoded
format has a decoder and what a payloader takes has an encoder; without it a payloader is made
below nothing. `BinInv` has two layers: the bins of the table hang below the input bin
(`Rooted`) at all times, and while the input is the one the input bin was made for (`Steady`)
each gets what it takes and no two give the same (`Pure`), and a pad that waits for nothing is
where the search would put it (`PadInv`). `FedRight` alone is not inductive, since
between the two critical sections of `sink_caps_probe` no pad is fed right. The search up
the tree and the loop over the pads are recursive functions of a whole state; they are
followed by the least turn that could break what they keep, as in `SdpAgentProofs`.

Five attempts to prove showed that a property was false and the bounds had hidden it:
- with a third caps event the input of an agnostic bin can go from raw to encoded media and
  back, which the observer `mixed` now tells (`FedRight`);
- with a stream that starts just before a wrap the packet after one from before the wrap is
  compared with a stamp taken for 0, which `TimesMeant` now excepts;
- a line that is offered again takes back its old numbers, though another handler may have got
  them meanwhile (`reclaimed`, `NumbersKept`);
- after a cancelled first offer two lines may have one name, and a refused line may then be
  taken for one of the group, which needs seven operations (`cancelled`, `LinesNamed`);
- with three consumers, of which one asks for 0, the minimum may be that of the fastest
  (`lifted`, `SlowestRespected`).

The first two are within the bounds of the runs now; for the others the theorems say more than
the runs.

Only model-checked is liveness, which is out of the prover's reach: `NothingLeaks`,
`ShutdownEnds`, `RequestsEnd` and `ReleaseEnds`. Every other property of a passing run is stated
by a theorem.

## Where the code falls short of what it says

Five runs end in a violation and are listed as findings: a released object re-enters a
session (`MediaSet.cpp:571`, the lock is commented out), `connect` and `disconnect` take
two mutexes in opposite orders (`MediaElementImpl.cpp:1163`), a line the agent refused
is answered by the handler of the old kind when the peer reuses it
(`kmssdpagent.c:1487`), the agnostic bin tells of transcoding once only, by the first pad
that is linked (`kmsagnosticbin.c:726`), and the release of a pad of the mixer bin waits for an
EOS that a flushing or ended input refused (`kmsaudiomixerbin.c:472`).

The other deviations met on the way are below, with the setting of the models that shows
them where they have one.

Registry
- `getSessions` sizes its vector to the number of sessions and appends the ids, so the
  answer starts with as many empty ids (`MediaSet.cpp:634`; core.kmd.json:227).
- `addEventHandler` is called by a request after its object was got, with no lock between
  (583): if the session went meanwhile, the handler is entered for it and stays.
- When `postConstructor` throws, the object is in `objectsMap` already (`Factory.cpp:35`).

Elements
- `connect` disconnects the sink's present source with the description of the new
  connection; if they differ the old source goes on listing the sink
  (`MediaElementImpl.cpp:1045`). With two `Descs`, `MapsAgree` fails.
- A disconnect before the source pad was created leaves the request pending, and the pad
  is created later for nobody (1188; core.kmd.json:1132).
- `pad-added` uses the sink of a connection, a weak pointer, without a look at whether it
  expired (308).
- `a.disconnect (b)` while c feeds b erases b's entry; `c.release ()` then loops for ever
  (1176). With `Misdirected = TRUE`, `MapsAgree` and `ReleaseEnds` fail.

Agent (`kmssdpagent.c`)
- A handler removed locally gives its slot to a new one although the port of the line was
  never zero (1032; the comment at 1062-1065).
- A removed handler still answers a re-offer (1528; the comment at 617-619), once: its mid
  callbacks are disconnected with the first description without it
  (`kmssdpgroupmanager.c:318-332`), and the mid extension then fails (`kmssdpmidext.c:99-135`).
- A cancelled re-offer keeps its handlers in the list, and after one more negotiation
  `create_offer` fails with "Invalid media index" (1655). With `Cancels = TRUE`,
  `OfferPossible` fails.
- `replace_offered_handler` leaves the index of the new handler at 0, and a later port of
  zero is answered with a copy of line 0 (1477). With `PeerReuses = TRUE` and four
  negotiations, `AnswerMatches` fails for this.
- A first offer that failed leaves its list, by which the next remote offer is answered
  (1250). With `Failures = TRUE`, `AnswerPossible` fails.

Agnostic bin (`kmsagnosticbin.c`)
- An input that changes from or to raw keeps its input bin (1003; the comment at 1009 asks
  why), and pads that need a decoder get nothing. `FedRight` leaves such inputs out
  (`mixed`), and fails otherwise.
- `create_rtp_pay_bin` uses the bin above without a check for NULL (652). It has none when the
  input changed from raw, or when a format has no encoder or decoder: with `Decodable = {}`,
  `NoStaleBin` fails.
- An input bin whose parser told no caps before the next change of format is in no table and
  is not removed until the element is (921-957).

Endpoint
- A `generateOffer` that failed leaves its handlers with the agent; the retry adds them
  again (`kmsbasesdpendpoint.c:580`, 998). `WithinMedias` counts the failures for this.
- After an answer the local description still is the offer (`kmssdpsession.c:187`;
  core.kmd.json:647 promises the agreed one).
- An offer that could not be answered is kept as the remote description
  (`kmssdpsession.c:103`; core.kmd.json:660).
- `waitingAnswer` is set after the offer can be read by others, and an answer in between
  is refused (`SdpEndpointImpl.cpp:240`; core.kmd.json:619).
- A failed `processOffer` leaves the agent in `REMOTE_OFFER`, where every retry fails
  (268), and the `OfferOptions` of a failed `generateOffer` stay (222).
- `process_offer` makes another BUNDLE group each time (`kmsbasesdpendpoint.c:616`), and the
  result of `configure_media` is not looked at (215).

Media handlers (`kmssdprtpavpmediahandler.c`)
- `payload <= G_N_ELEMENTS (rtpmaps)` admits number 35, one past the table (271, 482, 520,
  612).
- A line offered again takes back its old numbers without a look at whether the manager gave
  them to another codec (489, `kmssdppayloadmanager.c:174-197`); `NumbersKept` leaves it out
  (`reclaimed`).
- A codec for which no number is left is silently not offered (`kmssdppayloadmanager.c:121`).
- fmtp attributes are added by position in the list of formats (931); rtpmaps are compared by
  prefix (`sdp_utils.c:281`).

Groups
- A name given out in an offer that is cancelled may be given again: add a handler, offer,
  cancel; the peer offers a line with the name; the next offer has it twice
  (`kmssdpgroupmanager.c:231`). `LinesNamed` leaves `cancelled` behaviours out where it says that
  names differ and that a refused line is not in the group. Names of removed handlers stay in `used_mids`.
- The list `groups` of a handler is never filled, so the check of the BUNDLE group
  (`kmssdpbundlegroup.c:64`) never refuses.

RTP endpoint
- `set_media_state` tells the state after the unlock (`kmsbasertpendpoint.c:3169`). Audio is
  active and times out; before its thread tells DISCONNECTED, video becomes active and its
  thread tells CONNECTED; then DISCONNECTED is told, and stays although there is an RTCP
  flow (core.kmd.json:898-901: "CONNECTED: There is an RTCP flow"). `MediaTold` states what
  the document says; with `MaxRtcp = 3` TLC finds these steps.
- A bundled stream that comes before its line is configured is led to a fakesink for good
  (`kmsbasertpsession.c:362`); `StreamsFed` leaves it out.
- Caps are looked up by payload number whichever the session (`kmsbasertpendpoint.c:1811`);
  the lookup of protections finds the data of the first line only (353, 579);
  the direction of statistics is fixed (772).
- The least send bandwidth is clamped to the greatest even when that is 0, unlimited (2447).

Congestion control
- A source that restarts and is past its old counters at the next report is not noticed
  (`kmsremb.c:219`); `EstimateBounded` leaves it out (`unnoticed`). An entry of 0 in the event
  manager means no limit and lifts those of the others; `SlowestRespected` leaves it out.
- `remb_event_manager_calc_min` takes a minimum of 0 for none yet, so with an entry of 0 it finds
  the least of the entries that come after it in the table (`kmsutils.c:901`). If that is the
  greatest and the entry of 0 then becomes the same, nothing is worked out again (948), and a
  consumer that asked for less is passed over until its next change: entries 16, 0 and 8, then
  16, 16 and 8. `SlowestRespected` leaves it out (`lifted`).
- The probe for caps sends `remb_on_connect` after packets may have come (711);
  `lineal_factor_grade` 0 divides by zero (396); `set_bitrate_limits` takes no mutex
  (`kmsenctreebin.c:335`).

Synchroniser
- With `wrapped_down` the comparison is strict (`kmsrtpsynchronizer.c:340`): a sum of -1 is taken
  for `G_MAXUINT64`, `GST_CLOCK_TIME_NONE`, where `tests/check/general/rtpsync.c:237` expects a
  negative time to become 0. `TimesMeant` allows for it. `NegativeAvoided` states what the test
  does and is not true. With the bounds of `rtp` TLC finds: a report of media time 2 (3 ns) comes
  at our time 1, then the one of media time 0, then the packet of media time 1 (1 ns): 1 - 3 + 1.
- A packet or report from before the last wrap gets a time a cycle off
  (`kmsrtpsynchronizer.c:331`, 466); `TimesMeant` leaves it out (`kept`). Before the first wrap
  its stamp is taken for 0, which in sorted mode is then the last stamp seen: a packet of
  stamp 0 after it gets the same time.

Hub (`kmsbasehub.c`)
- A pad requested for a port that went before the lock was taken is not given back (521);
  `HubInStep` speaks of requested pads that were linked.
- `link_src_pad` takes no lock and does not expect a port that is gone (812): `pad_added` then
  dereferences NULL, which ends a behaviour of the model (`hub_crashed`).
  `remove_port_pads` forgets data pads (748); a target set when the pad appears is the first
  that was asked for (657).

Mixers
- A pad released without ever having been linked leaves its adder and typefind
  (`kmsaudiomixer.c:1011`), and so does a typefind unlinked while the mixer is stopped
  (768-785); `NothingLeft` leaves both out.
- A state change of the bin during a drain makes the releasing thread wait for ever, or frees
  a condition that is still used (`kmsaudiomixerbin.c:475-491`); `DrainClean` and `DrainEnds`
  leave it out (`stopped`). `have_type` takes no lock (229, 436).

Agnostic bin 3 (`kmsagnosticbin3.c`)
- A pad requested with caps and linked after the inputs have their caps is never connected
  (763, 237); `EveryPadServed` leaves it out (`late`). Current caps may be NULL (510).

Flow and settings
- The timer may find no mark between a buffer's change of the state and its telling: NOT
  FLOWING is told, then FLOWING, or the other way round, and the wrong one stays
  (`kmselement.c:617`); `FlowTold` leaves it out (`overtaken`). The maps of
  `MediaElementImpl` are written by several threads without a lock (541).
- A maximum of 0 is "unlimited" (core.kmd.json:1431), but the element raises it to the minimum
  if there is one, and refuses targets above (`kmselement.c:1303`). Codec configuration set
  while an output was requested but is not made yet is a NULL dereference (1250), which
  ends a behaviour of the model (`crashed`); audio outputs made after it never get it.

## Not modelled

The JSON-RPC layer and the modules that extend the core are in other repositories. Of this
one: module loading, UUIDs, dot graphs, process tools, the dummy elements of the tests and
the bitstream parser carry no protocol; statistics, recording profiles and most of
`kmsutils.c` are data conversions. Data channels (SCTP) have one format and no numbers, and the
agreement on SRTP keys chooses a tag from a list; neither keeps state. The filters, the URI
endpoint, the loop, the worker pool and the pipeline are small and left for later (see the
plan); `MediaSet` takes the pool as a set of tasks that run in any order. `PROJECT.json` names
every part with its reason.

In the modelled parts, these branches of the code are left out or merged with others:
- `SdpAgent`: a NULL answer for a line without a port whose handler fails
  (`kmssdpagent.c:1570-1577`), which the code would use, is a refused line.
- `SdpEndpoint`: `kms_sdp_agent_group_add` (`kmsbasesdpendpoint.c:414-420`) does not fail on its
  own: the group was just made and the handler just added.
- `SdpGroups`: one new line in an offer of the peer; `on_answer_mid_cb` finds the handler's name
  (`kmssdpgroupmanager.c:256-263`).
- `RtpEndpoint`: a failing RTP session (`kmsbasertpendpoint.c:842-846`), which also
  leaves its connection, is a failing connection.
- `Remb`: the manager is there from the start, where the code makes it with the first pad
  (1890-1892); a REMB packet without an SSRC (`kmsremb.c:722-725`) is no step.
- `AgnosticBin3`: `gst_ghost_pad_set_target` does not fail, since a transcoder's pads are new.
- `MediaSet`: `release` takes an object from the sessions it is in (`MediaSet.cpp:498-502`), the
  model from all; taking it from one it is not in changes nothing.

## Plan

1. Done: every module above, the proofs above.
2. Models next: the buffer injector and the other filters, the states of the URI endpoint, the
   loop and the worker pool with its watchdog, the bus of the pipeline; several sessions of one
   SDP element; statistics of RTP sessions; the removal of what hangs between a tee and an
   unlinked pad.
