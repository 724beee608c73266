---------------------------- MODULE AgnosticBin ----------------------------
(***************************************************************************)
(* KmsAgnosticBin2 (kmsagnosticbin.c) with its tree bins: an element that  *)
(* takes media in one format and gives it to every source pad in the       *)
(* format that the peer of the pad wants.                                  *)
(*                                                                         *)
(* The input is parsed by the input bin.  A decoder, encoders and RTP      *)
(* payloaders hang below it, each a tree bin that is made when a pad first *)
(* needs it and is kept in a hash table; a source pad is a ghost pad whose *)
(* target hangs at the tee of one of the bins.  When the format of the     *)
(* input changes all bins are thrown away, and the pads are linked again   *)
(* once the new input bin knows its caps.                                  *)
(*                                                                         *)
(* Caps events of the input run in the streaming thread, RECONFIGURE       *)
(* events in the threads of the peers, links and unlinks in the threads of *)
(* requests.  Each section under the recursive mutex is one step.          *)
(*                                                                         *)
(* Caps are formats of one media type, so that caps intersect when they    *)
(* are equal or one is Any.                                                *)
(***************************************************************************)
EXTENDS Integers, Sequences

CONSTANTS
  NPads,        \* the source pads are 1..NPads
  Encoded,      \* encoded formats
  Rtp,          \* RTP formats
  PayloadOf,    \* PayloadOf[r]: the encoded format that a payloader of r takes
  Parsed,       \* the encoded formats with a parser; others get a capsfilter
  Decodable, Encodable, Payloadable,  \* the formats with a decoder, an encoder, a payloader
  MaxInputs,    \* bound: caps events and flow errors of the input
  MaxPeers      \* bound: links and changes of mind of the peers

Raw == "raw"
Any == "any"
NoCaps == "none"
NoPeer == "unlinked"
NoPad  == "absent"
NoBin  == 0

ASSUME FormatsAssumption ==
  /\ NPads \in Nat /\ MaxInputs \in Nat /\ MaxPeers \in Nat
  /\ Encoded \cap Rtp = {} /\ (Encoded \cup Rtp) \cap {Raw, Any, NoCaps, NoPeer, NoPad} = {}
  /\ PayloadOf \in [Rtp -> Encoded]
  /\ Parsed \subseteq Encoded /\ Decodable \subseteq Encoded
  /\ Encodable \subseteq Encoded /\ Payloadable \subseteq Rtp

Pads   == 1..NPads
Inputs == Encoded \cup {Raw}
Wants  == Inputs \cup Rtp \cup {Any}

VARIABLES
  inputCaps,   \* input_caps
  probe,       \* the caps replaced by a caps event whose second section is still to run, as
               \* a sequence of length one; empty when the streaming thread is elsewhere
  inputBin,    \* input_bin
  srcCaps,     \* input_bin_src_caps
  started,     \* the input bin has told its caps
  mixed,       \* the input changed from or to raw, which keeps the input bin (for the properties)
  tree,        \* every bin made so far, in order: what it is, takes and gives, the bin above it
  bins,        \* the hash table of bins
  told,        \* what media-transcoding said, once it was emitted
  peer,        \* peer[p]: what the peer of pad p wants
  on,          \* on[p]: KMS_AGNOSTIC_PAD_STARTED
  target,      \* target[p]: the bin at whose tee the target of pad p hangs
  got,         \* got[p]: the caps of the target have come to the pad
  cur,         \* cur[p]: the sticky caps of the pad
  pending,     \* pending[p]: a RECONFIGURE event is on its way to the pad
  unlinking,   \* unlinking[p]: the peer is gone, the handler of "unlinked" is still to run
  inputs, peers

input == <<inputCaps, probe, inputBin, srcCaps, started, mixed>>
made  == <<tree, bins, told>>
fed   == <<target, got>>
pads  == <<peer, on, cur, pending, unlinking>>
vars  == <<input, made, fed, pads, inputs, peers>>

Kinds == {"parse", "dec", "enc", "pay"}
Bin   == [kind : Kinds, takes : Inputs, gives : Inputs \cup Rtp, from : Nat]

(* The type invariant. *)
TypeOK ==
  /\ inputCaps \in Inputs \cup {NoCaps} /\ srcCaps \in Inputs \cup {NoCaps}
  /\ probe \in {<<>>} \cup {<<c>> : c \in Inputs \cup {NoCaps}}
  /\ tree \in Seq(Bin) /\ inputBin \in 0..Len(tree) /\ bins \subseteq 1..Len(tree)
  /\ started \in BOOLEAN /\ mixed \in BOOLEAN /\ told \in {"nothing", "active", "inactive"}
  /\ peer \in [Pads -> Wants \cup {NoPeer, NoPad}]
  /\ cur \in [Pads -> Inputs \cup Rtp \cup {NoCaps}]
  /\ target \in [Pads -> 0..Len(tree)]
  /\ \A f \in {on, got, pending, unlinking} : f \in [Pads -> BOOLEAN]
  /\ inputs \in 0..MaxInputs /\ peers \in 0..MaxPeers

Init ==
  /\ inputCaps = NoCaps /\ probe = <<>> /\ inputBin = NoBin /\ srcCaps = NoCaps
  /\ started = FALSE /\ mixed = FALSE /\ tree = <<>> /\ bins = {} /\ told = "nothing"
  /\ peer = [p \in Pads |-> NoPad] /\ cur = [p \in Pads |-> NoCaps]
  /\ target = [p \in Pads |-> NoBin]
  /\ on = [p \in Pads |-> FALSE] /\ got = [p \in Pads |-> FALSE]
  /\ pending = [p \in Pads |-> FALSE] /\ unlinking = [p \in Pads |-> FALSE]
  /\ inputs = 0 /\ peers = 0

-----------------------------------------------------------------------------
(* Finding and making bins.  s is the state as it is changed along the way, for several
   pads are linked in one step; a result is the state and the bin found, or NoBin. *)

Now == [tree |-> tree, bins |-> bins, told |-> told, src |-> srcCaps, target |-> target, got |-> got]

Becomes(s) ==
  /\ tree' = s.tree /\ bins' = s.bins /\ told' = s.told /\ srcCaps' = s.src
  /\ target' = s.target /\ got' = s.got

Found(s, b) == [s |-> s, bin |-> b]

(* The four tree bins: what they take and give.  b is the bin at whose tee they hang. *)
ParseTreeBin(c)     == [kind |-> "parse", takes |-> c, gives |-> c, from |-> NoBin]
DecTreeBin(c, b)    == [kind |-> "dec", takes |-> c, gives |-> Raw, from |-> b]
EncTreeBin(c, b)    == [kind |-> "enc", takes |-> Raw, gives |-> c, from |-> b]
RtpPayTreeBin(c, b) == [kind |-> "pay", takes |-> PayloadOf[c], gives |-> c, from |-> b]

Insert(s, bin) ==
  LET n == Len(s.tree) + 1
  IN  Found([s EXCEPT !.tree = Append(@, bin), !.bins = @ \cup {n}], n)

Accepts(want, c) == want \in {Any, c}

check_bin(s, b, c) == s.tree[b].gives = c

(* A mutated form: the bins below the input are not told apart by their caps. *)
FindAnyBin(s, c) == inputBin

find_bin_for_caps(s, c) ==
  LET fitting == {b \in s.bins : check_bin(s, b, c)}
  IN  IF c = Any \/ check_bin(s, inputBin, c) THEN inputBin
      ELSE IF fitting # {} THEN CHOOSE b \in fitting : TRUE
      ELSE NoBin

(* A decoder takes the caps that the input bin told. *)
create_dec_bin(s) ==
  IF s.src \in Decodable THEN Insert(s, DecTreeBin(s.src, inputBin)) ELSE Found(s, NoBin)

get_or_create_dec_bin(s, c) ==
  LET dec == find_bin_for_caps(s, Raw)
  IN  IF inputCaps = Raw \/ c = Any THEN Found(s, inputBin)
      ELSE IF dec # NoBin THEN Found(s, dec)
      ELSE create_dec_bin(s)

(* Bins for caps that are not RTP. *)
create_bin_for_caps(s, c) ==
  LET dec == get_or_create_dec_bin(s, c)
  IN  IF dec.bin = NoBin \/ c = Raw THEN dec
      ELSE IF c \in Encodable THEN Insert(dec.s, EncTreeBin(c, dec.bin))
      ELSE Found(dec.s, NoBin)

(* media-transcoding is emitted once in the life of the element. *)
Tell(s, what) == IF s.told = "nothing" THEN [s EXCEPT !.told = what] ELSE s

(* The bin found for c, or the one that new made. *)
FoundOrNew(s, c, new) ==
  LET bin == find_bin_for_caps(s, c)
  IN  IF bin # NoBin THEN Found(Tell(s, "inactive"), bin)
                     ELSE Found(Tell(new.s, "active"), new.bin)

(* The code takes the tee of the bin above without a look at whether there is one: with
   none, a payloader below NoBin, it follows a NULL pointer (Crashed). *)
create_rtp_pay_bin(s, c) ==
  IF c \notin Payloadable THEN Found(s, NoBin)
  ELSE LET above == FoundOrNew(s, PayloadOf[c], create_bin_for_caps(s, PayloadOf[c]))
       IN  Insert(above.s, RtpPayTreeBin(c, above.bin))

find_or_create_bin_for_caps(s, c) ==
  FoundOrNew(s, c, IF c \in Rtp THEN create_rtp_pay_bin(s, c) ELSE create_bin_for_caps(s, c))

-----------------------------------------------------------------------------
(* Linking source pads. *)

remove_target_pad(s, p) == [s EXCEPT !.target[p] = NoBin, !.got[p] = FALSE]

link_pad(s, p) ==
  LET found == find_or_create_bin_for_caps(s, peer[p])
  IN  IF found.bin = NoBin THEN found.s
      ELSE [found.s EXCEPT !.target[p] = found.bin, !.got[p] = FALSE]

Linked(p) == peer[p] \in Wants

(* A pad whose peer accepts the caps it has is left at its target. *)
process_pad(s, p, isOn, isStarted) ==
  LET settled == s.target[p] # NoBin /\ cur[p] # NoCaps /\ Accepts(peer[p], cur[p])
  IN  IF ~isOn \/ ~isStarted \/ ~Linked(p) \/ settled THEN s
      ELSE link_pad(IF cur[p] # NoCaps THEN remove_target_pad(s, p) ELSE s, p)

add_linked_pads(s, p) ==
  IF Linked(p) THEN process_pad(remove_target_pad(s, p), p, on[p], TRUE) ELSE s

(* kms_element_for_each_src_pad, in the order of the pads. *)
ForEachPad(s) ==
  LET upTo[n \in 0..NPads] == IF n = 0 THEN s ELSE add_linked_pads(upTo[n - 1], n)
  IN  upTo[NPads]

(* The process followed the NULL pointer of create_rtp_pay_bin. *)
Crashed == \E b \in bins : tree[b].kind = "pay" /\ tree[b].from = NoBin

-----------------------------------------------------------------------------
(* The input. *)

Idle == probe = <<>>
MoreInput == inputs < MaxInputs /\ inputs' = inputs + 1

(* A mutated form: the bins of the old input stay in the table. *)
ConfigureKeepsBins(c) ==
  /\ tree' = Append(tree, ParseTreeBin(c))
  /\ inputBin' = Len(tree) + 1
  /\ started' = FALSE /\ mixed' = FALSE
  /\ UNCHANGED <<bins, told, srcCaps, fed>>

configure_input(c) ==
  /\ tree' = Append(tree, ParseTreeBin(c))
  /\ inputBin' = Len(tree) + 1
  /\ started' = FALSE /\ mixed' = FALSE
  /\ bins' = {}
  /\ UNCHANGED <<told, srcCaps, fed>>

(* A caps event comes to the sink: the first section of sink_caps_probe. *)
SinkCaps(c) ==
  /\ ~Crashed /\ Idle /\ MoreInput
  /\ inputCaps' = c
  /\ probe' = <<inputCaps>>
  /\ UNCHANGED <<inputBin, srcCaps, started, mixed, made, fed, pads, peers>>

(* The second section: caps that differ make a new input bin, unless one of the two is raw. *)
SinkCapsConfigure ==
  /\ ~Crashed /\ probe # <<>>
  /\ \/ /\ probe[1] = NoCaps \/ (probe[1] # inputCaps /\ Raw \notin {probe[1], inputCaps})
        /\ configure_input(inputCaps)
     \/ /\ probe[1] # NoCaps /\ (probe[1] = inputCaps \/ Raw \in {probe[1], inputCaps})
        /\ mixed' = (mixed \/ probe[1] # inputCaps)
        /\ UNCHANGED <<inputBin, srcCaps, started, made, fed>>
  /\ probe' = <<>>
  /\ UNCHANGED <<inputCaps, pads, inputs, peers>>

(* A flow error: the input bin is made anew. *)
FlowError ==
  /\ ~Crashed /\ Idle /\ inputCaps # NoCaps /\ MoreInput
  /\ configure_input(inputCaps)
  /\ UNCHANGED <<inputCaps, probe, pads, peers>>

(* A capsfilter lets every format through, a parser its own. *)
Passes(b, c) == tree[b].takes \notin Parsed \/ tree[b].takes = c

(* The input bin has not told its caps yet, and can. *)
ParserReady == Idle /\ inputBin # NoBin /\ inputBin \notin bins /\ Passes(inputBin, inputCaps)

(* The first caps event of the parser: input_bin_src_caps_probe. *)
ParserCaps ==
  /\ ~Crashed /\ ParserReady
  /\ started' = TRUE
  /\ Becomes(ForEachPad([Now EXCEPT !.tree[inputBin].gives = inputCaps,
                                    !.src = inputCaps, !.bins = @ \cup {inputBin}]))
  /\ UNCHANGED <<inputCaps, probe, inputBin, mixed, pads, inputs, peers>>

(* Later caps of an input bin without a parser come to its tee. *)
TeeReady == /\ Idle /\ inputBin \in bins /\ Passes(inputBin, inputCaps)
            /\ tree[inputBin].gives # inputCaps

TeeCaps ==
  /\ ~Crashed /\ TeeReady
  /\ tree' = [tree EXCEPT ![inputBin].gives = inputCaps]
  /\ got' = [p \in Pads |-> got[p] /\ target[p] # inputBin]
  /\ UNCHANGED <<input, bins, told, target, pads, inputs, peers>>

-----------------------------------------------------------------------------
(* The source pads. *)

MorePeers == peers < MaxPeers /\ peers' = peers + 1

RequestNewPad(p) ==
  /\ ~Crashed /\ peer[p] = NoPad
  /\ peer' = [peer EXCEPT ![p] = NoPeer]
  /\ UNCHANGED <<input, made, fed, on, cur, pending, unlinking, inputs, peers>>

(* The pad is gone, and with it its flag and caps: a pad requested later is a new one. *)
ReleasePad(p) ==
  /\ ~Crashed /\ peer[p] = NoPeer /\ ~unlinking[p]
  /\ peer' = [peer EXCEPT ![p] = NoPad]
  /\ on' = [on EXCEPT ![p] = FALSE]
  /\ cur' = [cur EXCEPT ![p] = NoCaps]
  /\ pending' = [pending EXCEPT ![p] = FALSE]
  /\ UNCHANGED <<input, made, fed, unlinking, inputs, peers>>

(* A peer that wants w is linked to the pad, or the peer now wants w: it sends RECONFIGURE. *)
PeerWants(p, w) ==
  /\ ~Crashed /\ MorePeers
  /\ peer[p] \in Wants \/ (peer[p] = NoPeer /\ ~unlinking[p])
  /\ peer[p] # w
  /\ peer' = [peer EXCEPT ![p] = w]
  /\ pending' = [pending EXCEPT ![p] = TRUE]
  /\ UNCHANGED <<input, made, fed, on, cur, unlinking, inputs>>

(* RECONFIGURE comes to the pad, which may be unlinked by then: src_reconfigure_probe. *)
Reconfigure(p) ==
  /\ ~Crashed /\ pending[p]
  /\ pending' = [pending EXCEPT ![p] = FALSE]
  /\ on' = [on EXCEPT ![p] = TRUE]
  /\ Becomes(process_pad(Now, p, TRUE, started))
  /\ UNCHANGED <<inputCaps, probe, inputBin, started, mixed, peer, cur, unlinking, inputs, peers>>

UnlinkPeer(p) ==
  /\ ~Crashed /\ Linked(p)
  /\ peer' = [peer EXCEPT ![p] = NoPeer]
  /\ unlinking' = [unlinking EXCEPT ![p] = TRUE]
  /\ UNCHANGED <<input, made, fed, on, cur, pending, inputs, peers>>

(* The handler of "unlinked". *)
SrcUnlinked(p) ==
  /\ ~Crashed /\ unlinking[p]
  /\ unlinking' = [unlinking EXCEPT ![p] = FALSE]
  /\ on' = [on EXCEPT ![p] = FALSE]
  /\ Becomes(remove_target_pad(Now, p))
  /\ UNCHANGED <<inputCaps, probe, inputBin, started, mixed, peer, cur, pending, inputs, peers>>

(* Media comes out of bin b: every bin from the input down to b is in place and gets what
   it takes. *)
Flows(b) ==
  LET flows[n \in 0..Len(tree)] ==
        /\ n \in bins
        /\ IF tree[n].kind = "parse"
           THEN n = inputBin /\ Passes(n, inputCaps)
           ELSE tree[n].from < n /\ flows[tree[n].from] /\ tree[tree[n].from].gives = tree[n].takes
  IN  flows[b]

CapsReady(p) == target[p] # NoBin /\ ~got[p] /\ Linked(p) /\ Flows(target[p])

(* A mutated form: caps that the peer refuses are left at that. *)
TargetCapsRefused(p) ==
  /\ ~Crashed /\ CapsReady(p)
  /\ got' = [got EXCEPT ![p] = TRUE]
  /\ cur' = [cur EXCEPT ![p] = IF Accepts(peer[p], tree[target[p]].gives)
                               THEN tree[target[p]].gives ELSE cur[p]]
  /\ UNCHANGED <<input, made, target, peer, on, pending, unlinking, inputs, peers>>

(* The caps of the target come to the pad, in the thread of its queue.  When the peer does not accept them the query
   function of the pad looks for another bin. *)
TargetCaps(p) ==
  /\ ~Crashed /\ CapsReady(p)
  /\ LET c == tree[target[p]].gives IN
     \/ /\ Accepts(peer[p], c)
        /\ cur' = [cur EXCEPT ![p] = c]
        /\ got' = [got EXCEPT ![p] = TRUE]
        /\ UNCHANGED <<made, srcCaps, target>>
     \/ /\ ~Accepts(peer[p], c)
        /\ Becomes(process_pad(remove_target_pad(Now, p), p, on[p], started))
        /\ UNCHANGED cur
  /\ UNCHANGED <<inputCaps, probe, inputBin, started, mixed, peer, on, pending, unlinking, inputs, peers>>

-----------------------------------------------------------------------------
Internal(p) == Reconfigure(p) \/ SrcUnlinked(p) \/ TargetCaps(p)

Next ==
  \/ \E c \in Inputs : SinkCaps(c)
  \/ SinkCapsConfigure \/ FlowError \/ ParserCaps \/ TeeCaps
  \/ \E p \in Pads : \/ RequestNewPad(p) \/ ReleasePad(p) \/ UnlinkPeer(p)
                     \/ \E w \in Wants : PeerWants(p, w)
                     \/ Internal(p)

(* Nothing is under way in the element. *)
Quiet ==
  /\ Idle /\ ~ParserReady /\ ~TeeReady
  /\ \A p \in Pads : ~pending[p] /\ ~unlinking[p] /\ ~CapsReady(p)

Spec == Init /\ [][Next]_vars

-----------------------------------------------------------------------------
(* Properties. *)

(* What the element can make of input i for a peer that wants w, whatever it has made. *)
CanRaw(i) == i \in Decodable \cup {Raw}
CanGive(i, w) ==
  \/ w \in {Any, i}
  \/ w = Raw /\ CanRaw(i)
  \/ w \in Encodable /\ CanRaw(i)
  \/ w \in Payloadable /\ (PayloadOf[w] = i \/ (PayloadOf[w] \in Encodable /\ CanRaw(i)))

(* Once things are quiet, every linked pad whose peer wants something that can be made of
   the input gets it, from bins of the present input, and no pad gets what its peer does
   not accept: whatever order caps events, RECONFIGURE events, links and unlinks came in
   (kms_agnostic_bin2_process_pad and its callers).  An input that changed from or to raw
   keeps its old input bin and is left out, also when it has changed back: what was linked
   below meanwhile stays. *)
FedRight ==
  Quiet /\ ~Crashed /\ inputBin # NoBin /\ ~mixed =>
    \A p \in Pads : Linked(p) =>
      IF CanGive(inputCaps, peer[p])
      THEN target[p] # NoBin /\ Flows(target[p]) /\ Accepts(peer[p], tree[target[p]].gives)
      ELSE target[p] = NoBin

(* The bins in use hang together: every one in the table but the input bin is fed by one in
   the table, and while the element is started no linked pad is left at a bin that was
   thrown away (kms_agnostic_bin2_configure_input, input_bin_src_caps_probe).  A payloader
   below nothing needs an input that is, or was, changing from or to raw. *)
NoStaleBin ==
  /\ Crashed => mixed \/ tree[inputBin].takes # inputCaps
  /\ \A b \in bins : b = inputBin \/ tree[b].from \in bins \/ Crashed
  /\ started => \A p \in Pads : Linked(p) /\ on[p] => target[p] \in bins \cup {NoBin}

(* A format is made once: no two bins of the table give the same, as long as the format of
   the input did not change from or to raw (kms_agnostic_bin2_find_or_create_bin_for_caps). *)
MadeOnce ==
  Idle /\ inputBin # NoBin /\ ~mixed =>
    \A a, b \in bins : tree[a].gives = tree[b].gives => a = b

(* The element comes to rest: when a peer refuses the caps of a target, the pad is linked to
   a bin whose caps it does not refuse or to none, and not sent round in circles
   (proxy_src_pad_query_function, which links the pad again and is asked again).  While
   new caps of the input are on their way to the tee it may meet the old ones again. *)
RefusedOnce ==
  Idle /\ ~TeeReady => \A p \in Pads :
    CapsReady(p) /\ ~Accepts(peer[p], tree[target[p]].gives) =>
      LET after == process_pad(remove_target_pad(Now, p), p, on[p], started)
          b     == after.target[p]
      IN  b = NoBin \/ Accepts(peer[p], after.tree[b].gives)

(* The search for a bin ends at the right one: nothing is made twice, and a refusal leads
   to a bin that is not refused or to none (find_or_create_bin_for_caps). *)
SearchSettles == MadeOnce /\ RefusedOnce

(* What isMediaTranscoding answers, that is the last value of media-transcoding, is right:
   while an encoder feeds a pad it is TRUE. *)
TranscodingTold ==
  (\E p \in Pads : target[p] # NoBin /\ tree[target[p]].kind = "enc") => told = "active"
=============================================================================
