--------------------------------- MODULE Remb ---------------------------------
(***************************************************************************)
(* Congestion control: kmsremb.c, the REMB event manager of kmsutils.c, the *)
(* REMB packets of kmsrtcp.c and the bitrate of the encoder                *)
(* (kmsenctreebin.c, kmsagnosticbin.c).                                    *)
(*                                                                         *)
(* One video is consumed by several endpoints.  The peer of a consumer     *)
(* sends REMB packets; KmsRembRemote turns each into an event upstream,    *)
(* which stops at the first event manager.  That is the manager of the     *)
(* encoder when the video is transcoded (role "encoder"), and else the one *)
(* of the endpoint the video comes from, whose KmsRembLocal estimates what *)
(* it can receive and tells its own peer (role "local").  In role          *)
(* "estimate" no consumer has asked for anything: what a source may do is  *)
(* explored there, and in role "local" it is steady.                       *)
(*                                                                         *)
(* Time is counted in ticks of REMB_MAX_INTERVAL; a bitrate is octets per  *)
(* tick.  What arrives between two ticks is a member of Arrivals.          *)
(***************************************************************************)
EXTENDS Integers, FiniteSets, Sequences, FiniteSetsExt

CONSTANTS
  Consumers,        \* endpoints that send the video on; also the SSRC of each
  REMB_MIN, REMB_MAX, DEFAULT_REMB_ON_CONNECT, DEFAULT_TARGET_ENCODER_BITRATE,
  DEFAULT_MAX_ENCODER_BITRATE,
  CLEAR_INTERVAL,   \* ticks after which an entry of the event manager is dropped
  KBPS,             \* bitrates in a kbps: the encoders are set in kbps
  MANTISSA_SIZE,    \* a mantissa of a bitrate in a REMB packet is below this
  MAX_EXPONENT,     \* exponents above it shift bits out of an integer
  COUNTER_SIZE,     \* counters of octets are taken modulo this
  LocalParams,      \* parameters of KmsRembLocal; factors in tenths
  Bandwidths,       \* <<min, max>>: limits of a manager; 0 is none
  Arrivals,         \* what a source gets in a tick: packets, octets, lost, fraction
  SteadyArrivals,   \* those of a source in role "local"
  Asked,            \* bitrates in the REMB packets of the consumers' peers
  EncoderBitrates,  \* values of the encoder's tags and properties
  MaxTicks, MaxRembs \* bounds: ticks, by role; REMB packets, tags and properties

VARIABLES
  role,      \* "estimate", "local" or "encoder"
  now,       \* the clock
  source,    \* the RTPSource: its counters, whether it restarted, octets since the last report
  seen,      \* KmsRlRemoteSession: the counters at the last report
  rl,        \* KmsRembLocal
  rm,        \* rm[c]: KmsRembRemote of consumer c
  em,        \* RembEventManager
  enc,       \* KmsEncTreeBin and the properties of its agnostic bin
  asked,     \* asked[c]: what the peer of c last asked for, and when (Never: not since its first event)
  peak,      \* the highest bitrate received between two reports
  unnoticed, \* the source restarted and had caught up at the next report
  rembs      \* REMB packets, tags and properties so far

rembVars == <<role, now, source, seen, rl, rm, em, enc, asked, peak, unnoticed, rembs>>

Never == 0
AtLeast(a, b) == IF a > b THEN a ELSE b
AtMost(a, b) == IF a < b THEN a ELSE b
Tenths(n, f) == (n * f) \div 10
NONE == -1

ASSUME RembAssumption ==
  /\ {REMB_MIN, REMB_MAX, DEFAULT_MAX_ENCODER_BITRATE, CLEAR_INTERVAL, KBPS, MANTISSA_SIZE,
      COUNTER_SIZE} \subseteq Nat \ {0}
  /\ {DEFAULT_REMB_ON_CONNECT, DEFAULT_TARGET_ENCODER_BITRATE, MAX_EXPONENT} \subseteq Nat
  /\ Asked \subseteq Nat /\ EncoderBitrates \subseteq 0..DEFAULT_MAX_ENCODER_BITRATE
  /\ MaxTicks \in [{"estimate", "local", "encoder"} -> Nat \ {0}] /\ MaxRembs \in Nat
  /\ LocalParams \subseteq [packets_recv_interval_top : Nat \ {0}, exponential_factor : Nat,
                            lineal_factor_min : Nat, lineal_factor_grade : Nat \ {0},
                            decrement_factor : 0..10, threshold_factor : Nat, up_losses : Nat]
  /\ Bandwidths \subseteq Nat \X Nat /\ \A b \in Bandwidths : b[2] = 0 \/ b[1] <= b[2]
  /\ Arrivals \cup SteadyArrivals \subseteq [packets : Nat \ {0}, octets : Nat, lost : Nat, fraction : Nat]

-----------------------------------------------------------------------------
(* The event manager: the least bitrate of the entries not yet dropped.    *)

(* oldest_remb_time is GST_CLOCK_TIME_NONE once the table was found empty; the
   difference then wraps to more than any interval. *)
Stale(m) == m.oldest = NONE \/ now - m.oldest > CLEAR_INTERVAL

FreshIn(hash) == {c \in DOMAIN hash : now - hash[c].ts <= CLEAR_INTERVAL}

(* What the loop of calc_min may find.  It takes a minimum of 0 for none yet, so with an
   entry of 0 the result depends on the order of the table: the entries after it count. *)
MinsOf(brs) == IF brs = {} THEN {0} ELSE IF 0 \in brs THEN brs ELSE {Min(brs)}

(* set_min tells the callback, when there is one, a minimum that changed. *)
set_min(m, min) == [m EXCEPT !.min = min, !.tells = IF m.min # min THEN min ELSE NONE]

(* calc_min: a minimum of 0 is replaced by the default.  lifted tells that there was an entry
   of 0, and the minimum may be that of some of the others only. *)
calc_min(m, default_min) ==
  LET fresh == FreshIn(m.hash)
      times == {m.hash[c].ts : c \in fresh}
      brs == {m.hash[c].bitrate : c \in fresh}
  IN  {set_min([m EXCEPT !.hash = [c \in fresh |-> m.hash[c]], !.lifted = 0 \in brs,
                         !.oldest = IF times = {} THEN NONE ELSE Min(times)],
               IF min = 0 THEN default_min ELSE min) : min \in MinsOf(brs)}

(* A mutated form: a bitrate that is not the lowest of all is not looked at. *)
update_min_lower(m, bitrate, c) ==
  LET entered == [m EXCEPT !.hash = [x \in DOMAIN m.hash \cup {c} |->
                     IF x = c THEN [bitrate |-> bitrate, ts |-> now] ELSE m.hash[x]],
                           !.tells = NONE]
  IN  IF m.min = 0 \/ bitrate > m.min THEN {set_min(entered, bitrate)} ELSE {entered}

(* remb_event_manager_update_min: the managers that may result. *)
update_min(m, bitrate, c) ==
  LET new_br == c \notin DOMAIN m.hash \/ m.hash[c].bitrate # bitrate
      entered == [m EXCEPT !.hash = [x \in DOMAIN m.hash \cup {c} |->
                     IF x = c THEN [bitrate |-> bitrate, ts |-> now] ELSE m.hash[x]],
                           !.tells = NONE]
  IN  CASE bitrate < m.min -> {set_min(entered, bitrate)}
        [] bitrate >= m.min /\ ((new_br /\ bitrate > m.min) \/ Stale(m)) -> calc_min(entered, bitrate)
        [] OTHER -> {entered}

(* kms_utils_remb_event_manager_get_min *)
get_min(m) == IF Stale(m) THEN calc_min([m EXCEPT !.tells = NONE], 0) ELSE {[m EXCEPT !.tells = NONE]}

-----------------------------------------------------------------------------
(* The encoder.                                                            *)

LIMIT(e, value) == AtLeast(e.min, AtMost(e.max, value))

(* get_bitrate; nothing asked for is -1. *)
get_bitrate(e) ==
  LET wanted == CASE e.remb <= 0 -> e.tag
                  [] e.remb > 0 /\ e.tag <= 0 -> e.remb
                  [] OTHER -> AtMost(e.remb, e.tag)
  IN  IF LIMIT(e, wanted) <= 0 THEN e.current ELSE LIMIT(e, wanted)

(* set_target_bitrate: the encoder is told when the kbps change.  One of an unknown type
   has no bitrate. *)
set_target_bitrate(e) ==
  LET target == get_bitrate(e)
  IN  IF target <= 0 THEN e
      ELSE [e EXCEPT !.current = target, !.kbps = IF e.type = "other" THEN @ ELSE target \div KBPS]

bitrate_callback(e, bitrate) ==
  IF bitrate <= 0 THEN e ELSE set_target_bitrate([e EXCEPT !.remb = bitrate])

(* kms_enc_tree_bin_new for a bin with its default properties *)
NewEncoder(type) ==
  [type |-> type, remb |-> -1, tag |-> -1, min |-> 0, max |-> DEFAULT_MAX_ENCODER_BITRATE,
   current |-> DEFAULT_TARGET_ENCODER_BITRATE,
   kbps |-> IF type = "other" THEN 0 ELSE DEFAULT_TARGET_ENCODER_BITRATE \div KBPS]

TagEvent(bitrate) ==
  /\ role = "encoder" /\ rembs < MaxRembs
  /\ enc' = set_target_bitrate([enc EXCEPT !.tag = bitrate])
  /\ rembs' = rembs + 1
  /\ UNCHANGED <<role, now, source, seen, rl, rm, em, asked, peak, unnoticed>>

(* min-encoder-bitrate and max-encoder-bitrate of the agnostic bin; a maximum of 0 is none. *)
SetMin(v) ==
  /\ role = "encoder" /\ rembs < MaxRembs
  /\ enc' = set_target_bitrate([enc EXCEPT !.min = AtMost(v, enc.max)])
  /\ rembs' = rembs + 1
  /\ UNCHANGED <<role, now, source, seen, rl, rm, em, asked, peak, unnoticed>>

SetMax(v) ==
  /\ role = "encoder" /\ rembs < MaxRembs
  /\ enc' = set_target_bitrate([enc EXCEPT !.max = IF v = 0 THEN DEFAULT_MAX_ENCODER_BITRATE
                                                   ELSE AtLeast(v, enc.min)])
  /\ rembs' = rembs + 1
  /\ UNCHANGED <<role, now, source, seen, rl, rm, em, asked, peak, unnoticed>>

-----------------------------------------------------------------------------
(* The remote manager of a consumer.                                       *)

(* An event reaches the event manager, and its callback the encoder. *)
RembEvent(c, bitrate) ==
  LET br == IF rm[c].max_bw > 0 THEN AtMost(AtLeast(bitrate, rm[c].min_bw), rm[c].max_bw)
            ELSE AtLeast(bitrate, rm[c].min_bw)
  IN  /\ em' \in update_min(em, br, c)
      /\ enc' = IF role = "encoder" THEN bitrate_callback(enc, em'.tells) ELSE enc

(* send_remb_event_probe: with the first caps, once.  It takes the place of what the peer
   may have asked for before. *)
CapsArrive(c) ==
  /\ ~rm[c].caps
  /\ RembEvent(c, rm[c].remb_on_connect)
  /\ rm' = [rm EXCEPT ![c].caps = TRUE]
  /\ asked' = [asked EXCEPT ![c].ts = Never]
  /\ UNCHANGED <<role, now, source, seen, rl, peak, unnoticed, rembs>>

(* process_psfb_afb, kms_remb_remote_update: until the peer's estimate falls, or reaches
   remb_on_connect, remb_on_connect is used in its place. *)
RembPacket(c, bitrate) ==
  LET raise == ~rm[c].probed /\ bitrate < rm[c].remb_on_connect /\ bitrate >= rm[c].remb
  IN  /\ rembs < MaxRembs
      /\ RembEvent(c, IF raise THEN rm[c].remb_on_connect ELSE bitrate)
      /\ rm' = [rm EXCEPT ![c].probed = ~raise, ![c].remb = bitrate]
      /\ asked' = [asked EXCEPT ![c] = [bitrate |-> bitrate, ts |-> now]]
      /\ rembs' = rembs + 1
      /\ UNCHANGED <<role, now, source, seen, rl, peak, unnoticed>>

(* kms_remb_local_set_params and kms_remb_remote_set_params *)
SetRembParams(p, on_connect) ==
  /\ rembs < MaxRembs
  /\ rl' = [rl EXCEPT !.params = p]
  /\ rm' = [c \in Consumers |-> [rm[c] EXCEPT !.remb_on_connect = on_connect]]
  /\ rembs' = rembs + 1
  /\ UNCHANGED <<role, now, source, seen, em, enc, asked, peak, unnoticed>>

-----------------------------------------------------------------------------
(* The local manager.                                                      *)

(* The RTPSource: external.  A large jump of the sequence numbers restarts its counters. *)
Tick(arrival, restart) ==
  LET was == IF restart THEN [source EXCEPT !.packets = 0, !.octets = 0, !.expected = 0,
                                            !.restarted = TRUE] ELSE source
  IN  /\ now < MaxTicks[role]
      /\ now' = now + 1
      /\ source' = [was EXCEPT !.packets = @ + arrival.packets, !.octets = @ + arrival.octets,
                               !.expected = @ + arrival.packets + arrival.lost,
                               !.fraction = arrival.fraction, !.got = @ + arrival.octets]
      /\ UNCHANGED <<role, seen, rl, rm, em, enc, asked, peak, unnoticed, rembs>>

Quiet ==
  /\ now < MaxTicks[role]
  /\ now' = now + 1
  /\ UNCHANGED <<role, source, seen, rl, rm, em, enc, asked, peak, unnoticed, rembs>>

NothingSeen == [packets |-> 0, octets |-> 0, expected |-> 0]

(* A mutated form: the counters of the last report are kept when the source restarted. *)
LastSeen_kept == seen

(* The counters to compare with: none when the source has restarted meanwhile. *)
LastSeen == IF seen.packets > source.packets THEN NothingSeen ELSE seen

(* kms_rl_remote_session_get_sessions_info and kms_remb_local_get_video_recv_info: nothing
   when no packet was expected.  The first time the bitrate is the source's own. *)
RecvInfo ==
  LET expected == source.expected - LastSeen.expected
      octets == (source.octets - LastSeen.octets) % COUNTER_SIZE
  IN  [found |-> expected # 0,
       bitrate |-> IF rl.last_time = Never THEN source.got ELSE octets \div (now - rl.last_time),
       fraction |-> IF expected > 0 THEN source.fraction ELSE 0,
       packets |-> source.packets - LastSeen.packets]

(* kms_remb_local_update once something was received: the estimate grows while no packet
   is lost, up to twice what was received; it is halved when too many are. *)
Updated(info) ==
  LET p == rl.params
      top == AtLeast(p.packets_recv_interval_top, info.packets)
      record == (rl.record * (top - info.packets) + info.fraction * info.packets) \div top
      start == IF rl.probed THEN rl.remb ELSE info.bitrate
      max_br == AtLeast(rl.max_br, info.bitrate)
      avg_br == IF rl.avg_br = 0 THEN info.bitrate ELSE (rl.avg_br * 7 + info.bitrate) \div 8
      base0 == AtLeast(start, max_br)
      grown == IF base0 < rl.threshold THEN base0 + Tenths(base0, p.exponential_factor)
               ELSE base0 + rl.lineal_factor
      base == AtLeast(start, avg_br)
      threshold == Tenths(base, p.threshold_factor)
      after == [rl EXCEPT !.probed = TRUE, !.record = record, !.max_br = max_br, !.avg_br = avg_br]
      lossy == [after EXCEPT !.threshold = threshold,
                  !.lineal_factor = AtLeast(p.lineal_factor_min,
                                            (base - threshold) \div p.lineal_factor_grade)]
      next == CASE record = 0 ->
                     [after EXCEPT !.remb = AtLeast(start, AtMost(grown, max_br * 2))]
                [] record > 0 /\ record < p.up_losses ->
                     [lossy EXCEPT !.remb = AtMost(start, max_br)]
                [] OTHER ->
                     [lossy EXCEPT !.remb = Tenths(base, p.decrement_factor),
                                   !.record = 0, !.max_br = 0, !.avg_br = 0]
  IN  IF rl.max_bw > 0 THEN [next EXCEPT !.remb = AtMost(@, rl.max_bw)] ELSE next

PowerOf2[i \in 0..MAX_EXPONENT] == IF i = 0 THEN 1 ELSE 2 * PowerOf2[i - 1]

(* What the peer reads of a bitrate: the mantissa drops the low bits.  One that is too large
   for any exponent is sent with exponent 0, the bits that fit. *)
Marshalled(bitrate) ==
  LET exps == {i \in 0..MAX_EXPONENT : bitrate <= (MANTISSA_SIZE - 1) * PowerOf2[i]}
      unit == PowerOf2[Min(exps)]
  IN  IF exps = {} THEN bitrate % MANTISSA_SIZE ELSE (bitrate \div unit) * unit

(* on_sending_rtcp.  The counters of the last report change even when nothing is sent. *)
SendRtcp ==
  LET info == RecvInfo
      usable == info.found /\ (rl.probed \/ info.bitrate # 0)
  IN  /\ role # "encoder"
      /\ rl.last_sent_time = Never \/ now > rl.last_sent_time
      /\ now > rl.last_time
      /\ source.packets > 0
      /\ seen' = [packets |-> source.packets, octets |-> source.octets, expected |-> source.expected]
      /\ unnoticed' = (unnoticed \/ (source.restarted /\ seen.packets <= source.packets))
      /\ source' = [source EXCEPT !.restarted = FALSE, !.got = IF info.found THEN 0 ELSE @]
      /\ peak' = IF ~info.found THEN peak
                 ELSE AtLeast(peak, IF rl.last_time = Never THEN source.got
                                    ELSE source.got \div (now - rl.last_time))
      /\ IF usable
         THEN /\ em' \in get_min(em)
              /\ LET next == Updated(info)
                     limited == IF em'.min > 0 THEN AtMost(next.remb, em'.min) ELSE next.remb
                     sent == AtLeast(AtLeast(limited, rl.min_bw), REMB_MIN)
                 IN  rl' = [next EXCEPT !.last_time = now, !.last_sent_time = now,
                              !.remb_sent = sent, !.told = Marshalled(sent)]
         ELSE /\ rl' = IF info.found THEN [rl EXCEPT !.last_time = now] ELSE rl
              /\ em' = [em EXCEPT !.tells = NONE]
      /\ UNCHANGED <<role, now, rm, enc, asked, rembs>>

-----------------------------------------------------------------------------
NewLocal(p, bw) ==
  [params |-> p, min_bw |-> bw[1], max_bw |-> bw[2], probed |-> FALSE, remb |-> REMB_MAX,
   remb_sent |-> REMB_MAX, told |-> 0, threshold |-> REMB_MAX, lineal_factor |-> p.lineal_factor_min,
   record |-> 0, max_br |-> 0, avg_br |-> 0, last_time |-> Never, last_sent_time |-> Never]

NewRemote(bw) ==
  [min_bw |-> bw[1], max_bw |-> bw[2], probed |-> FALSE, remb |-> 0, caps |-> FALSE,
   remb_on_connect |-> DEFAULT_REMB_ON_CONNECT]

NewManager == [hash |-> <<>>, min |-> 0, oldest |-> now, tells |-> NONE, lifted |-> FALSE]

RembInit ==
  /\ role \in {"estimate", "local", "encoder"}
  /\ now = 1
  /\ source = [packets |-> 0, octets |-> 0, expected |-> 0, fraction |-> 0, restarted |-> FALSE, got |-> 0]
  /\ seen = NothingSeen
  /\ \E p \in LocalParams, bw \in Bandwidths :
       /\ rl = NewLocal(p, bw)
       /\ rm = [c \in Consumers |-> NewRemote(bw)]
  /\ em = NewManager
  /\ \E type \in {"VP8", "other"} : (role # "encoder" => type = "other") /\ enc = NewEncoder(type)
  /\ asked = [c \in Consumers |-> [bitrate |-> 0, ts |-> Never]]
  /\ peak = 0
  /\ unnoticed = FALSE
  /\ rembs = 0

RembNext ==
  \/ \E a \in Arrivals, restart \in BOOLEAN : role = "estimate" /\ Tick(a, restart)
  \/ \E a \in SteadyArrivals : role = "local" /\ Tick(a, FALSE)
  \/ Quiet
  \/ SendRtcp
  \/ \E c \in Consumers : role # "estimate" /\ CapsArrive(c)
  \/ \E c \in Consumers, bitrate \in Asked : role # "estimate" /\ RembPacket(c, bitrate)
  \/ \E bitrate \in EncoderBitrates : TagEvent(bitrate)
  \/ \E v \in EncoderBitrates : SetMin(v)
  \/ \E v \in EncoderBitrates \cup {0} : SetMax(v)
  \/ \E p \in LocalParams, bitrate \in Asked : role # "encoder" /\ SetRembParams(p, bitrate)

RembSpec == RembInit /\ [][RembNext]_rembVars

-----------------------------------------------------------------------------
RembEntry == [bitrate : Nat, ts : Nat]

RembTypeOK ==
  /\ role \in {"estimate", "local", "encoder"} /\ now \in 1..MaxTicks[role]
  /\ rembs \in 0..MaxRembs /\ peak \in Nat /\ unnoticed \in BOOLEAN
  /\ source \in [packets : Nat, octets : Nat, expected : Nat, fraction : Nat,
                  restarted : BOOLEAN, got : Nat]
  /\ seen \in [packets : Nat, octets : Nat, expected : Nat]
  /\ rl \in [params : LocalParams, min_bw : Nat, max_bw : Nat, probed : BOOLEAN, remb : Nat,
              remb_sent : Nat, told : Nat, threshold : Nat, lineal_factor : Nat, record : Nat,
              max_br : Nat, avg_br : Nat, last_time : Nat, last_sent_time : Nat]
  /\ rm \in [Consumers -> [min_bw : Nat, max_bw : Nat, probed : BOOLEAN, remb : Nat,
                           caps : BOOLEAN, remb_on_connect : Nat]]
  /\ DOMAIN em.hash \subseteq Consumers /\ em.hash \in [DOMAIN em.hash -> RembEntry]
  /\ em \in [hash : {em.hash}, min : Nat, oldest : Nat \cup {NONE}, tells : Nat \cup {NONE},
              lifted : BOOLEAN]
  /\ enc \in [type : {"VP8", "other"}, remb : Nat \cup {-1}, tag : Nat \cup {-1}, min : Nat,
               max : 1..DEFAULT_MAX_ENCODER_BITRATE, current : Nat, kbps : Nat]
  /\ enc.min <= enc.max
  /\ asked \in [Consumers -> RembEntry]

(* The estimate told to the peer never outgrows what the video has really used: once
   probed it is at most twice the highest bitrate received between two reports, across
   losses, silences and restarts of the source (kms_remb_local_update and the
   reset of get_sessions_info).  A restart the counters cannot show is excluded. *)
EstimateBounded == (rl.probed /\ ~unnoticed) => rl.remb <= 2 * peak

(* Consumers whose wish counts: the peer has been probed and asked a short time ago, and no
   consumer has an entry of 0, which means no limit, nor had one when the minimum was last
   worked out, which may then be that of some entries only. *)
Slowest ==
  {c \in Consumers :
     /\ rm[c].probed /\ asked[c].ts # Never /\ now - asked[c].ts <= CLEAR_INTERVAL
     /\ ~em.lifted /\ 0 \notin {em.hash[d].bitrate : d \in DOMAIN em.hash}}

(* The slowest consumer is respected: what the endpoint asks its peer for, and what the
   encoder is set to, is never more than the peer of a consumer last asked for (or the
   configured minima), whatever the others ask for, in whatever order, and while entries of
   the event manager come and go (RembEventManager). *)
SlowestRespected ==
  [][\A c \in Slowest' :
       /\ rl'.last_sent_time # rl.last_sent_time =>
            rl'.told <= Max({asked'[c].bitrate, rm'[c].min_bw, rl'.min_bw, REMB_MIN})
       /\ (role = "encoder" /\ em'.min > 0) =>
            enc'.kbps <= Max({asked'[c].bitrate, rm'[c].min_bw, enc'.min}) \div KBPS]_rembVars
=============================================================================
