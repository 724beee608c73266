------------------------------- MODULE RtpSync --------------------------------
(***************************************************************************)
(* The RTP synchroniser, kmsrtpsynchronizer.c, and the probes of           *)
(* kmsbasertpendpoint.c that feed it.                                      *)
(*                                                                         *)
(* A sender stamps packets with its media clock, of which the packets      *)
(* carry the low bits, and says in sender reports which moment of its      *)
(* wall clock a stamp belongs to.  The synchroniser gives every packet a   *)
(* presentation time on our clock, in unsigned numbers of nanoseconds      *)
(* that may wrap.  Packets and reports come in any order within a quarter  *)
(* of a cycle of the stamps (hours, for the real clock rates).  A packet   *)
(* of another SSRC or format, or without a clock rate, is an error that    *)
(* the probe ignores: it keeps the time it had and changes nothing here.   *)
(***************************************************************************)
EXTENDS Integers, Sequences, FiniteSets, FiniteSetsExt

CONSTANTS
  CYCLE,        \* stamps are taken modulo this
  SECOND,       \* GST_SECOND
  CLOCK_RATE,   \* units of the media clock in a second
  MAX_TIME,     \* G_MAXUINT64
  EPOCH,        \* the sender's wall clock when its media clock is 0
  StampStarts,  \* media times the sender may start at
  Delays,       \* from the start of the stream to its arrival, on our clock
  ClockSteps,   \* how far the sender's wall clock may be set forward or back
  MaxAhead, MaxSyncOps \* bounds: media time and number of packets and reports

VARIABLES
  start,     \* the media time of the first packet sent
  newest,    \* the latest media time sent
  delay,     \* arrival times are media times plus this
  wall,      \* the sender's wall clock minus its media clock
  sync,      \* KmsRtpSynchronizer
  sr_media,  \* the media time of the first report (base_ntp_time)
  sr_kept,   \* the stamp of the last report was not from before a wrap
  out,       \* the last packet that was given a time: its media time, its time, whether its stamp was kept
  sync_ops

syncVars == <<start, newest, delay, wall, sync, sr_media, sr_kept, out, sync_ops>>

(* A distance d of the media clock in whole nanoseconds. *)
Nanoseconds(d) == (d * SECOND) \div CLOCK_RATE

(* The times of the run, on both clocks, are far from the end of 64 bits (584 years). *)
ASSUME SyncAssumption ==
  /\ {CYCLE, SECOND, CLOCK_RATE, MAX_TIME} \subseteq Nat \ {0}
  /\ CYCLE % 2 = 0
  /\ {MaxAhead, MaxSyncOps, EPOCH} \subseteq Nat
  /\ StampStarts \subseteq 0..MaxAhead /\ Delays \subseteq Nat /\ ClockSteps \subseteq Int
  /\ \A d \in Delays : 2 * Nanoseconds(MaxAhead) + d + 2 < MAX_TIME
  /\ \A step \in {0} \cup ClockSteps :
       EPOCH + step >= 0 /\ Nanoseconds(MaxAhead) + EPOCH + step <= MAX_TIME

Half == CYCLE \div 2
Near(m) == 4 * (m - newest) \in -CYCLE + 1..CYCLE - 1
NO_STAMP == -1
NO_TIME == MAX_TIME   \* GST_CLOCK_TIME_NONE

Arrival(m) == Nanoseconds(m) + delay

(* gst_rtp_buffer_ext_timestamp: external.  A stamp from before the last wrap is
   understood and not kept. *)
ext_timestamp(ext, stamp) ==
  LET same == stamp + (ext \div CYCLE) * CYCLE
  IN  CASE ext = NO_STAMP -> [value |-> stamp, ext |-> stamp, kept |-> TRUE]
        [] ext # NO_STAMP /\ ext - same >= Half -> [value |-> same + CYCLE, ext |-> same + CYCLE, kept |-> TRUE]
        [] ext # NO_STAMP /\ same - ext >= Half ->
             [value |-> IF same < CYCLE THEN 0 ELSE same - CYCLE, ext |-> ext, kept |-> FALSE]
        [] OTHER -> [value |-> same, ext |-> same, kept |-> TRUE]

-----------------------------------------------------------------------------
(* Unsigned arithmetic of 64 bits. *)
U64(x) == x % (MAX_TIME + 1)

(* gst_util_uint64_scale_int: external. *)
uint64_scale_int(d) == IF Nanoseconds(d) > MAX_TIME THEN MAX_TIME ELSE Nanoseconds(d)

(* rtp_diff_full for a packet ahead of the stamp that pts belongs to ...  The comparison is
   strict: with wrapped_down a sum of MAX_TIME, one less than 0, is not caught. *)
DiffAhead(pts, diff, wrapped_down, wrapped_up) ==
  IF wrapped_up THEN MAX_TIME
  ELSE IF wrapped_down /\ diff < MAX_TIME - pts THEN 0
  ELSE IF ~wrapped_down /\ diff > MAX_TIME - pts THEN MAX_TIME
  ELSE U64(pts + diff)

(* ... and for one behind it. *)
DiffBehind(pts, diff, wrapped_down, wrapped_up) ==
  IF wrapped_down THEN 0
  ELSE IF wrapped_up /\ diff < pts THEN MAX_TIME
  ELSE IF ~wrapped_up /\ diff > pts THEN 0
  ELSE U64(pts - diff)

rtp_diff_full(pts, ext, base_ext, wrapped_down, wrapped_up) ==
  CASE ext > base_ext -> DiffAhead(pts, uint64_scale_int(ext - base_ext), wrapped_down, wrapped_up)
    [] ext < base_ext -> DiffBehind(pts, uint64_scale_int(base_ext - ext), wrapped_down, wrapped_up)
    [] OTHER -> IF wrapped_down THEN 0 ELSE IF wrapped_up THEN MAX_TIME ELSE pts

-----------------------------------------------------------------------------
(* A mutated form: only the first report tells the sender's time. *)
ReportedTime_first(s, ntp) == IF s.base_initiated THEN s.last_rtcp_ntp_time ELSE ntp

ReportedTime(s, ntp) == ntp

(* process_rtcp_packet: a sender report, with its stamp, the sender's time and ours. *)
process_rtcp(s, stamp, ntp, current) ==
  LET e == ext_timestamp(s.rtp_ext_ts, stamp)
      based == IF s.base_initiated THEN s
               ELSE [s EXCEPT !.base_initiated = TRUE, !.base_ntp_time = ntp,
                              !.base_sync_time = current]
  IN  [based EXCEPT !.rtp_ext_ts = e.ext, !.last_rtcp_ext_ts = e.value,
                    !.last_rtcp_ntp_time = ReportedTime(s, ntp)]

(* The time of a packet by the last report: the base time moved by what passed between the
   reports, which may wrap, and by the distance of the packet from the last one. *)
SyncedTime(s) ==
  LET passed == s.last_rtcp_ntp_time - s.base_ntp_time
      wrapped_up == passed > MAX_TIME - s.base_sync_time
      wrapped_down == s.base_sync_time < -passed
  IN  rtp_diff_full(U64(s.base_sync_time + passed), s.rtp_ext_ts, s.last_rtcp_ext_ts,
                    wrapped_down, wrapped_up)

(* rtp_diff: before the first report, by the distance from the first packet. *)
InterpolatedTime(s) ==
  rtp_diff_full(s.base_interpolate_pts, s.rtp_ext_ts, s.base_interpolate_ext_ts, FALSE, FALSE)

(* The time of a packet whose stamp differs from the last one, and the state after it. *)
Timed(s, pts) ==
  CASE s.base_initiated -> [sync |-> s, pts |-> SyncedTime(s)]
    [] ~s.base_initiated /\ s.base_interpolate_initiated -> [sync |-> s, pts |-> InterpolatedTime(s)]
    [] OTHER -> [sync |-> [s EXCEPT !.base_interpolate_initiated = TRUE,
                                    !.base_interpolate_ext_ts = s.rtp_ext_ts,
                                    !.base_interpolate_pts = pts], pts |-> pts]

(* In sorted mode times do not go back, as long as the last one was valid. *)
Sorted(t, ext) ==
  LET fixed == IF t.sync.fs_last_pts # NO_TIME /\ t.pts < t.sync.fs_last_pts
               THEN t.sync.fs_last_pts ELSE t.pts
  IN  IF ~t.sync.feeded_sorted THEN t
      ELSE [sync |-> [t.sync EXCEPT !.fs_last_rtp_ext_ts = ext, !.fs_last_pts = fixed], pts |-> fixed]

(* process_rtp_buffer_mapped for a packet of the right SSRC and format.  A packet older
   than the last one ends sorted mode. *)
process_rtp(s, stamp, pts) ==
  LET e == ext_timestamp(s.rtp_ext_ts, stamp)
      read == [s EXCEPT !.rtp_ext_ts = e.ext]
      back == s.feeded_sorted /\ s.fs_last_rtp_ext_ts # NO_STAMP /\ e.value < s.fs_last_rtp_ext_ts
  IN  IF s.feeded_sorted /\ e.value = s.fs_last_rtp_ext_ts
      THEN [sync |-> read, pts |-> IF s.fs_last_pts = NO_TIME THEN pts ELSE s.fs_last_pts]
      ELSE Sorted(Timed([read EXCEPT !.feeded_sorted = @ /\ ~back], pts), e.value)

-----------------------------------------------------------------------------
(* A packet of media time m leaves the jitter buffer; our clock is the time it is due. *)
RtpPacket(m) ==
  LET r == process_rtp(sync, m % CYCLE, Arrival(m))
      kept == ext_timestamp(sync.rtp_ext_ts, m % CYCLE).kept
  IN  /\ sync_ops < MaxSyncOps
      /\ m >= start /\ Near(m)
      /\ sync.clock_rate_set
      /\ sync' = r.sync
      /\ newest' = IF m > newest THEN m ELSE newest
      /\ out' = [media |-> m, pts |-> r.pts, kept |-> kept]
      /\ sync_ops' = sync_ops + 1
      /\ UNCHANGED <<start, delay, wall, sr_media, sr_kept>>

(* set_pt_clock_rate: a second format is refused. *)
SetClockRate ==
  /\ ~sync.clock_rate_set
  /\ sync' = [sync EXCEPT !.clock_rate_set = TRUE]
  /\ UNCHANGED <<start, newest, delay, wall, sr_media, sr_kept, out, sync_ops>>

(* A sender report made at media time m; it may be lost, which is no step, or overtake or
   be overtaken by packets. *)
SenderReport(m) ==
  /\ sync_ops < MaxSyncOps
  /\ m >= start /\ Near(m)
  /\ sync' = process_rtcp(sync, m % CYCLE, Nanoseconds(m) + wall, Arrival(newest))
  /\ newest' = IF m > newest THEN m ELSE newest
  /\ sr_media' = IF sync.base_initiated THEN sr_media ELSE m
  /\ sr_kept' = ext_timestamp(sync.rtp_ext_ts, m % CYCLE).kept
  /\ sync_ops' = sync_ops + 1
  /\ UNCHANGED <<start, delay, wall, out>>

(* The sender's wall clock is set. *)
SetWallClock(step) ==
  /\ sync.base_initiated
  /\ sync_ops < MaxSyncOps
  /\ wall = EPOCH
  /\ wall' = EPOCH + step
  /\ sync_ops' = sync_ops + 1
  /\ UNCHANGED <<start, newest, delay, sync, sr_media, sr_kept, out>>

NewSynchronizer(sorted) ==
  [feeded_sorted |-> sorted, clock_rate_set |-> FALSE, base_initiated |-> FALSE,
   base_ntp_time |-> NO_TIME, base_sync_time |-> NO_TIME, base_interpolate_initiated |-> FALSE,
   base_interpolate_ext_ts |-> NO_STAMP, base_interpolate_pts |-> NO_TIME, rtp_ext_ts |-> NO_STAMP,
   last_rtcp_ext_ts |-> NO_STAMP, last_rtcp_ntp_time |-> NO_TIME,
   fs_last_rtp_ext_ts |-> NO_STAMP, fs_last_pts |-> NO_TIME]

SyncInit ==
  /\ start \in StampStarts
  /\ newest = start
  /\ delay \in Delays
  /\ wall = EPOCH
  /\ \E sorted \in BOOLEAN : sync = NewSynchronizer(sorted)
  /\ sr_media = NO_STAMP
  /\ sr_kept = TRUE
  /\ out = [media |-> NO_STAMP, pts |-> NO_TIME, kept |-> TRUE]
  /\ sync_ops = 0

SyncNext ==
  \/ \E m \in 0..MaxAhead : RtpPacket(m) \/ SenderReport(m)
  \/ SetClockRate
  \/ \E step \in ClockSteps : SetWallClock(step)

SyncSpec == SyncInit /\ [][SyncNext]_syncVars

-----------------------------------------------------------------------------
Times == 0..MAX_TIME
Stamps == Nat \cup {NO_STAMP}
SyncState ==
  [feeded_sorted : BOOLEAN, clock_rate_set : BOOLEAN, base_initiated : BOOLEAN,
   base_interpolate_initiated : BOOLEAN, base_ntp_time : Times, base_sync_time : Times,
   base_interpolate_pts : Times, last_rtcp_ntp_time : Times, fs_last_pts : Times,
   rtp_ext_ts : Stamps, last_rtcp_ext_ts : Stamps, base_interpolate_ext_ts : Stamps,
   fs_last_rtp_ext_ts : Stamps]

(* The type invariant: every time stays a number of 64 bits. *)
SyncTypeOK ==
  /\ start \in 0..MaxAhead /\ newest \in 0..MaxAhead /\ delay \in Delays
  /\ wall \in {EPOCH + step : step \in {0} \cup ClockSteps}
  /\ sync \in SyncState
  /\ sr_media \in Stamps /\ sr_kept \in BOOLEAN
  /\ out \in [media : Stamps, pts : Times, kept : BOOLEAN]
  /\ sync_ops \in 0..MaxSyncOps

(* From media time n to media time m, in nanoseconds rounded to zero. *)
Apart(m, n) == IF m >= n THEN Nanoseconds(m - n) ELSE -Nanoseconds(n - m)

(* A packet came, after the first report and before the sender's clock was set; neither it
   nor the packet or the report before it is from before the last wrap of the stamps. *)
Comparable ==
  out' # out /\ sync'.base_initiated /\ wall = EPOCH /\ out.kept /\ out'.kept /\ sr_kept

(* Three divisions are rounded on the way from the first report to a packet. *)
Rounding == -2..2

(* Packets get the time their sender meant: after the first report, and until the sender's
   clock is set, a packet's time is as far from the first report as its media time is, up to
   two nanoseconds of rounding, and 0 if that is negative, across wraps of the stamps, reports
   that overtake packets and packets out of order.  In sorted mode a time that would go back
   takes the last time instead, and a stamp already seen takes the last time or, if that was
   no valid one, keeps its own (process_rtp_buffer_mapped; the FIXME of process_rtcp_packet
   asks whether a report may move the extended stamp).  Excepted are packets and reports from
   before the last wrap of the stamps, and the packet after such a one (Comparable), and a
   time of -1, which a strict comparison of rtp_diff_full misses (NegativeAvoided). *)
TimesMeant ==
  [][Comparable =>
       \E r \in Rounding :
         LET meant == sync'.base_sync_time + Apart(out'.media, sr_media) + r
             due == IF meant < 0 THEN 0 ELSE meant
         IN  \/ out'.pts = due
             \/ meant = -1 /\ out'.pts = NO_TIME
             \/ /\ sync'.feeded_sorted
                /\ out'.pts = sync.fs_last_pts
                /\ out'.pts > due \/ out'.media = out.media
             \/ /\ sync'.feeded_sorted /\ sync.fs_last_pts = NO_TIME
                /\ out'.media = out.media /\ out'.pts = Arrival(out'.media)]_syncVars

(* Until the sender's clock is set every packet gets a time that is one, and not
   GST_CLOCK_TIME_NONE: what test_sync_avoid_negative_pts of tests/check/general/rtpsync.c asks
   of rtp_diff_full, that a time which would be negative is set to 0. *)
NegativeAvoided == (out.media # NO_STAMP /\ wall = EPOCH) => out.pts # NO_TIME
=============================================================================
