------------------------- MODULE CastFrameReceiver -------------------------
(***************************************************************************)
(* The cast RTP receiver core: media::cast::FrameReceiver                  *)
(* (src/cast/receiver/frame_receiver.cc) together with the Framer and the  *)
(* ClockDriftSmoother it owns.  Everything runs on the MAIN task runner,   *)
(* so every handler below is one atomic step; what interleaves is the      *)
(* arrival of packets, consumer requests, the passing of time, posted      *)
(* tasks (EmitOneFrame) and delayed tasks (the deferred re-check and the   *)
(* two feedback timers).                                                   *)
(*                                                                         *)
(* Time is in milliseconds and the RTP timebase is 1000 Hz, so an RTP      *)
(* tick and a millisecond coincide; frame f is captured at f *             *)
(* FrameDuration.  Its RTP timestamp is an unsigned integer of RtpBits     *)
(* bits (32 in the code) that starts at RtpStart and wraps.                *)
(*                                                                         *)
(* The Framer and the ClockDriftSmoother are not part of this repository's *)
(* sources; their operators are written from the specification (§4.1,      *)
(* §4.2).                                                                  *)
(***************************************************************************)
EXTENDS Integers, Sequences, FiniteSets, Bags, BagsExt

CONSTANTS
  NumFrames,           \* frames 0 .. NumFrames-1 are sent
  MaxPacketId,         \* every frame has packets 0 .. MaxPacketId
  FrameDuration,       \* expected_frame_duration_ (1s / target_frame_rate)
  RtpMaxDelay,         \* config.rtp_max_delay_ms: initial target_playout_delay_
  NewPlayoutDelay,     \* frame -> new_playout_delay_ms carried by that frame (0: none)
  SenderClockOffsets,  \* local reference time minus RTP time in sender reports
  MaxNetworkDelay,     \* a packet of frame f arrives within this long of its capture
  TimeConstant,        \* ClockDriftSmoother time constant
  CastMessageInterval, \* Framer: minimum spacing of Cast feedback messages
  RtcpInterval,        \* kDefaultRtcpIntervalMs
  DecryptorActive,     \* decryptor_.is_activated()
  MaxTime,             \* bound: last millisecond explored
  MaxPackets,          \* bound: packets delivered to ProcessPacket
  MaxRequests,         \* bound: RequestEncodedFrame calls
  RtpBits,             \* width of RtpTimestamp (uint32 in the code)
  RtpStart             \* RTP timestamp of frame 0

ASSUME
  /\ NumFrames \in Nat \ {0}
  /\ MaxPacketId \in Nat
  /\ FrameDuration \in Nat \ {0}
  /\ RtpMaxDelay \in Nat \ {0}
  /\ NewPlayoutDelay \in [0 .. NumFrames - 1 -> Nat]
  /\ SenderClockOffsets \subseteq Int
  /\ {MaxNetworkDelay, MaxTime, MaxPackets, MaxRequests} \subseteq Nat
  /\ {TimeConstant, CastMessageInterval, RtcpInterval} \subseteq Nat \ {0}
  /\ DecryptorActive \in BOOLEAN
  /\ RtpBits \in Nat \ {0} /\ RtpStart \in 0 .. 2^RtpBits - 1

Frames    == 0 .. NumFrames - 1
PacketIds == 0 .. MaxPacketId
NoFrame   == -1
kMinSchedulingDelayMs == 1

CaptureTime(f) == f * FrameDuration
RtpTimestampOf(f) == (RtpStart + CaptureTime(f)) % 2^RtpBits

\* Mutant: the timestamps are widened before they are subtracted, so a
\* wrap between them shows as a jump of -2^RtpBits.
RtpDeltaWidened(a, b) == a - b

\* static_cast<int32>(a - b) for RtpTimestamps a and b: the unsigned
\* difference, read as a two's-complement signed integer.
RtpDelta(a, b) ==
  LET d == (a - b) % 2^RtpBits
  IN  IF d >= 2^(RtpBits - 1) THEN d - 2^RtpBits ELSE d

TimerKinds == {"AfterWaiting", "CastMessage", "RtcpReport"}
NoReport == <<>>

VARIABLES
  now,                 \* cast_environment_->Clock()->NowTicks()
  \* Framer (spec-modelled)
  received,            \* frame -> packet ids received and still buffered
  lastReleased,        \* last frame released (frames up to it are gone)
  lastAcked,           \* last frame passed to AckFrame
  lastCastSent,        \* time the last Cast feedback message was sent
  \* Rtcp: latest sender lip-sync pair <<rtp, reference time>> or NoReport
  lipSyncReport,
  \* FrameReceiver
  requestQueue,        \* frame_request_queue_ (request ids, oldest first)
  nextRequest,         \* id of the next RequestEncodedFrame call
  posted,              \* EmitOneFrame tasks posted to MAIN, in post order
  delivered,           \* frames handed to consumer callbacks, in order
  timers,              \* delayed tasks: a bag of [kind, due]
  waiting,             \* is_waiting_for_consecutive_frame_
  reportsScheduled,    \* reports_are_scheduled_
  lipSyncSet,          \* !lip_sync_reference_time_.is_null()
  lipSyncRefTime,      \* lip_sync_reference_time_
  lipSyncRtp,          \* lip_sync_rtp_timestamp_
  driftEstimate,       \* lip_sync_drift_ estimate
  driftLastUpdate,     \* lip_sync_drift_ last update time (-1: never)
  targetPlayoutDelay,  \* target_playout_delay_
  alive,               \* the receiver (and its weak pointers) exist
  packetsSeen          \* packets delivered so far (bound)

framerVars   == <<received, lastReleased, lastAcked, lastCastSent>>
lipSyncVars  == <<lipSyncSet, lipSyncRefTime, lipSyncRtp, driftEstimate, driftLastUpdate>>
vars == <<now, framerVars, lipSyncReport, requestQueue, nextRequest, posted,
          delivered, timers, waiting, reportsScheduled, lipSyncVars,
          targetPlayoutDelay, alive, packetsSeen>>

-----------------------------------------------------------------------------
(***************************************************************************)
(* Framer (spec §4.1).                                                     *)
(***************************************************************************)

\* A buffered frame is complete once every packet id has arrived.
FramerComplete(rcv, rel) ==
  {f \in Frames : f > rel /\ rcv[f] = PacketIds}

\* GetEncodedFrame: the consecutively next frame if it is complete,
\* otherwise the earliest complete frame; NoFrame when none is.
FramerNextFrame(rcv, rel) ==
  LET done == FramerComplete(rcv, rel)
  IN  IF done = {} THEN NoFrame
      ELSE CHOOSE f \in done : \A g \in done : f <= g

\* GetEncodedFrame's have_multiple_complete_frames.
FramerHaveMultiple(rcv, rel) == Cardinality(FramerComplete(rcv, rel)) >= 2

\* ReleaseFrame(f): frees f and every older frame.
FramerReleaseFrame(rel, f) == IF f > rel THEN f ELSE rel

\* AckFrame(f): cumulative acknowledgement for the feedback layer.
FramerAckFrame(acked, f) == IF f > acked THEN f ELSE acked

\* Storage after ReleaseFrame: buffers of released frames are gone.
FramerForget(rcv, rel) == [f \in Frames |-> IF f <= rel THEN {} ELSE rcv[f]]

\* TimeToSendNextCastMessage.
FramerTimeToSendNextCastMessage(sent) == sent + CastMessageInterval

(***************************************************************************)
(* ClockDriftSmoother::Update (spec §4.2): an exponential moving average   *)
(* whose new-sample weight is elapsed / (elapsed + time constant); the     *)
(* double arithmetic is rounded to the nearest millisecond.                *)
(***************************************************************************)
SmootherUpdate(est, last, t, offset) ==
  IF last < 0 THEN [est |-> offset, last |-> t]
  ELSE LET el  == t - last
           num == el * offset + TimeConstant * est
           den == el + TimeConstant
       IN  [est |-> (2 * num + den) \div (2 * den), last |-> t]

-----------------------------------------------------------------------------
(***************************************************************************)
(* FrameReceiver.                                                          *)
(***************************************************************************)

\* GetPlayoutTime: st carries the lip-sync state and target_playout_delay_.
GetPlayoutTime(st, f) ==
  LET delay == IF NewPlayoutDelay[f] # 0 THEN NewPlayoutDelay[f] ELSE st.delay
  IN  st.lipRef + st.drift + RtpDelta(RtpTimestampOf(f), st.lipRtp) + delay

\* Mutant: new_playout_delay_ms is applied without testing it for zero.
NewTargetPlayoutDelayUnchecked(delay, f) == NewPlayoutDelay[f]

\* A frame carrying a new playout delay changes target_playout_delay_.
NewTargetPlayoutDelay(delay, f) ==
  IF NewPlayoutDelay[f] # 0 THEN NewPlayoutDelay[f] ELSE delay

\* EmitAvailableEncodedFrames: the whole while-loop as one step.  |failing|
\* is the set of frames whose decryption fails.
RECURSIVE EmitLoop(_, _, _)
EmitLoop(rcv, st, failing) ==
  LET c == FramerNextFrame(rcv, st.rel) IN
  IF st.queue = <<>> \/ c = NoFrame THEN st
  ELSE
    LET playout == GetPlayoutTime(st, c)
        accept  == [st EXCEPT !.rel = FramerReleaseFrame(@, c),
                              !.acked = FramerAckFrame(@, c)]
    IN
    CASE FramerHaveMultiple(rcv, st.rel) /\ now > playout ->
           EmitLoop(rcv, [st EXCEPT !.rel = FramerReleaseFrame(@, c)], failing)
      [] c # st.rel + 1 /\ now + 2 * FrameDuration < playout ->
           IF st.waiting THEN st
           ELSE [st EXCEPT !.waiting = TRUE,
                           !.timers = BagAdd(@, [kind |-> "AfterWaiting", due |-> playout])]
      [] DecryptorActive /\ c \in failing ->
           EmitLoop(rcv, accept, failing)
      [] OTHER ->
           EmitLoop(rcv,
             [accept EXCEPT
                !.posted = Append(@, [request |-> Head(st.queue), frame |-> c,
                                      referenceTime |-> playout]),
                !.queue  = Tail(@),
                !.delay  = NewTargetPlayoutDelay(@, c)],
             failing)

\* The receiver state read and written by EmitAvailableEncodedFrames.
Receiver ==
  [queue |-> requestQueue, rel |-> lastReleased, acked |-> lastAcked,
   posted |-> posted, waiting |-> waiting, timers |-> timers,
   delay |-> targetPlayoutDelay, lipRef |-> lipSyncRefTime,
   lipRtp |-> lipSyncRtp, drift |-> driftEstimate]

DecryptFailures == IF DecryptorActive THEN SUBSET Frames ELSE {{}}

\* Mutant: the reports_are_scheduled_ test is lost.
ScheduleReportsEveryPacket(ts) ==
  LET toSend == FramerTimeToSendNextCastMessage(lastCastSent) - now
      delay  == IF toSend < kMinSchedulingDelayMs THEN kMinSchedulingDelayMs ELSE toSend
  IN  BagAdd(BagAdd(ts, [kind |-> "RtcpReport", due |-> now + RtcpInterval]),
             [kind |-> "CastMessage", due |-> now + delay])

\* ScheduleNextRtcpReport and ScheduleNextCastMessage, once.
ScheduleReports(ts) ==
  IF reportsScheduled THEN ts
  ELSE LET toSend == FramerTimeToSendNextCastMessage(lastCastSent) - now
           delay  == IF toSend < kMinSchedulingDelayMs THEN kMinSchedulingDelayMs ELSE toSend
       IN  BagAdd(BagAdd(ts, [kind |-> "RtcpReport", due |-> now + RtcpInterval]),
                  [kind |-> "CastMessage", due |-> now + delay])

\* Commit the outcome of EmitAvailableEncodedFrames; with |schedule|, the
\* reports are scheduled afterwards (as ProcessPacket does).
Commit(rcv, r, schedule) ==
  /\ received' = FramerForget(rcv, r.rel)
  /\ lastReleased' = r.rel
  /\ lastAcked' = r.acked
  /\ requestQueue' = r.queue
  /\ posted' = r.posted
  /\ waiting' = r.waiting
  /\ timers' = IF schedule THEN ScheduleReports(r.timers) ELSE r.timers
  /\ targetPlayoutDelay' = r.delay

\* Mutant: the request is queued at the front (push_front).
RequestEncodedFramePushFront ==
  /\ alive
  /\ nextRequest < MaxRequests
  /\ nextRequest' = nextRequest + 1
  /\ \E failing \in DecryptFailures :
       Commit(received,
              EmitLoop(received, [Receiver EXCEPT !.queue = <<nextRequest>> \o @], failing),
              FALSE)
  /\ UNCHANGED <<now, lastCastSent, lipSyncReport, delivered, reportsScheduled,
                 lipSyncVars, alive, packetsSeen>>

\* RequestEncodedFrame: push_back, then EmitAvailableEncodedFrames.
RequestEncodedFrame ==
  /\ alive
  /\ nextRequest < MaxRequests
  /\ nextRequest' = nextRequest + 1
  /\ \E failing \in DecryptFailures :
       Commit(received,
              EmitLoop(received, [Receiver EXCEPT !.queue = Append(@, nextRequest)], failing),
              FALSE)
  /\ UNCHANGED <<now, lastCastSent, lipSyncReport, delivered, reportsScheduled,
                 lipSyncVars, alive, packetsSeen>>

\* The lip-sync refresh of ProcessParsedPacket for packet p of frame f.
LipSyncUpdate(f, p) ==
  LET fresh == IF lipSyncReport # NoReport THEN lipSyncReport
               ELSE <<RtpTimestampOf(f), now>>
      ref   == IF lipSyncSet THEN lipSyncRefTime + RtpDelta(fresh[1], lipSyncRtp)
               ELSE fresh[2]
      sm    == SmootherUpdate(driftEstimate, driftLastUpdate, now, fresh[2] - ref)
  IN  IF p = 0 \/ ~lipSyncSet
      THEN [set |-> TRUE, ref |-> ref, rtp |-> fresh[1], drift |-> sm.est, last |-> sm.last]
      ELSE [set |-> lipSyncSet, ref |-> lipSyncRefTime, rtp |-> lipSyncRtp,
            drift |-> driftEstimate, last |-> driftLastUpdate]

\* Packets of frame f can be on the wire from its capture until
\* MaxNetworkDelay later; a sender report describes a captured frame.
RtpPackets == {[type |-> "rtp", frame |-> f, packet |-> p] : f \in Frames, p \in PacketIds}
RtcpPackets == {[type |-> "rtcp", frame |-> f,
                 report |-> <<RtpTimestampOf(f), CaptureTime(f) + o>>] :
                   f \in Frames, o \in SenderClockOffsets}
OnWire(pkt) ==
  CASE pkt.type = "rtp"  -> CaptureTime(pkt.frame) <= now
                            /\ now <= CaptureTime(pkt.frame) + MaxNetworkDelay
    [] pkt.type = "rtcp" -> CaptureTime(pkt.frame) <= now
    [] OTHER             -> TRUE

\* ProcessParsedPacket for an RTP packet: Framer::InsertPacket, lip sync,
\* and EmitAvailableEncodedFrames when the packet completed its frame.
ProcessParsedPacket(f, p) ==
  LET tooOld    == f <= lastReleased
      duplicate == ~tooOld /\ p \in received[f]
      rcv       == IF tooOld THEN received
                   ELSE [received EXCEPT ![f] = @ \cup {p}]
      complete  == ~tooOld /\ ~duplicate /\ rcv[f] = PacketIds
      ls        == LipSyncUpdate(f, p)
  IN
  IF duplicate
  THEN /\ timers' = ScheduleReports(timers)
       /\ UNCHANGED <<received, lastReleased, lastAcked, requestQueue, posted,
                      waiting, targetPlayoutDelay, lipSyncVars>>
  ELSE /\ lipSyncSet' = ls.set
       /\ lipSyncRefTime' = ls.ref
       /\ lipSyncRtp' = ls.rtp
       /\ driftEstimate' = ls.drift
       /\ driftLastUpdate' = ls.last
       /\ IF complete
          THEN \E failing \in DecryptFailures :
                 Commit(rcv,
                        EmitLoop(rcv, [Receiver EXCEPT !.lipRef = ls.ref,
                                          !.lipRtp = ls.rtp, !.drift = ls.drift],
                                 failing),
                        TRUE)
          ELSE /\ received' = rcv
               /\ timers' = ScheduleReports(timers)
               /\ UNCHANGED <<lastReleased, lastAcked, requestQueue, posted,
                              waiting, targetPlayoutDelay>>

\* ProcessPacket: RTCP, RTP, or a packet the parser rejects.
ProcessPacket(pkt) ==
  /\ alive
  /\ packetsSeen < MaxPackets
  /\ OnWire(pkt)
  /\ packetsSeen' = packetsSeen + 1
  /\ \/ /\ pkt.type = "rtcp"
        /\ lipSyncReport' = pkt.report
        /\ timers' = ScheduleReports(timers)
        /\ reportsScheduled' = TRUE
        /\ UNCHANGED <<received, lastReleased, lastAcked, requestQueue, posted,
                       waiting, targetPlayoutDelay, lipSyncVars>>
     \/ /\ pkt.type = "rtp"
        /\ ProcessParsedPacket(pkt.frame, pkt.packet)
        /\ reportsScheduled' = TRUE
        /\ UNCHANGED lipSyncReport
     \/ /\ pkt.type = "malformed"
        /\ UNCHANGED <<received, lastReleased, lastAcked, requestQueue, posted,
                       waiting, targetPlayoutDelay, lipSyncVars, timers,
                       reportsScheduled, lipSyncReport>>
  /\ UNCHANGED <<now, lastCastSent, nextRequest, delivered, alive>>

\* The posted EmitOneFrame task at the head of MAIN's queue runs the
\* request's callback with its frame.
EmitOneFrame ==
  /\ alive
  /\ posted # <<>>
  /\ delivered' = Append(delivered, Head(posted))
  /\ posted' = Tail(posted)
  /\ UNCHANGED <<now, framerVars, lipSyncReport, requestQueue, nextRequest,
                 timers, waiting, reportsScheduled, lipSyncVars,
                 targetPlayoutDelay, alive, packetsSeen>>

\* A delayed task is ripe once its time has come; ripe tasks run in order
\* of their due times.
Ripe(t) == t.due <= now /\ \A u \in BagToSet(timers) : u.due >= t.due

\* Mutant: the flag is not cleared before re-running the emission loop.
EmitAfterWaitingKeepFlag(t) ==
  /\ alive
  /\ BagIn(t, timers) /\ t.kind = "AfterWaiting" /\ Ripe(t)
  /\ \E failing \in DecryptFailures :
       Commit(received,
              EmitLoop(received, [Receiver EXCEPT !.timers = BagRemove(@, t)], failing),
              FALSE)
  /\ UNCHANGED <<now, lastCastSent, lipSyncReport, nextRequest, delivered,
                 reportsScheduled, lipSyncVars, alive, packetsSeen>>

\* The deferred re-check: clear the flag, run EmitAvailableEncodedFrames.
EmitAvailableEncodedFramesAfterWaiting(t) ==
  /\ alive
  /\ BagIn(t, timers) /\ t.kind = "AfterWaiting" /\ Ripe(t)
  /\ \E failing \in DecryptFailures :
       Commit(received,
              EmitLoop(received, [Receiver EXCEPT !.waiting = FALSE,
                                                  !.timers = BagRemove(@, t)], failing),
              FALSE)
  /\ UNCHANGED <<now, lastCastSent, lipSyncReport, nextRequest, delivered,
                 reportsScheduled, lipSyncVars, alive, packetsSeen>>

\* SendNextCastMessage: Framer::SendCastMessage sends (through
\* CastFeedback) only when it is time, then ScheduleNextCastMessage.
SendNextCastMessage(t) ==
  /\ alive
  /\ BagIn(t, timers) /\ t.kind = "CastMessage" /\ Ripe(t)
  /\ LET sent   == IF now >= FramerTimeToSendNextCastMessage(lastCastSent)
                   THEN now ELSE lastCastSent
         toSend == FramerTimeToSendNextCastMessage(sent) - now
         delay  == IF toSend < kMinSchedulingDelayMs THEN kMinSchedulingDelayMs ELSE toSend
     IN  /\ lastCastSent' = sent
         /\ timers' = BagAdd(BagRemove(timers, t), [kind |-> "CastMessage", due |-> now + delay])
  /\ UNCHANGED <<now, received, lastReleased, lastAcked, lipSyncReport,
                 requestQueue, nextRequest, posted, delivered, waiting,
                 reportsScheduled, lipSyncVars, targetPlayoutDelay, alive, packetsSeen>>

\* SendNextRtcpReport: send the receiver report, ScheduleNextRtcpReport.
SendNextRtcpReport(t) ==
  /\ alive
  /\ BagIn(t, timers) /\ t.kind = "RtcpReport" /\ Ripe(t)
  /\ timers' = BagAdd(BagRemove(timers, t), [kind |-> "RtcpReport", due |-> now + RtcpInterval])
  /\ UNCHANGED <<now, framerVars, lipSyncReport, requestQueue, nextRequest,
                 posted, delivered, waiting, reportsScheduled, lipSyncVars,
                 targetPlayoutDelay, alive, packetsSeen>>

\* ~FrameReceiver: weak_factory_ dies with the receiver, so the posted and
\* delayed tasks still queued on MAIN find their weak pointer null and do
\* nothing (every task action requires alive); queued requests are dropped.
Destroy ==
  /\ alive
  /\ alive' = FALSE
  /\ UNCHANGED <<now, framerVars, lipSyncReport, requestQueue, nextRequest,
                 posted, delivered, timers, waiting, reportsScheduled,
                 lipSyncVars, targetPlayoutDelay, packetsSeen>>

\* Handlers take no time: the clock advances only once MAIN has run every
\* ripe delayed task and every posted task.
Tick ==
  /\ now < MaxTime
  /\ alive => /\ posted = <<>>
              /\ \A t \in BagToSet(timers) : t.due > now
  /\ now' = now + 1
  /\ UNCHANGED <<framerVars, lipSyncReport, requestQueue, nextRequest, posted,
                 delivered, timers, waiting, reportsScheduled, lipSyncVars,
                 targetPlayoutDelay, alive, packetsSeen>>

Init ==
  /\ now = 0
  /\ received = [f \in Frames |-> {}]
  /\ lastReleased = NoFrame
  /\ lastAcked = NoFrame
  /\ lastCastSent = -CastMessageInterval
  /\ lipSyncReport = NoReport
  /\ requestQueue = <<>>
  /\ nextRequest = 0
  /\ posted = <<>>
  /\ delivered = <<>>
  /\ timers = EmptyBag
  /\ waiting = FALSE
  /\ reportsScheduled = FALSE
  /\ lipSyncSet = FALSE
  /\ lipSyncRefTime = 0
  /\ lipSyncRtp = 0
  /\ driftEstimate = 0
  /\ driftLastUpdate = -1
  /\ targetPlayoutDelay = RtpMaxDelay
  /\ alive = TRUE
  /\ packetsSeen = 0

Next ==
  \/ RequestEncodedFrame
  \/ \E pkt \in RtpPackets \cup RtcpPackets \cup {[type |-> "malformed"]} :
       ProcessPacket(pkt)
  \/ EmitOneFrame
  \/ \E t \in BagToSet(timers) :
       \/ EmitAvailableEncodedFramesAfterWaiting(t)
       \/ SendNextCastMessage(t)
       \/ SendNextRtcpReport(t)
  \/ Destroy
  \/ Tick

Spec == Init /\ [][Next]_vars

-----------------------------------------------------------------------------
\* The positive playout delays: the configured one and those frames carry.
PlayoutDelays == {RtpMaxDelay} \cup ({NewPlayoutDelay[f] : f \in Frames} \ {0})

TypeOK ==
  /\ now \in 0 .. MaxTime
  /\ received \in [Frames -> SUBSET PacketIds]
  /\ lastReleased \in {NoFrame} \cup Frames
  /\ lastAcked \in {NoFrame} \cup Frames
  /\ requestQueue \in Seq(0 .. MaxRequests - 1)
  /\ nextRequest \in 0 .. MaxRequests
  /\ IsABag(timers)
  /\ \A t \in BagToSet(timers) : t.kind \in TimerKinds /\ t.due \in Int
  /\ waiting \in BOOLEAN
  /\ targetPlayoutDelay \in PlayoutDelays
  /\ reportsScheduled \in BOOLEAN
  /\ lipSyncSet \in BOOLEAN
  /\ alive \in BOOLEAN
  /\ packetsSeen \in 0 .. MaxPackets

(***************************************************************************)
(* Every request made so far is either answered (its EmitOneFrame task was *)
(* posted, and perhaps has run) or still queued, exactly once and in the   *)
(* order of the RequestEncodedFrame calls; the frames handed out are in    *)
(* strictly increasing frame id.  About EmitAvailableEncodedFrames popping *)
(* frame_request_queue_ in FIFO order and the Framer never offering a      *)
(* frame older than one already released.                                 *)
(***************************************************************************)
Answered == delivered \o posted

RequestsAnsweredInOrder ==
  /\ [i \in 1 .. Len(Answered) |-> Answered[i].request] \o requestQueue
       = [i \in 1 .. nextRequest |-> i - 1]
  /\ \A i, j \in 1 .. Len(Answered) :
       i < j => Answered[i].frame < Answered[j].frame

\* The pending delayed tasks of kind k, each copy counted.
TimersOfKind(k) ==
  BagCardinality([t \in {u \in BagToSet(timers) : u.kind = k} |-> timers[t]])

(***************************************************************************)
(* No lost wake-up: while the receiver lives, whenever a request is queued *)
(* and the Framer holds a complete frame, the receiver is deferring on     *)
(* is_waiting_for_consecutive_frame_; and it is deferring exactly when one *)
(* EmitAvailableEncodedFramesAfterWaiting task is pending.  About the      *)
(* calls of EmitAvailableEncodedFrames from RequestEncodedFrame,           *)
(* ProcessParsedPacket and the timer, and the flag's set/reset.            *)
(***************************************************************************)
NoStrandedRequest ==
  alive =>
    /\ (requestQueue # <<>> /\ FramerNextFrame(received, lastReleased) # NoFrame)
         => waiting
    /\ waiting <=> TimersOfKind("AfterWaiting") = 1

(***************************************************************************)
(* Once the first packet has been processed there is exactly one pending  *)
(* RTCP report task and exactly one pending Cast message task, and before *)
(* it none: the feedback loops are started once (reports_are_scheduled_)  *)
(* and each re-arms itself exactly once per firing.                        *)
(***************************************************************************)
FeedbackTimersArmedOnce ==
  alive =>
    \A k \in {"CastMessage", "RtcpReport"} :
      TimersOfKind(k) = IF reportsScheduled THEN 1 ELSE 0

(***************************************************************************)
(* Spec §5 property 3, playout monotonicity: under one lip-sync state (no *)
(* drift update between them), of two frames the later-captured plays out *)
(* strictly later -- also when the RTP clock wraps between them or        *)
(* between a frame and the lip-sync reference.  About the                  *)
(* static_cast<int32> of the RtpTimestamp differences in GetPlayoutTime   *)
(* and the lip-sync refresh.  Frames carrying a new playout delay are left *)
(* out: that override is allowed to move a frame.                          *)
(***************************************************************************)
PlayoutMonotonic ==
  lipSyncSet =>
    \A f, g \in {h \in Frames : NewPlayoutDelay[h] = 0} :
      f < g => GetPlayoutTime(Receiver, f) < GetPlayoutTime(Receiver, g)

=============================================================================
