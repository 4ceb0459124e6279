------------------------ MODULE MC_CastFrameReceiver ------------------------
(* Model-checking instance of CastFrameReceiver: three two-packet frames,   *)
(* 2 ms apart, an 8 ms target playout delay (so a frame behind a gap can be *)
(* deferred: now + 2 * 2 < playout), and sender reports whose clock is     *)
(* offset from the receiver's.  The drift smoother has the default time   *)
(* constant of ClockDriftSmoother (30 s), so over the model's few          *)
(* milliseconds it stays close to its first sample.                        *)
EXTENDS CastFrameReceiver

MCNewPlayoutDelay == [f \in 0 .. NumFrames - 1 |-> 0]
=============================================================================
