------------------------ MODULE MediaCodecAudioDecoder ------------------------
(***************************************************************************)
(* media::MediaCodecAudioDecoder (src/filters/android/                     *)
(* media_codec_audio_decoder.cc) on its task runner, against its clients:  *)
(* the AudioDecoder client (Initialize, Decode, Reset, destruction), the   *)
(* MediaCodecLoop that calls back into it (ProvideInputData /              *)
(* OnInputDataQueued, OnDecodedEos, OnDecodedFrame, OnOutputFormatChanged, *)
(* OnCodecLoopError), and the CDM (OnMediaCryptoReady, OnKeyAdded).        *)
(*                                                                         *)
(* MediaCodecLoop is not part of this repository: it is modelled by what  *)
(* the decoder's comments say of it.  It has no free input buffer, or it   *)
(* queues the head of input_queue_ (success, failure, or no key yet); once *)
(* an end-of-stream buffer is queued it drains and reports OnDecodedEos;   *)
(* after an error it reports OnCodecLoopError and calls back no more.      *)
(*                                                                         *)
(* decode_cb and output_cb are BindToCurrentLoop'ed, and Reset posts its   *)
(* closure: all three are appended to |posted| and reach the client in     *)
(* order.  The init_cb given to OnMediaCryptoReady is already bound, so    *)
(* it runs within that task.                                               *)
(***************************************************************************)
EXTENDS Integers, Sequences, FiniteSets

CONSTANTS
  MaxDecodes,          \* bound: Decode() calls
  MaxResets            \* bound: Reset() calls

States == {"UNINITIALIZED", "WAITING_FOR_MEDIA_CRYPTO", "READY", "ERROR"}

\* MediaCodecLoop's own state, as far as the decoder can tell it apart.
\* "None" while codec_loop_ is null.
LoopStates == {"None", "Ready", "WaitingForKey", "Draining", "Drained", "Error"}

\* A buffer handed to Decode(): data, end of stream, or data without a
\* timestamp (kNoTimestamp).
BufferKinds == {"data", "eos", "nots"}

Statuses == {"OK", "DECODE_ERROR", "ABORTED"}

VARIABLES
  state,               \* state_
  codecLoop,           \* codec_loop_ is non-null
  loop,                \* the MediaCodecLoop's state
  inputQueue,          \* input_queue_: [id, eos] of the pending Decode()s
  baseTimestampSet,    \* timestamp_helper_->base_timestamp() != kNoTimestamp
  cdmRegistered,       \* SetCdm() registered the player and crypto-ready cb
  cryptoReadyRun,      \* the CDM has run the media-crypto-ready callback
  alive,               \* the decoder has not been destroyed
  crashed,             \* a null codec_loop_ was dereferenced
  \* The client.
  encrypted,           \* config.is_encrypted()
  supported,           \* the codec is Vorbis, AAC or Opus
  initCalled,          \* Initialize() was called
  initResult,          \* what init_cb reported: "none", "ok" or "failed"
  nextDecode,          \* Decode() calls so far (the next buffer's id)
  eosSent,             \* an end of stream was decoded since the last Reset
  resets,              \* Reset() calls so far
  posted,              \* callbacks bound to the client's loop, not yet run
  delivered            \* callbacks the client has received, in order

vars == <<state, codecLoop, loop, inputQueue, baseTimestampSet, cdmRegistered,
          cryptoReadyRun, alive, crashed, encrypted, supported, initCalled,
          initResult, nextDecode, eosSent, resets, posted, delivered>>

clientVars == <<encrypted, supported, initCalled, nextDecode, eosSent, resets>>

-----------------------------------------------------------------------------
(* The decoder state a handler reads and writes, threaded through the     *)
(* calls it makes.                                                        *)
Dec == [state |-> state, codecLoop |-> codecLoop, loop |-> loop,
        queue |-> inputQueue, base |-> baseTimestampSet, posted |-> posted]

CommitDec(d) ==
  /\ state' = d.state
  /\ codecLoop' = d.codecLoop
  /\ loop' = d.loop
  /\ inputQueue' = d.queue
  /\ baseTimestampSet' = d.base
  /\ posted' = d.posted

DecodeCb(id, status) == [kind |-> "decode", id |-> id, status |-> status]

\* c is the run of the decode_cb of Decode() number id.
IsAnswer(c, id) == c.kind = "decode" /\ c.id = id

\* Mutant: the queue's callbacks run but the queue is not cleared.
ClearInputQueueKeep(d, status) ==
  [d EXCEPT !.posted = @ \o [i \in 1 .. Len(d.queue) |-> DecodeCb(d.queue[i].id, status)]]

\* ClearInputQueue: run every pending decode_cb with |status|, clear.
ClearInputQueue(d, status) ==
  [d EXCEPT !.posted = @ \o [i \in 1 .. Len(d.queue) |-> DecodeCb(d.queue[i].id, status)],
            !.queue = <<>>]

\* CreateMediaCodecLoop: drop the old loop, then AudioCodecBridge::Create
\* and ConfigureAndStart either both succeed (|ok|) or the loop stays null.
CreateMediaCodecLoop(d, ok) ==
  [d EXCEPT !.codecLoop = ok, !.loop = IF ok THEN "Ready" ELSE "None"]

\* OnCodecLoopError: the loop has entered its error state.
OnCodecLoopError(d) ==
  ClearInputQueue([d EXCEPT !.state = "ERROR", !.loop = "Error"], "DECODE_ERROR")

\* Mutant: off by one, the last pending buffer is never offered.
IsAnyInputPendingOffByOne(d) == d.state = "READY" /\ Len(d.queue) > 1

IsAnyInputPending(d) == d.state = "READY" /\ d.queue # <<>>

\* Mutant: the answered buffer is not popped.
QueueInputNoPop(d, outcome) ==
  LET head == Head(d.queue) IN
  CASE outcome = "nokey" ->
         [d EXCEPT !.loop = "WaitingForKey"]
    [] outcome = "queued" /\ head.eos ->
         [d EXCEPT !.loop = "Draining"]
    [] OTHER ->
         [d EXCEPT !.posted = Append(@, DecodeCb(head.id,
                                    IF outcome = "queued" THEN "OK" ELSE "DECODE_ERROR"))]

\* ProvideInputData and OnInputDataQueued(success): the head of the queue
\* is handed to the codec.  A queued end of stream is answered only by
\* OnDecodedEos; anything else is answered now and popped.  Without a key
\* the loop keeps the buffer and waits for OnKeyAdded.
QueueInput(d, outcome) ==
  LET head == Head(d.queue) IN
  CASE outcome = "nokey" ->
         [d EXCEPT !.loop = "WaitingForKey"]
    [] outcome = "queued" /\ head.eos ->
         [d EXCEPT !.loop = "Draining"]
    [] OTHER ->
         [d EXCEPT !.posted = Append(@, DecodeCb(head.id,
                                    IF outcome = "queued" THEN "OK" ELSE "DECODE_ERROR")),
                   !.queue = Tail(@)]

QueueOutcomes == {"queued", "failed", "nokey"}

\* MediaCodecLoop::DoPendingWork: when the loop can take input and the
\* decoder has some, one buffer is queued -- or there is no free input
\* buffer yet and nothing happens.
DoPendingWork(d) ==
  {d} \cup (IF IsAnyInputPending(d) /\ d.codecLoop /\ d.loop = "Ready"
            THEN {QueueInput(d, o) : o \in QueueOutcomes} ELSE {})

-----------------------------------------------------------------------------
(* The client's calls.                                                     *)

\* Initialize(config, cdm_context, ...): unsupported codecs and encrypted
\* streams without a CDM fail at once; encrypted streams wait for the
\* MediaCrypto; clear streams create the loop now.
Initialize ==
  /\ ~initCalled
  /\ initCalled' = TRUE
  /\ \E hasCdm \in BOOLEAN, ok \in BOOLEAN :
       LET fail == [Dec EXCEPT !.posted = Append(@, [kind |-> "init", ok |-> FALSE])]
           created == CreateMediaCodecLoop(Dec, ok)
       IN
       CASE ~supported \/ (encrypted /\ ~hasCdm) ->
              CommitDec(fail) /\ UNCHANGED cdmRegistered
         [] encrypted ->
              /\ CommitDec([Dec EXCEPT !.state = "WAITING_FOR_MEDIA_CRYPTO"])
              /\ cdmRegistered' = TRUE
         [] ok ->
              /\ CommitDec([created EXCEPT !.state = "READY",
                               !.posted = Append(@, [kind |-> "init", ok |-> TRUE])])
              /\ UNCHANGED cdmRegistered
         [] OTHER ->
              CommitDec([created EXCEPT !.posted = Append(@, [kind |-> "init", ok |-> FALSE])])
              /\ UNCHANGED cdmRegistered
  /\ UNCHANGED <<cryptoReadyRun, alive, crashed, encrypted, supported,
                 initResult, nextDecode, eosSent, resets, delivered>>

\* The client has no Decode() or Reset() outstanding.
ClientIdle ==
  /\ \A id \in 0 .. nextDecode - 1 :
       \E i \in 1 .. Len(delivered) : IsAnswer(delivered[i], id)
  /\ resets = Cardinality({i \in 1 .. Len(delivered) : delivered[i].kind = "reset"})

\* Decode(buffer, decode_cb): one decode in flight at a time, and after an
\* end of stream none until Reset().
Decode(kind) ==
  /\ alive /\ ~crashed
  /\ initResult = "ok"
  /\ nextDecode < MaxDecodes
  /\ ClientIdle
  /\ ~eosSent
  /\ nextDecode' = nextDecode + 1
  /\ eosSent' = (kind = "eos")
  /\ LET d == Dec
         err == DecodeCb(nextDecode, "DECODE_ERROR")
     IN
     CASE kind = "nots" ->
            CommitDec([d EXCEPT !.posted = Append(@, err)])
       [] d.state = "ERROR" ->
            CommitDec([ClearInputQueue(d, "DECODE_ERROR") EXCEPT !.posted = Append(@, err)])
       [] OTHER ->
            \E d2 \in DoPendingWork([d EXCEPT !.queue = Append(@, [id |-> nextDecode,
                                                                   eos |-> kind = "eos"])]) :
              CommitDec(d2)
  /\ UNCHANGED <<cdmRegistered, cryptoReadyRun, alive, crashed, encrypted,
                 supported, initCalled, initResult, resets, delivered>>

\* Mutant: the pending decodes are left in the queue on Reset().
ResetDecoderKeepQueue(d, flushed, ok) ==
  LET r == IF flushed THEN [d EXCEPT !.loop = "Ready"] ELSE CreateMediaCodecLoop(d, ok)
  IN  [r EXCEPT !.base = FALSE, !.state = IF flushed \/ ok THEN "READY" ELSE "ERROR",
                !.posted = Append(@, [kind |-> "reset", upto |-> nextDecode])]

\* Mutant: the state is set to READY whether or not the codec came back.
ResetDecoderAlwaysReady(d, flushed, ok) ==
  LET c == ClearInputQueue(d, "ABORTED")
      r == IF flushed THEN [c EXCEPT !.loop = "Ready"] ELSE CreateMediaCodecLoop(c, ok)
  IN  [r EXCEPT !.base = FALSE, !.state = "READY",
                !.posted = Append(@, [kind |-> "reset", upto |-> nextDecode])]

\* The body of Reset(closure) once codec_loop_->TryFlush() has returned
\* |flushed|: abort the pending decodes, re-create the loop if the flush
\* failed, forget the base timestamp, and post the closure.
ResetDecoder(d, flushed, ok) ==
  LET c == ClearInputQueue(d, "ABORTED")
      r == IF flushed THEN [c EXCEPT !.loop = "Ready"] ELSE CreateMediaCodecLoop(c, ok)
  IN  [r EXCEPT !.base = FALSE, !.state = IF flushed \/ ok THEN "READY" ELSE "ERROR",
                !.posted = Append(@, [kind |-> "reset", upto |-> nextDecode])]

\* Reset(closure), called once the previous Reset() has completed.
\* TryFlush() dereferences codec_loop_ whether or not it exists.
Reset ==
  /\ alive /\ ~crashed
  /\ initResult = "ok"
  /\ resets < MaxResets
  /\ resets = Cardinality({i \in 1 .. Len(delivered) : delivered[i].kind = "reset"})
  /\ resets' = resets + 1
  /\ eosSent' = FALSE
  /\ IF ~codecLoop
     THEN /\ crashed' = TRUE
          /\ UNCHANGED <<state, codecLoop, loop, inputQueue, baseTimestampSet, posted>>
     ELSE /\ \E flushed \in BOOLEAN, ok \in BOOLEAN : CommitDec(ResetDecoder(Dec, flushed, ok))
          /\ UNCHANGED crashed
  /\ UNCHANGED <<cdmRegistered, cryptoReadyRun, alive, encrypted, supported,
                 initCalled, initResult, nextDecode, delivered>>

-----------------------------------------------------------------------------
(* The CDM's callbacks, posted to the decoder's loop with a weak pointer.   *)

\* Mutant: without MediaCrypto, init_cb is not run.
OnMediaCryptoReadyNoFailureCb ==
  /\ alive
  /\ cdmRegistered /\ ~cryptoReadyRun
  /\ cryptoReadyRun' = TRUE
  /\ \E hasCrypto \in BOOLEAN, ok \in BOOLEAN :
       LET created == CreateMediaCodecLoop(Dec, ok) IN
       CASE hasCrypto /\ ok ->
              /\ CommitDec([created EXCEPT !.state = "READY"])
              /\ delivered' = Append(delivered, [kind |-> "init", ok |-> TRUE])
              /\ initResult' = "ok"
         [] hasCrypto ->
              /\ CommitDec([created EXCEPT !.state = "UNINITIALIZED"])
              /\ delivered' = Append(delivered, [kind |-> "init", ok |-> FALSE])
              /\ initResult' = "failed"
         [] OTHER ->
              /\ CommitDec([Dec EXCEPT !.state = "UNINITIALIZED"])
              /\ UNCHANGED <<delivered, initResult>>
  /\ UNCHANGED <<cdmRegistered, alive, crashed, clientVars>>

\* OnMediaCryptoReady(init_cb, media_crypto): without MediaCrypto, or if the
\* codec cannot be created with it, initialisation fails.
OnMediaCryptoReady ==
  /\ alive
  /\ cdmRegistered /\ ~cryptoReadyRun
  /\ cryptoReadyRun' = TRUE
  /\ \E hasCrypto \in BOOLEAN, ok \in BOOLEAN :
       LET created == CreateMediaCodecLoop(Dec, ok) IN
       IF hasCrypto /\ ok
       THEN /\ CommitDec([created EXCEPT !.state = "READY"])
            /\ delivered' = Append(delivered, [kind |-> "init", ok |-> TRUE])
            /\ initResult' = "ok"
       ELSE /\ CommitDec([IF hasCrypto THEN created ELSE Dec EXCEPT !.state = "UNINITIALIZED"])
            /\ delivered' = Append(delivered, [kind |-> "init", ok |-> FALSE])
            /\ initResult' = "failed"
  /\ UNCHANGED <<cdmRegistered, alive, crashed, clientVars>>

\* OnKeyAdded: forwarded to codec_loop_ if there is one, which retries the
\* buffer it holds for want of a key.
OnKeyAdded ==
  /\ alive /\ cdmRegistered
  /\ codecLoop /\ loop = "WaitingForKey"
  /\ loop' = "Ready"
  /\ UNCHANGED <<state, codecLoop, inputQueue, baseTimestampSet, cdmRegistered,
                 cryptoReadyRun, alive, crashed, clientVars, initResult, posted, delivered>>

-----------------------------------------------------------------------------
(* MediaCodecLoop's calls into the decoder, from its own timer.            *)

LoopWorking == alive /\ ~crashed /\ codecLoop /\ loop # "Error"

\* The loop's timer queues the next input buffer.
QueueNextInput ==
  /\ LoopWorking /\ loop = "Ready" /\ IsAnyInputPending(Dec)
  /\ \E o \in QueueOutcomes : CommitDec(QueueInput(Dec, o))
  /\ UNCHANGED <<cdmRegistered, cryptoReadyRun, alive, crashed, clientVars,
                 initResult, delivered>>

\* OnDecodedEos: the drained end of stream answers its decode_cb with OK.
OnDecodedEos ==
  /\ LoopWorking /\ loop = "Draining"
  /\ CommitDec([Dec EXCEPT !.posted = Append(@, DecodeCb(Head(inputQueue).id, "OK")),
                           !.queue = Tail(@), !.loop = "Drained"])
  /\ UNCHANGED <<cdmRegistered, cryptoReadyRun, alive, crashed, clientVars,
                 initResult, delivered>>

\* OnDecodedFrame: copy the output buffer and run output_cb_ (the audio
\* itself is not modelled), setting the base timestamp on the first one; a failed copy returns false and the
\* loop enters its error state.
OnDecodedFrame ==
  /\ LoopWorking /\ loop \in {"Ready", "WaitingForKey", "Draining"}
  /\ \E copied \in BOOLEAN :
       CommitDec(IF copied
                 THEN [Dec EXCEPT !.base = TRUE]
                 ELSE OnCodecLoopError(Dec))
  /\ UNCHANGED <<cdmRegistered, cryptoReadyRun, alive, crashed, clientVars,
                 initResult, delivered>>

\* The loop enters its error state and calls OnCodecLoopError: because
\* OnOutputFormatChanged could not read the new sampling rate or channel
\* count and returned false, or because a MediaCodec call failed.  (A format
\* change that succeeds only updates sample_rate_ and channel_count_, which
\* do not affect control.)
OnOutputFormatChanged ==
  /\ LoopWorking
  /\ CommitDec(OnCodecLoopError(Dec))
  /\ UNCHANGED <<cdmRegistered, cryptoReadyRun, alive, crashed, clientVars,
                 initResult, delivered>>

-----------------------------------------------------------------------------
\* ~MediaCodecAudioDecoder: the loop goes, the CDM callbacks are cancelled
\* and the pending decodes are aborted.
Destroy ==
  /\ alive /\ ~crashed
  /\ alive' = FALSE
  /\ CommitDec([ClearInputQueue(Dec, "ABORTED") EXCEPT !.codecLoop = FALSE, !.loop = "None"])
  /\ UNCHANGED <<cdmRegistered, cryptoReadyRun, crashed, clientVars, initResult, delivered>>

\* The client's loop runs the next posted callback.
RunPosted ==
  /\ ~crashed
  /\ posted # <<>>
  /\ delivered' = Append(delivered, Head(posted))
  /\ posted' = Tail(posted)
  /\ initResult' = IF Head(posted).kind /= "init" THEN initResult
                   ELSE IF Head(posted).ok THEN "ok" ELSE "failed"
  /\ UNCHANGED <<state, codecLoop, loop, inputQueue, baseTimestampSet, cdmRegistered,
                 cryptoReadyRun, alive, crashed, clientVars>>

Init ==
  /\ state = "UNINITIALIZED"
  /\ codecLoop = FALSE
  /\ loop = "None"
  /\ inputQueue = <<>>
  /\ baseTimestampSet = FALSE
  /\ cdmRegistered = FALSE
  /\ cryptoReadyRun = FALSE
  /\ alive = TRUE
  /\ crashed = FALSE
  /\ encrypted \in BOOLEAN
  /\ supported \in BOOLEAN
  /\ initCalled = FALSE
  /\ initResult = "none"
  /\ nextDecode = 0
  /\ eosSent = FALSE
  /\ resets = 0
  /\ posted = <<>>
  /\ delivered = <<>>

Next ==
  \/ Initialize
  \/ \E k \in BufferKinds : Decode(k)
  \/ Reset
  \/ OnMediaCryptoReady
  \/ OnKeyAdded
  \/ QueueNextInput
  \/ OnDecodedEos
  \/ OnDecodedFrame
  \/ OnOutputFormatChanged
  \/ Destroy
  \/ RunPosted

\* The loop's timer keeps working while it has something to do, and the
\* client's loop runs what is posted to it.
Fairness ==
  /\ WF_vars(QueueNextInput)
  /\ WF_vars(OnDecodedEos)
  /\ WF_vars(RunPosted)

Spec == Init /\ [][Next]_vars /\ Fairness

-----------------------------------------------------------------------------
CallbackRecords ==
  [kind : {"decode"}, id : 0 .. MaxDecodes - 1, status : Statuses]
    \cup [kind : {"reset"}, upto : 0 .. MaxDecodes]
    \cup [kind : {"init"}, ok : BOOLEAN]

\* The variables have their types; input_queue_ holds at most the one
\* decode in flight (the DCHECK in Decode()).
TypeOK ==
  /\ state \in States /\ loop \in LoopStates
  /\ codecLoop <=> loop # "None"
  /\ inputQueue \in Seq([id : 0 .. MaxDecodes - 1, eos : BOOLEAN])
  /\ Len(inputQueue) <= 1
  /\ {baseTimestampSet, cdmRegistered, cryptoReadyRun, alive, crashed,
      encrypted, supported, initCalled, eosSent} \subseteq BOOLEAN
  /\ initResult \in {"none", "ok", "failed"}
  /\ nextDecode \in 0 .. MaxDecodes /\ resets \in 0 .. MaxResets
  /\ posted \in Seq(CallbackRecords) /\ delivered \in Seq(CallbackRecords)

Callbacks == delivered \o posted

Answers(id) == {i \in 1 .. Len(Callbacks) : IsAnswer(Callbacks[i], id)}

\* Every decode_cb runs exactly once: each Decode() is either still in
\* input_queue_ or has been answered, once -- across OnInputDataQueued,
\* OnDecodedEos, OnCodecLoopError, Reset, errors in Decode itself and
\* destruction.
DecodeAnsweredOnce ==
  \A id \in 0 .. nextDecode - 1 :
    Cardinality(Answers(id)) + Cardinality({i \in 1 .. Len(inputQueue) : inputQueue[i].id = id}) = 1

\* Reset's closure reaches the client only after the decode_cb of every
\* Decode() made before the Reset() (AudioDecoder's contract: pending
\* decodes are finished or aborted before the closure runs).
ResetAfterPendingDecodes ==
  \A i \in 1 .. Len(Callbacks) :
    Callbacks[i].kind = "reset" =>
      \A id \in 0 .. Callbacks[i].upto - 1 : \E j \in Answers(id) : j < i

\* The decoder's state follows its loop: when READY the loop exists and has
\* not failed, and buffers wait in input_queue_ only while the decoder is
\* READY, so the loop will take them (OnCodecLoopError and a failed Reset
\* must leave nothing behind).
DecoderTracksCodecLoop ==
  (alive /\ ~crashed) =>
    /\ state = "READY" => codecLoop /\ loop # "Error"
    /\ inputQueue # <<>> => state = "READY"

\* init_cb runs exactly once after Initialize(), whether it fails at once,
\* creates the codec, or waits for the CDM's MediaCrypto.
InitAnsweredOnce ==
  /\ Cardinality({i \in 1 .. Len(Callbacks) : Callbacks[i].kind = "init"}) <= 1
  /\ (initCalled /\ (~cdmRegistered \/ cryptoReadyRun)) =>
       Cardinality({i \in 1 .. Len(Callbacks) : Callbacks[i].kind = "init"}) = 1

\* Every Decode() is eventually answered, unless the codec waits for a key
\* the CDM has not provided, or the process crashed.
DecodeEventuallyAnswered ==
  \A id \in 0 .. MaxDecodes - 1 :
    (nextDecode > id) ~> (\E i \in 1 .. Len(delivered) : IsAnswer(delivered[i], id))
                         \/ loop = "WaitingForKey" \/ crashed

\* TryFlush() is never called on a null codec_loop_.
NoNullCodecLoopDeref == ~crashed

====
