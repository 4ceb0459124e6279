# TLA+ models of chromium-media

This directory holds TLA+ models of the stateful components in `src/`, and
the TLC configurations that check them. Every definition is translated from
the C++ source named in `PROJECT.json` ("map"). The only exceptions are the
cast `Framer` and `ClockDriftSmoother`. Their code is not in this repository,
so they are modelled from `spec.md` and marked `spec_modelled`. The same
holds for the `AtExitManager` callbacks of AudioManagerLinux and for the
fourcc-to-pixel-format table of the V4L2 factory.

## 1. Inventory of the system

| Part | Source | State | Operations | Interactions | Hard behaviour |
|---|---|---|---|---|---|
| Cast FrameReceiver | `src/cast/receiver/frame_receiver.cc` | framer (packets per frame, last released/acked frame), request queue, `is_waiting_for_consecutive_frame_`, lip-sync reference (RTP timestamp, reference time), drift smoother, `target_playout_delay_`, `reports_are_scheduled_`, delayed tasks on MAIN | `RequestEncodedFrame`, `ProcessPacket`/`ProcessParsedPacket`, `EmitAvailableEncodedFrames`, `EmitAvailableEncodedFramesAfterWaiting`, `EmitOneFrame`, `SendNextCastMessage`, `SendNextRtcpReport`, destructor | Network packets (lost, reordered, duplicated, late), sender reports, the decryptor, the client's callbacks, MAIN task runner | Skipping late frames, waiting for a missing frame with a deferred re-check, posted callbacks racing destruction, self re-arming timers |
| Framer, ClockDriftSmoother | not under `src/` (spec §4) | frames, packets, ack state; smoothed offset | insert, get frame, release, ack, time to send the cast message; update | called by FrameReceiver | cumulative acks, too-old packets |
| DecoderSelector | `src/filters/decoder_selector.cc` | remaining decoders, `decoder_`, `decrypted_stream_`, `input_stream_`, `select_decoder_cb_`, weak pointer generation | `SelectDecoder`, `Abort`, `DecryptingDecoderInitDone`, `DecryptingDemuxerStreamInitDone`, `DecoderInitDone`, `ReturnNullDecoder` | the decoders' asynchronous `Initialize`/`Stop`, the caller | stale completions after `Abort`, double `Abort`, callback exactly once |
| MediaCodecAudioDecoder | `src/filters/android/media_codec_audio_decoder.cc` | state (UNINITIALIZED, WAITING_FOR_MEDIA_CRYPTO, READY, ERROR), input queue of (buffer, decode_cb), codec loop, CDM registration | Initialize, Decode, Reset, SetCdm, OnKeyAdded, OnMediaCryptoReady, codec-loop callbacks | the MediaCodecLoop and the CDM | every `decode_cb` runs exactly once, including on errors and reset; EOS ordering |
| RemoteRendererImpl | `src/remoting/remote_renderer_impl.cc` | state (UNINITIALIZED..ERROR), pending flush/init callbacks, stream adapters, remote handle | Initialize, OnDataPipeCreated, Flush, StartPlayingFrom, SetPlaybackRate, SetVolume, SetCdm, the RPC handlers, OnFatalError, the destructor, UpdateInterstitial | the main thread (data pipes, RpcBroker, interstitial controller) and the remote receiver over RPC | replies arriving in any state, unasked or malformed messages, errors in the middle of a flush, tasks still posted after deletion |
| WebMStreamParser | `src/formats/webm/webm_stream_parser.cc` | state (kWaitingForInit, kParsingHeaders, kParsingClusters, kError), `parsing_cluster_`, byte queue | Init, Flush, Parse | the byte stream and segment callbacks | new/end-of-segment pairing across Flush and a new EBML header |
| D3D11VideoDecoder | `src/gpu/windows/d3d11_video_decoder.cc` | the implementation living on the GPU thread, weak pointers | Initialize, Decode, Reset (posted there and back) | GPU thread | callbacks after destruction |
| AudioManagerLinux | `src/audio/linux/audio_manager_linux.cc` | `g_audio_manager`, `initialized_`, active streams, AtExit registrations | GetAudioManager (unlocked), Init, MakeAudioStream, DestroyAudioManagerLinux at exit | callers on any thread, the AtExitManager | the unlocked check-then-create, use before Init, deletion at exit |
| V4L2 device factory | `src/capture/video/linux/video_capture_device_factory_linux.cc` | the device nodes and what their ioctls answer | GetDeviceDescriptors, GetSupportedFormats, CreateDevice | the kernel's V4L2 ioctls, hot-unplug | the enumeration loops, stepwise sizes, continuous intervals, devices vanishing between calls |
| Others | YUV tables, headers, tests | - | - | - | constants or declarations: not modelled |

The correctness of each part:
- **FrameReceiver.** Requests are answered in order, with increasing frames. A request is never stranded while a frame could be emitted. The feedback timers are armed exactly once.
- **DecoderSelector.** The selection callback runs exactly once, and eventually. A returned decoder initialised successfully and fits the stream's encryption.
- **MediaCodecAudioDecoder.** Every `decode_cb` and the `init_cb` run exactly once, eventually, and the decoder's state agrees with whether it has a codec loop.
- **RemoteRendererImpl.** The pipeline is told each result once, every error reaches it, PLAYING needs the whole RPC handshake, a sent flush is answered, and after deletion nothing reaches the pipeline or the video sink.
- **WebMStreamParser.** `init_cb` runs once and first, nothing follows a parse error, segment callbacks nest, and each media segment is announced after its init segment.
- **D3D11VideoDecoder.** `init_cb` runs once, no callback reaches a client that has destroyed the decoder, and the callbacks form a behaviour of the VideoDecoder contract.
- **AudioManagerLinux.** The process gets one manager, initialised before use, and deletes it once at exit.
- **V4L2 factory.** A listed device reports exactly the formats it enumerates.

## 2. Modules

### CastFrameReceiver (`CastFrameReceiver.tla`, `MC_CastFrameReceiver.tla`)

FrameReceiver runs on one thread, MAIN.

**Clock and packets.**
- `now` is discrete time in ms. The RTP clock runs at 1000 Hz, and frame `f` is captured at `f * FrameDuration`.
- An RTP timestamp is an unsigned integer of `RtpBits` bits that starts at `RtpStart` and wraps. `RtpDelta` is the code's `static_cast<int32>(a - b)`: the unsigned difference read as a signed one. TLC's integers are 32-bit, so the run uses a 4-bit clock. The code behaves the same at any width as long as every difference it takes is under half the range; here the differences are at most 4.
- A packet is on the wire from its frame's capture until `MaxNetworkDelay` later. Within that window it can arrive in any order, arrive twice, or not at all.
- A sender report can arrive at any time after the frame it describes.

**Actions.** Each action is one whole handler:

| Action | Handler |
|---|---|
| `RequestEncodedFrame` | push the request, then the emission loop |
| `ProcessPacket` | RTCP report, RTP packet through `ProcessParsedPacket`, or a packet the parser rejects; then the one-time report scheduling |
| `EmitAvailableEncodedFramesAfterWaiting` | the delayed re-check |
| `EmitOneFrame` | the posted callback |
| `SendNextCastMessage`, `SendNextRtcpReport` | self re-arming timers |
| `Destroy` | the weak-pointer factory dies; still-queued tasks become no-ops |
| `Tick` | time advances |

**Loop and helpers.**
- The `while` loop of `EmitAvailableEncodedFrames` is the recursive operator `EmitLoop`. It covers four cases: skip a late frame, wait for a missing frame, drop a frame that fails decryption, and emit.
- The decryption failures are chosen by `\E` over sets of frames.
- The Framer's operations are the `Framer*` operators. The smoother is `SmootherUpdate`, with the `double` arithmetic rounded to a millisecond. Its time constant is the default of `ClockDriftSmoother::GetDefaultTimeConstant()`, 30 s: over the model's few milliseconds the estimate stays at its first sample.

**Timing.** Handlers take no time. `Tick` advances the clock only after MAIN has run every ripe delayed task and every posted task. Delayed tasks run in the order of their due times. They are a bag (`timers`), so two identical tasks posted twice are two pending tasks, as on the task runner.

### DecoderSelector (`DecoderSelector.tla`, `MC_DecoderSelector.tla`)

**Inputs.** Init chooses the stream: valid or not, clear or encrypted, with or without a decryptor callback.

**Weak pointers.**
- Every `Initialize`/`Stop` callback is recorded in `inflight` with the weak pointer generation it was bound under.
- `Abort` bumps the generation, then binds the `Stop` callback under the new one.
- A completion runs its handler only if its generation is current. Otherwise it is dropped, exactly like a callback whose weak pointer was invalidated.

**Callback.** `select_decoder_cb_` is wrapped by `BindToCurrentLoop`, so running it appends to `posted`. `DeliverSelectDecoderCb` then hands it to the caller.

**Refinement.** `DecoderSelection.tla` is the selection as the caller sees it. It has four phases (`idle`, `selecting`, `decided`, `done`), an `aborted` flag and the result. `Decide` may pick only an acceptable result:
- a null decoder, at any time;
- otherwise, for a valid stream and only if no `Abort` came first, a decoder fitting the encryption. A clear stream gets a plain decoder. An encrypted stream with a decryptor gets the decrypting decoder alone, or a plain decoder on a decrypted stream.

`Decide` and `Deliver` are weakly fair. `Selection == INSTANCE DecoderSelection WITH ...` maps the selector's state:
- `phase` comes from `called`, `selectCbPending` and `posted`;
- `outcome` is the first result posted or delivered;
- the stream's three facts map one to one.

Completions that do not post, and stale completions that are dropped, are stuttering steps. This needs no history variable.

### MediaCodecAudioDecoder (`MediaCodecAudioDecoder.tla`)

**State.** `state` is `state_`, `inputQueue` is `input_queue_` of (buffer kind, decode id), `loop` is the MediaCodecLoop's own state (or "None" when `codec_loop_` is null), `cdmRegistered` and `cryptoReadyRun` are the CDM registration and its callback. `posted` are the `decode_cb`s wrapped by `BindToCurrentLoop`, `delivered` what the client has received.

**Actions.**
- Client calls: `Initialize`, `Decode` (which runs `DoPendingWork` at once, as the code does), `Reset`, `Destroy`.
- CDM callbacks: `OnMediaCryptoReady` (runs `init_cb` synchronously), `OnKeyAdded`.
- MediaCodecLoop callbacks, each the decoder's whole handler: `QueueNextInput` (through `QueueInput`), `OnDecodedEos`, `OnDecodedFrame`, `OnOutputFormatChanged`.
- `RunPosted` runs a posted callback.
- The MediaCodecLoop itself is not in this repository. Its outcomes (queued, failed, no key; flush and re-creation succeeding or not) are nondeterministic.

**Crash.** A call through a null `codec_loop_` sets `crashed` and freezes the model.

### RemoteRenderer (`RemoteRenderer.tla`)

**Threads and messages.**
- The renderer's handlers run on the media thread.
- RPCs to the remote go through the main thread's RpcBroker in order (`toRemote`). Messages from the remote are posted back in order (`fromRemote`).
- `DataPipeCreated` is the main thread's `StartDataPipe` together with `OnDataPipeCreated`. Nothing else is in flight on the media thread before the pipes exist.

**Actions.**
- Client calls: `Initialize`, `Flush`, `StartPlayingFrom`, `SetPlaybackRate`, `SetVolume`, `SetCdm` (which answers `false` at once and changes nothing), and `Destroy`, the destructor, which the pipeline may run at any time.
- `Destroy` paints the `BETWEEN_SESSIONS` interstitial (`UpdateInterstitial`) and appends two tasks to the main thread's queue (`mainTasks`). `MainRunTask` runs them in order: it resets the controller's show-interstitial callback (`showInterstitialCb`), then unregisters the RPC receiver (`receiverRegistered`). Until then the controller may still request interstitials (`RequestUpdateInterstitialOnMainThread`, queued in `interstitialTasks`), and the broker still delivers the remote's messages (`Deliver`).
- Every task posted to the media thread is bound to the renderer's weak pointer: `DataPipeCreated`, `ReceiveRpc` and `RunUpdateInterstitial` do nothing once `destroyed`. Pending `init_cb` and `flush_cb` are dropped with the renderer.
- `ReceiveRpc` is `OnReceivedRpc` with its dispatch to `AcquireRendererDone`, `InitializeCallback`, `FlushUntilCallback`, the renderer-client handlers and `OnFatalError`. Handlers are threaded through a record, `Rnd`, and committed by `CommitRnd`.
- The remote (`RemoteReceive`, `RemoteNotify`, `RemoteUnexpectedReply`) answers each request in order. It may also send renderer-client messages (`RC_ONERROR`, `RC_ONENDED`, an update, or a malformed one) and unasked replies.

**Abstractions.**
- `RemoteDemuxerStreamAdapter` is not in this repository. Its `SignalFlush(true)` may return a count or none.
- The payloads of time, size and statistics updates are abstracted to well-formed or malformed.

### WebMStreamParser (`WebMStreamParser.tla`)

**Bytes.** `byteQueue` holds top-level elements, each an ID class (`Tokens`) and whether all its bytes are queued. A `Parse` call appends either the rest of a split element or a new element, whole or only its first bytes.

**The loop.** `Parse` runs the `while` loop of `Parse()` as the recursive `ParseLoop`, over `ParseInfoAndTracks` and `ParseCluster`.

**Environment.**
- `WebMClusterParser` (`ClusterParse`) is not in this repository. Its results are nondeterministic within what this code relies on: it needs a whole element, starts a cluster on a Cluster ID, takes blocks only inside one, and ends a known-size cluster at its last block.
- `config_cb` and `new_buffers_cb` may refuse.

**Client view.** `log` records the callbacks the client receives (`init`, `config`, `new`, `buffers`, `end`, `error`) and its `Flush` calls.

### D3D11VideoDecoder (`D3D11VideoDecoder.tla`)

**Threads.** Init chooses whether the decoder is called on the GPU thread (`sameThread`).
- Called from another thread, each call is posted to `toImpl` bound to `impl_weak_`.
- The impl's callbacks are posted to `toClient` and run through `CallbackOnProperThread`, which checks the decoder's weak pointer.
- `Destroy` posts `Delete` (DeleteSoon), or destroys the impl at once on the GPU thread.

**Environment.** The impl is a nondeterministic VideoDecoder (`ImplHandle`, `ImplDecodeDone`): it answers `Initialize`, completes decodes in order, and aborts pending decodes before running the reset closure.

**Pure function.** `IsPotentiallySupported` is the configuration check, over every combination of its inputs (`Configs`).

**Refinement.** `VideoDecoderContract.tla` states what a `media::VideoDecoder` promises its client, over the same variables:
- `init_cb` runs once, after `Initialize`;
- decode_cbs run once each, in the order of the decodes;
- a reset closure runs only after every decode made before that `Reset` is answered;
- nothing is received after `Destroy`;
- every call is eventually answered unless the client destroys the decoder (`Answered`).

A call may be answered before it returns (on the GPU thread the impl answers inside the call, and a `Reset` delivers the aborted decodes and its closure together), so a step may append several callbacks, each allowed where it lands (`MayFollow`). That is why the contract is checked only as a property and is not run on its own. `D3D11VideoDecoder` instantiates it with the identity mapping (`Contract == INSTANCE VideoDecoderContract`). The history variable `resetAt`, the decodes made before each `Reset`, is the one variable added for it. The interface header `media/base/video_decoder.h` is not in this repository, so the contract is not mapped to source lines.

### AudioManagerLinux (`AudioManagerLinux.tla`)

**Threads.** `AudioManager::GetAudioManager()` takes no lock. Each caller (`Callers`) runs it as four steps, tracked by `pc`:
1. `GetAudioManagerCheck` tests `g_audio_manager`;
2. `GetAudioManagerNew` creates a manager and stores it in the global;
3. `GetAudioManagerInit` calls `Init()` on whatever the global holds then;
4. `GetAudioManagerRegister` registers `DestroyAudioManagerLinux` with the AtExitManager and returns the global.

Callers interleave between these steps. Three callers reach the races of the unlocked function: a caller returning the global while the creator is still between `new` and `Init()`; two creations, after which both creators call `Init()` on the second manager and the first leaks; and, combining the two, a third caller that returned the first manager before it was overwritten keeps it, and no one ever calls its `Init()`, so its ALSA streams are NULL for ever. No property asserts against the last, since nothing in this repository says `GetAudioManager` is called from more than one thread; it is listed as a hazard.

**State.** `mgr` maps each manager created to `initialized_` (whether the audio thread started), its stream count and how often it was deleted.
- `MakeAudioStream` returns a fake stream for the mock format, NULL before `Init()` started the thread, and otherwise a new ALSA stream.
- `AtExit` runs every registration of `DestroyAudioManagerLinux` (`RunAtExitCallbacks`). Each run deletes and clears the global.

### V4L2DeviceFactory (`V4L2DeviceFactory.tla`, `MC_V4L2DeviceFactory.tla`)

**Devices.** A device node is a record of what its ioctls answer:
- `caps`: the answer to QUERYCAP, or its failure;
- `formats`: the fourccs, each with its frame-size entries;
- `intervals`: the frame intervals answered for each size;
- `ids`: which USB id files can be read.

`node[n] = Absent` means the node does not open. Each enumeration loop of the code runs to the end of the corresponding sequence, where the ioctl fails.

**Algorithms.** The code's enumeration is modelled as operators:
- `GetFrameRateList` is the recursive `RateLoop`, which stops at the first continuous interval and falls back to rate 0.
- `SizeLoop` is the loop over frame sizes. A stepwise entry leaves `frame_size` as it was, but its rates are still asked for.
- `GetSupportedFormatsForV4L2BufferType` folds over the formats and skips fourccs with no pixel format.

They are checked against a reference definition, `RefFormats`, a set comprehension over the discrete sizes and rates the device lists.

**Actions.** The client calls `GetDeviceDescriptors`, `GetSupportedFormats` and `CreateDevice`, bounded by `MaxCalls`. A device may be unplugged between calls (`Unplug`, bounded by `MaxReplugs`).

`MC_V4L2DeviceFactory.tla` enumerates the device configurations: three capability answers, up to two formats of up to two size entries, and interval lists including a zero numerator and a continuous entry.

## 3. Runs

| Run | Config | Expect | What it shows |
|---|---|---|---|
| `cast_receiver` | `MC_CastFrameReceiver.cfg` | pass | `RequestsAnsweredInOrder`, `NoStrandedRequest`, `FeedbackTimersArmedOnce` and `PlayoutMonotonic` (later frames play later, across an RTP wrap) hold for all arrival orders, losses, duplicates, decryption failures and destruction points (4.6M states) |
| `decoder_selector` | `MC_DecoderSelector.cfg` | pass | the selection callback runs once, `Abort` always has a target, a returned decoder fits the stream, and the selector refines `DecoderSelection` (`ImplementsDecoderSelection`, under fairness) (336 states) |
| `mcad` | `MC_MediaCodecAudioDecoder.cfg` | pass | every `decode_cb` and `init_cb` runs exactly once, reset closures follow the aborted decodes, the state agrees with `codec_loop_`, and every decode is eventually answered (18,392 states) |
| `mcad_reset` | `MC_MediaCodecAudioDecoder_reset.cfg` | violation | `NoNullCodecLoopDeref` fails; see Findings |
| `remote_renderer` | `MC_RemoteRenderer.cfg` | pass | the pipeline is told each result once, every error reaches it, PLAYING needs the full handshake, `Initialize` and a sent flush are eventually answered (`FlushEventuallyAnswered`), and after deletion the pipeline is told nothing (`NoPipelineCallbackAfterDestroy`) and the destructor's interstitial is not painted over (`DestructorInterstitialStays`) (821,205 states) |
| `webm_parser` | `MC_WebMStreamParser.cfg` | pass | `Parse` leaves no complete element queued, keeps the init/error contract, and the segment callbacks nest (250,569 states) |
| `webm_segment` | `MC_WebMStreamParser_segment.cfg` | violation | `MediaSegmentAfterConfig` fails; see Findings |
| `d3d11_decoder` | `MC_D3D11VideoDecoder.cfg` | pass | on or off the GPU thread, and whenever the decoder is destroyed, the decoder refines `VideoDecoderContract`: `init_cb` runs once and eventually, decodes are answered once and in order, resets after the decodes before them, and nothing reaches a destroyed decoder's client (1,587 states) |
| `audio_manager` | `MC_AudioManagerLinux.cfg` | pass | with three callers racing through the unlocked `GetAudioManager`, the AtExit callbacks delete no manager twice (124,080 states) |
| `v4l2_formats` | `MC_V4L2DeviceFactory.cfg` | pass | for every device configuration, and with the device unplugged between calls, `GetSupportedFormats` reports every format the device enumerates (157,750 states) |
| `v4l2_stepwise` | `MC_V4L2DeviceFactory_stepwise.cfg` | violation | `ReportedFormatsSound` fails for stepwise devices; see Findings |

### Bounds

**`cast_receiver`:**
- 3 frames of 2 packets, 2 ms apart. Three frames are the fewest that give both a gap (frame 1 complete, frame 0 not) and a later frame to skip to.
- `RtpMaxDelay = 8`, so `now + 2*FrameDuration < playout` can hold and the wait branch is taken.
- Network delay up to 3 ms, so packets of different frames overlap in time.
- One sender clock offset, and 5 packets in total.
- 2 requests, so one request can wait while another is queued.
- Time up to 13 ms, which covers the playout of every frame.
- `RtpBits = 4` and `RtpStart = 14`, so the frames carry RTP timestamps 14, 0 and 2. The clock wraps between frames 0 and 1, and between a sender report for frame 0 and the later frames.

Every action and every branch of `EmitLoop` fires in this run.

**`decoder_selector`:**
- Two plain decoders, so the fallback from one failure to the next decoder happens.
- Two `Abort` calls, so a second `Abort` can invalidate the first `Stop` callback.

**`mcad`:** `MaxDecodes = 3`, `MaxResets = 2`.
- Three decodes give a decode pending across a `Reset`, and an end of stream followed by `Reset` and more decoding.
- Two resets give a failed re-creation followed by a second `Reset`, which is the finding's path.

**`remote_renderer`:** `MaxNotifications = 1`, `MaxUnexpected = 1`, `MaxFlushes = 2`, `MaxControls = 1`, `MaxInterstitials = 1`. One interstitial request is enough to race the destructor's paint, posted either before the deletion or between the deletion and the main thread's reset of the callback.
- One renderer-client message of each kind, arriving at any point, including before the handshake ends.
- One unasked reply, to exercise the state checks of the reply handlers.
- Two flushes, so a flush can follow a completed one and race an error.

**`webm_parser`:** `MaxParses = 8`, `MaxFlushes = 2`.
- Eight appends cover an init segment (EBML, Segment, Info/Tracks), a cluster split over two appends, its blocks and a second cluster.
- Two flushes put a flush inside and between clusters.
- The violation run (`webm_segment`) needs only 6 appends and 1 flush.

**`d3d11_decoder`:** `MaxDecodes = 2`, `MaxResets = 2`.
- Two decodes, so one can be pending when a `Reset` aborts it while another completes.
- Two resets, so a reset closure can still be queued when the decoder is destroyed.
- Both threads (`sameThread` either way) are in `Init`.

**`audio_manager`:** three callers, `MaxStreams = 2`.
- Two callers are the fewest that race through the unlocked check, and each registers its own AtExit callback. A third can return the first manager between the two creations, which two callers cannot.
- Two streams let a caller get a second stream from a manager.

**`v4l2_formats`:** one node, `MaxCalls = 2`, `MaxReplugs = 1`.
- One node suffices: the nodes do not interact. Its configurations cover up to two discrete sizes or one stepwise range (V4L2 reports a range only at index 0, alone), a size with no intervals, a zero numerator and a continuous interval before and after a discrete one.
- Two calls let `GetSupportedFormats` follow `GetDeviceDescriptors`, and one unplug puts the removal between them.
- The fourccs are restricted to `YUYV` (known) and `Y16` (unknown). `MJPG` behaves like `YUYV` and only multiplies the states.

### Fairness

The cast model checks only safety. Its `CHECK_DEADLOCK FALSE` is there because the model stops at its time bound or after destruction.

`DecoderSelector` assumes weak fairness of every pending completion and of the posted callback. Both are justified:
- Media decoders and `DecryptingDemuxerStream` always eventually answer `Initialize` and `Stop`.
- MAIN runs every posted task.

The caller's `SelectDecoder`/`Abort` are not forced. The selector stops once its callback has run, hence `CHECK_DEADLOCK FALSE`.

The other modules assume fairness only of what the code relies on:
- **`MediaCodecAudioDecoder`:** WF on `QueueNextInput`, `OnDecodedEos` and `RunPosted`. The codec loop keeps pulling input while it has some, MediaCodec returns an end of stream it was given, and the task runner runs posted tasks.
- **`RemoteRenderer`:** WF on `DataPipeCreated`, `ReceiveRpc` and `RemoteReceive`. The data-pipe callback runs, and the RPC broker delivers messages in both directions. The deletion, the main thread's tasks and the controller's requests are not forced: a renderer may live forever, and the liveness properties allow deletion to end a wait.
- **`D3D11VideoDecoder`:** WF on `ImplRun`, `ImplDecodeDone` and `ClientRun`. Both threads run their posted tasks, and the impl, being a `VideoDecoder`, completes its decodes.
- **`VideoDecoderContract`:** no fairness, but the liveness `Answered`. The decoder's own fairness has to imply it.
- **`AudioManagerLinux`:** no fairness and no liveness property: with three callers a manager a caller holds may never be initialised at all (see hazards), so there is nothing that eventually holds.
- **`V4L2DeviceFactory`:** no fairness and no liveness property. It is called synchronously.
- **`WebMStreamParser`:** no fairness and no liveness property. It is called synchronously.

Each of the models with a bounded client stops once the client has used its bounded calls, hence `CHECK_DEADLOCK FALSE`.

## 4. Findings

**`NoNullCodecLoopDeref`** (`media_codec_audio_decoder.cc:171`).
- `Reset()` calls `codec_loop_->TryFlush()` without checking `codec_loop_`.
- If an earlier `Reset()` found `TryFlush()` failing, `CreateMediaCodecLoop()` has reset `codec_loop_` (line 105) and may fail too. That leaves `codec_loop_` null and the state `STATE_ERROR`.
- The next `Reset()` dereferences null. The comment at line 142 expects the error state to be reached "in DequeueOutput() or Reset()", so a `Reset` after it is an expected call.

**`MediaSegmentAfterConfig`** (`webm_stream_parser.cc:255`).
- An EBML header while a cluster is still open sends the parser back to headers. It neither runs `end_of_segment_cb` nor clears `parsing_cluster_`.
- After the new init segment's `config_cb`, its first cluster finds `parsing_cluster_` set and runs no `new_segment_cb`. Its buffers reach the client inside the old segment.
- The TODO at lines 253-254 (crbug.com/335676) acknowledges that unknown-size clusters are not completed here.

**`ReportedFormatsSound`** (`video_capture_device_factory_linux.cc:142`).
- For a stepwise or continuous frame-size entry, the loop logs NOTIMPLEMENTED and leaves `supported_format.frame_size` as it was. V4L2 reports a stepwise or continuous range only as a format's lone entry, so that is 0x0.
- It still asks for the rates of the entry's `discrete` fields, read through the union, and pushes one format per rate.
- So `GetSupportedFormats` reports a 0x0 size.

`RemoteRendererImpl::Flush` (`remote_renderer_impl.cc:153`) is listed under hazards. If a stream adapter returns no flush count, `flush_cb` is neither kept nor run, and the pipeline waits forever. Whether the adapter does that while PLAYING depends on `RemoteDemuxerStreamAdapter`, which is not in this repository.

## 5. Mutants

Each property of a passing run is broken by one plausible bug in the code it is about:

| Mutant | Bug | Breaks |
|---|---|---|
| `NewTargetPlayoutDelayUnchecked` | `new_playout_delay_ms` is applied without the zero test | `TypeOK` (cast) |
| `RequestEncodedFramePushFront` | the request is queued at the front | `RequestsAnsweredInOrder` |
| `EmitAfterWaitingKeepFlag` | the re-check does not clear the waiting flag | `NoStrandedRequest` |
| `RtpDeltaWidened` | the timestamps are widened before they are subtracted, so a wrap shows as a jump | `PlayoutMonotonic` |
| `ScheduleReportsEveryPacket` | the `reports_are_scheduled_` test is lost | `FeedbackTimersArmedOnce` |
| `SelectDecoderWrongCallback` | the decrypting decoder gets the plain decoders' `DecoderInitDone` callback | `TypeOK` (selector) |
| `RunSelectDecoderCbNoReset` | `Run` instead of `ResetAndReturn` | `SelectCallbackRunsOnce` |
| `InitializeDecoderNoNull` | an exhausted decoder list is not reported | `AbortAlwaysHasTarget` |
| `CompleteIgnoringWeakPtr` | stale completions run | `SelectedDecoderFitsStream` |
| `SelectDecoderNoDecryptorCheck` | an encrypted stream goes to the decrypting decoder without the `set_decryptor_ready_cb_` test | `ImplementsDecoderSelection` |
| `QueueInputNoPop` | the answered buffer is not popped | `TypeOK` (MCAD) |
| `ClearInputQueueKeep` | the queue's callbacks run but the queue is not cleared | `DecodeAnsweredOnce` |
| `ResetDecoderKeepQueue` | `Reset` skips `ClearInputQueue` | `ResetAfterPendingDecodes` |
| `ResetDecoderAlwaysReady` | `Reset` sets READY whether or not the codec came back | `DecoderTracksCodecLoop` |
| `OnMediaCryptoReadyNoFailureCb` | without MediaCrypto, `init_cb` is not run | `InitAnsweredOnce` (MCAD) |
| `IsAnyInputPendingOffByOne` | off by one: the last pending buffer is never offered | `DecodeEventuallyAnswered` |
| `FlushSignalAll` | `SignalFlush` called on absent adapters | `TypeOK` (remote) |
| `OnFatalErrorRepeated` | a second error reports again | `PipelineToldOnce` |
| `OnFatalErrorSkipFlushCb` | a pending `flush_cb` is dropped on error | `ErrorReachesPipeline` |
| `FlushUntilCallbackUnchecked` | the FLUSHING state check is lost | `PlayingOnlyAfterHandshake` |
| `OnDataPipeCreatedNoError` | a failed pipe creation is not reported | `InitEventuallyAnswered` (remote) |
| `DoFlushNoRpc` | `flush_cb_` is kept but `RPC_R_FLUSHUNTIL` is not sent | `FlushEventuallyAnswered` |
| `ReceiveRpcUnretained` | the posted `OnReceivedRpc` is bound unretained, not to the weak pointer | `NoPipelineCallbackAfterDestroy` |
| `RunUpdateInterstitialUnretained` | the posted `UpdateInterstitial` is bound unretained | `DestructorInterstitialStays` |
| `ParseLoopBreakOnZero` | the loop stops on a zero result with data left | `TypeOK` (WebM) |
| `ParseInfoAndTracksInitAlways` | `init_cb` runs again on a later init segment | `ParserContract` |
| `FlushKeepParsingCluster` | `Flush` does not clear `parsing_cluster_` | `SegmentCallbacksNest` |
| `CallImplNoReturn` | the direct call on the GPU thread falls through and the call is posted as well | `ImplementsVideoDecoderContract` |
| `GetAudioManagerCheckAlwaysNew` | the null check on `g_audio_manager` is lost | `TypeOK` (audio) |
| `DestroyAudioManagerLinuxNoReset` | the global is not cleared after the delete | `NoDoubleDelete` |
| `GetSupportedFormatsForV4L2BufferTypeNoSkip` | formats with no pixel format are not skipped | `TypeOK` (V4L2) |
| `GetFrameRateListNoFallback` | no fallback rate 0 for a size with no intervals | `ReportedFormatsComplete` |

## 6. Plan

Modules, in order of importance. Items 1-9 are done.
1. **CastFrameReceiver** (done). Still to add:
   - a run with `NewPlayoutDelay` changes, where reference times go backwards;
   - an abstract in-order delivery spec that FrameReceiver refines.
2. **DecoderSelector** (done).
3. **MediaCodecAudioDecoder** (done). Still to add: `SetCdm` with the CDM registration callback racing destruction.
4. **RemoteRendererImpl** (done). The destructor races RPC replies and interstitial requests. Still to add: the invalid handle passed by `SetVolume` (line 225).
5. **WebMStreamParser** (done).
6. **D3D11VideoDecoder** (done).
7. **AudioManagerLinux** (done). The unlocked `GetAudioManager` race and the AtExit deletion are modelled.
8. **V4L2 device factory** (done). Enumeration, hot-unplug and the stepwise finding are modelled.
9. **VideoDecoderContract** (done for D3D11). Still to add: MediaCodecAudioDecoder as a second implementation, through a refinement mapping from its own variables.

Each of these is checked against a nondeterministic environment. The components do not compose with each other: they interact only through interfaces whose other side is not in this repository.

## 7. Not modelled

- **V4L2 ioctl mechanics.** Buffer types other than capture, the file-descriptor handling, and the `VideoCaptureDeviceLinux` the factory creates.
- **YUV tables.** Constants.
- **Header-only declarations.**
- **Test code.**
- **Byte-level packet and WebM parsing.** Their results are abstracted to well-formed or malformed.
- **Logging and statistics,** including D3D11's UMA reporting.
- **State-free getters** of `D3D11VideoDecoder` (`GetDisplayName`, `CanReadWithoutStalling`, `NeedsBitstreamConversion`, `GetMaxDecodeRequests`).
- **The D3D11 impl's CDM context lifetime.** `cdm_context` is passed raw to the impl (line 124), but the impl is not in this repository.
- **The RemoteRendererImpl interstitial image.** The background image and canvas size are not modelled, only which interstitial was painted last. `GetMediaTime` is a locked read of a time value, and time values are abstracted.
