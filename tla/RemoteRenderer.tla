---------------------------- MODULE RemoteRenderer ----------------------------
(***************************************************************************)
(* media::RemoteRendererImpl (src/remoting/remote_renderer_impl.cc): the   *)
(* media-thread Renderer that drives a renderer on a remote device over    *)
(* RPC.  Initialize() asks the main thread for data pipes; when they       *)
(* exist it sends RPC_ACQUIRE_RENDERER, then RPC_R_INITIALIZE, and reports *)
(* init_cb when the remote answers.  Flush() sends RPC_R_FLUSHUNTIL and    *)
(* runs flush_cb when RPC_R_FLUSHUNTIL_CALLBACK returns.  Any unexpected   *)
(* or failing reply goes through OnFatalError.                             *)
(*                                                                         *)
(* Messages to the remote go through the main thread's RpcBroker (FIFO,    *)
(* |toRemote|); messages from it are posted back to the media thread       *)
(* (FIFO, |fromRemote|).  The remote answers each request it receives and  *)
(* may also send renderer-client notifications, and -- a bounded number of *)
(* times -- a reply nobody asked for.  The RemoteDemuxerStreamAdapters are *)
(* not in this repository: their SignalFlush(true) may return a count or   *)
(* none.                                                                   *)
(*                                                                         *)
(* The pipeline may delete the renderer at any time.  The destructor       *)
(* paints the BETWEEN_SESSIONS interstitial and posts to the main thread  *)
(* the reset of the controller's show-interstitial callback and the       *)
(* unregistration of its RPC receiver; until those run, the main thread   *)
(* keeps posting interstitial updates and RPCs to the media thread, bound *)
(* to a weak pointer that the deletion has invalidated.                    *)
(***************************************************************************)
EXTENDS Integers, Sequences

CONSTANTS
  MaxNotifications,    \* bound: renderer-client messages the remote sends
  MaxUnexpected,       \* bound: replies the remote sends unasked
  MaxFlushes,          \* bound: Flush() calls
  MaxControls,         \* bound: StartPlayingFrom/SetPlaybackRate/SetVolume/SetCdm calls
  MaxInterstitials     \* bound: interstitial updates the controller requests

States == {"UNINITIALIZED", "CREATE_PIPE", "ACQUIRING", "INITIALIZING",
           "PLAYING", "FLUSHING", "ERROR"}

Streams == {"audio", "video"}

\* RemotingInterstitialType: the destructor's, and the controller's others.
Interstitials == {"BETWEEN_SESSIONS", "IN_SESSION"}

\* The tasks the destructor posts to the main thread.
MainTasks == {"UNSET_INTERSTITIAL_CB", "UNREGISTER_RECEIVER"}

\* Requests to the remote, and the replies that answer them.
Requests == {"ACQUIRE_RENDERER", "R_INITIALIZE", "R_FLUSHUNTIL",
             "R_STARTPLAYINGFROM", "R_SETPLAYBACKRATE", "R_SETVOLUME"}
Replies == {"ACQUIRE_RENDERER_DONE", "R_INITIALIZE_CALLBACK",
            "R_FLUSHUNTIL_CALLBACK", "R_SETCDM_CALLBACK"}
\* Renderer-client messages; "MALFORMED" is one whose required payload is
\* missing (RPC_RC_ONTIMEUPDATE, _ONBUFFERINGSTATECHANGE,
\* _ONVIDEONATURALSIZECHANGE, _ONSTATISTICSUPDATE).
Notifications == {"RC_ONERROR", "RC_ONENDED", "RC_UPDATE", "MALFORMED"}

VARIABLES
  state,               \* state_
  initCbPending,       \* !init_workflow_done_callback_.is_null()
  flushCbPending,      \* !flush_cb_.is_null()
  streams,             \* the demuxer streams the provider has
  adapter,             \* [stream -> a RemoteDemuxerStreamAdapter exists]
  adapterFlushing,     \* [stream -> the adapter was told SignalFlush(true)]
  haveRendererHandle,  \* remote_renderer_handle_ is valid
  pipeRequested,       \* StartDataPipe is posted to the main thread
  toRemote,            \* RPCs on their way to the remote
  fromRemote,          \* RPCs posted back to the media thread
  remoteActive,        \* the remote has a renderer for us (got ACQUIRE)
  notifications,       \* renderer-client messages the remote has sent
  unexpected,          \* unasked replies the remote has sent
  \* The pipeline (the Renderer's client) and what it has been told.
  initCalled,          \* Initialize() was called
  initAnswers,         \* runs of init_cb
  initOk,              \* init_cb reported PIPELINE_OK
  errorReports,        \* runs of client_->OnError
  flushCalls,          \* Flush() calls
  flushAnswers,        \* runs of flush_cb
  controls,            \* StartPlayingFrom/SetPlaybackRate/SetVolume/SetCdm calls
  \* Lifetime, and what outlives the renderer on the main thread.
  destroyed,           \* the renderer was deleted (its weak pointers invalid)
  painted,             \* the interstitial last painted on video_renderer_sink_
  showInterstitialCb,  \* the controller holds our show-interstitial callback
  receiverRegistered,  \* the RpcBroker holds our message receiver
  mainTasks,           \* tasks the destructor posted to the main thread
  interstitialTasks,   \* UpdateInterstitial tasks posted to the media thread
  interstitialRequests \* interstitial updates the controller requested

lifeVars == <<destroyed, painted, showInterstitialCb, receiverRegistered,
              mainTasks, interstitialTasks, interstitialRequests>>

vars == <<state, initCbPending, flushCbPending, streams, adapter, adapterFlushing,
          haveRendererHandle, pipeRequested, toRemote, fromRemote, remoteActive,
          notifications, unexpected, initCalled, initAnswers, initOk,
          errorReports, flushCalls, flushAnswers, controls, lifeVars>>

remoteVars == <<remoteActive, notifications, unexpected>>

\* The variables a handler threads through Rnd.
rendererVars == <<state, initCbPending, flushCbPending, adapter, adapterFlushing,
                  haveRendererHandle, toRemote, initAnswers, initOk,
                  errorReports, flushAnswers>>

-----------------------------------------------------------------------------
(* The renderer's state threaded through a handler and the calls it makes. *)
Rnd == [state |-> state, initCb |-> initCbPending, flushCb |-> flushCbPending,
        adapter |-> adapter, flushing |-> adapterFlushing,
        handle |-> haveRendererHandle, toRemote |-> toRemote,
        initAnswers |-> initAnswers, initOk |-> initOk,
        errors |-> errorReports, flushAnswers |-> flushAnswers]

CommitRnd(r) ==
  /\ state' = r.state
  /\ initCbPending' = r.initCb
  /\ flushCbPending' = r.flushCb
  /\ adapter' = r.adapter
  /\ adapterFlushing' = r.flushing
  /\ haveRendererHandle' = r.handle
  /\ toRemote' = r.toRemote
  /\ initAnswers' = r.initAnswers
  /\ initOk' = r.initOk
  /\ errorReports' = r.errors
  /\ flushAnswers' = r.flushAnswers

\* SendRpcToRemote: posted to the main thread, which sends it in order.
SendRpcToRemote(r, proc) == [r EXCEPT !.toRemote = Append(@, proc)]

\* OnFatalError: the first error is reported once, through init_cb while
\* initialisation is pending, otherwise by running any pending flush_cb and
\* then client_->OnError.
OnFatalErrorRepeated(r) ==
  IF r.initCb
  THEN [r EXCEPT !.state = "ERROR", !.initCb = FALSE, !.initAnswers = @ + 1]
  ELSE [r EXCEPT !.state = "ERROR", !.flushCb = FALSE,
                 !.flushAnswers = IF r.flushCb THEN @ + 1 ELSE @,
                 !.errors = @ + 1]

OnFatalErrorSkipFlushCb(r) ==
  CASE r.state = "ERROR" -> r
    [] r.initCb -> [r EXCEPT !.state = "ERROR", !.initCb = FALSE,
                             !.initAnswers = @ + 1]
    [] OTHER    -> [r EXCEPT !.state = "ERROR", !.errors = @ + 1]

OnFatalError(r) ==
  CASE r.state = "ERROR" -> r
    [] r.initCb -> [r EXCEPT !.state = "ERROR", !.initCb = FALSE,
                             !.initAnswers = @ + 1]
    [] OTHER    -> [r EXCEPT !.state = "ERROR", !.flushCb = FALSE,
                             !.flushAnswers = IF r.flushCb THEN @ + 1 ELSE @,
                             !.errors = @ + 1]

-----------------------------------------------------------------------------
(* Client calls on the media thread.                                        *)

\* Initialize: keeps the client's init_cb, asks the main thread for data
\* pipes for the streams the provider has.
Initialize ==
  /\ ~destroyed /\ ~initCalled
  /\ state = "UNINITIALIZED"
  /\ initCalled' = TRUE
  /\ state' = "CREATE_PIPE"
  /\ initCbPending' = TRUE
  /\ pipeRequested' = TRUE
  /\ UNCHANGED <<flushCbPending, streams, adapter, adapterFlushing,
                 haveRendererHandle, toRemote, fromRemote, remoteVars,
                 initAnswers, initOk, errorReports, flushCalls, flushAnswers,
                 controls, lifeVars>>

\* OnDataPipeCreated, posted back from the main thread with a weak pointer
\* (dropped once the renderer is deleted): an adapter for each
\* stream whose pipe, sender and RPC handle are valid (|ok|); with none,
\* a fatal error; otherwise RPC_ACQUIRE_RENDERER.
OnDataPipeCreatedNoError(r, ok) ==
  LET a == [s \in Streams |-> s \in streams /\ ok[s]]
  IN  IF \A s \in Streams : ~a[s]
      THEN [r EXCEPT !.adapter = a]
      ELSE SendRpcToRemote([r EXCEPT !.adapter = a, !.state = "ACQUIRING"],
                           "ACQUIRE_RENDERER")

OnDataPipeCreated(r, ok) ==
  LET a == [s \in Streams |-> s \in streams /\ ok[s]]
  IN  IF \A s \in Streams : ~a[s]
      THEN OnFatalError([r EXCEPT !.adapter = a])
      ELSE SendRpcToRemote([r EXCEPT !.adapter = a, !.state = "ACQUIRING"],
                           "ACQUIRE_RENDERER")

DataPipeCreated ==
  /\ pipeRequested
  /\ \E ok \in [Streams -> BOOLEAN] :
       CommitRnd(IF destroyed THEN Rnd ELSE OnDataPipeCreated(Rnd, ok))
  /\ pipeRequested' = FALSE
  /\ UNCHANGED <<streams, fromRemote, remoteVars, initCalled, flushCalls,
                 controls, lifeVars>>

\* Flush: only in PLAYING (else the pipeline has had OnError); signals every
\* adapter, and gives up -- still FLUSHING -- unless each adapter returned a
\* count; otherwise keeps flush_cb and sends RPC_R_FLUSHUNTIL.  |count| is
\* which adapters' SignalFlush(true) returned a count.
FlushSignalAll(r, count) ==
  LET f == [s \in Streams |-> r.flushing[s] \/ count[s]]
  IN  CASE r.state # "PLAYING" -> r
        [] \E s \in Streams : r.adapter[s] /\ ~count[s] ->
             [r EXCEPT !.state = "FLUSHING", !.flushing = f]
        [] OTHER ->
             SendRpcToRemote([r EXCEPT !.state = "FLUSHING", !.flushing = f,
                                       !.flushCb = TRUE], "R_FLUSHUNTIL")

DoFlushNoRpc(r, count) ==
  LET f == [s \in Streams |-> r.flushing[s] \/ (r.adapter[s] /\ count[s])]
  IN  CASE r.state # "PLAYING" -> r
        [] \E s \in Streams : r.adapter[s] /\ ~count[s] ->
             [r EXCEPT !.state = "FLUSHING", !.flushing = f]
        [] OTHER ->
             [r EXCEPT !.state = "FLUSHING", !.flushing = f, !.flushCb = TRUE]

DoFlush(r, count) ==
  LET f == [s \in Streams |-> r.flushing[s] \/ (r.adapter[s] /\ count[s])]
  IN  CASE r.state # "PLAYING" -> r
        [] \E s \in Streams : r.adapter[s] /\ ~count[s] ->
             [r EXCEPT !.state = "FLUSHING", !.flushing = f]
        [] OTHER ->
             SendRpcToRemote([r EXCEPT !.state = "FLUSHING", !.flushing = f,
                                       !.flushCb = TRUE], "R_FLUSHUNTIL")

\* The pipeline flushes an initialised renderer, one flush at a time.
Flush ==
  /\ ~destroyed /\ initOk = 1
  /\ flushAnswers = flushCalls
  /\ flushCalls < MaxFlushes
  /\ \E count \in [Streams -> BOOLEAN] : CommitRnd(DoFlush(Rnd, count))
  /\ flushCalls' = flushCalls + 1
  /\ UNCHANGED <<streams, pipeRequested, fromRemote, remoteVars, initCalled,
                 controls, lifeVars>>

\* The fire-and-forget calls: each sends its RPC (StartPlayingFrom and
\* SetPlaybackRate only in PLAYING; SetVolume always).
Control(proc, r) ==
  CASE proc = "R_SETVOLUME" -> SendRpcToRemote(r, proc)
    [] r.state = "PLAYING"  -> SendRpcToRemote(r, proc)
    [] OTHER                -> r

StartPlayingFrom ==
  /\ ~destroyed /\ initOk = 1 /\ flushAnswers = flushCalls /\ controls < MaxControls
  /\ CommitRnd(Control("R_STARTPLAYINGFROM", Rnd))
  /\ controls' = controls + 1
  /\ UNCHANGED <<streams, pipeRequested, fromRemote, remoteVars, initCalled,
                 flushCalls, lifeVars>>

SetPlaybackRate ==
  /\ ~destroyed /\ initOk = 1 /\ controls < MaxControls
  /\ CommitRnd(Control("R_SETPLAYBACKRATE", Rnd))
  /\ controls' = controls + 1
  /\ UNCHANGED <<streams, pipeRequested, fromRemote, remoteVars, initCalled,
                 flushCalls, lifeVars>>

SetVolume ==
  /\ ~destroyed /\ initCalled /\ controls < MaxControls
  /\ CommitRnd(Control("R_SETVOLUME", Rnd))
  /\ controls' = controls + 1
  /\ UNCHANGED <<streams, pipeRequested, fromRemote, remoteVars, initCalled,
                 flushCalls, lifeVars>>

\* SetCdm: the remote CDM is not implemented; cdm_attached_cb runs at once
\* with false and nothing of the renderer changes.
SetCdm ==
  /\ ~destroyed /\ controls < MaxControls
  /\ controls' = controls + 1
  /\ UNCHANGED <<state, initCbPending, flushCbPending, streams, adapter,
                 adapterFlushing, haveRendererHandle, pipeRequested, toRemote,
                 fromRemote, remoteVars, initCalled, initAnswers, initOk,
                 errorReports, flushCalls, flushAnswers, lifeVars>>

-----------------------------------------------------------------------------
(* RPCs from the remote, run on the media thread in arrival order.          *)

\* AcquireRendererDone: expected only while ACQUIRING with init_cb pending;
\* keeps the remote renderer's handle and sends RPC_R_INITIALIZE.
AcquireRendererDone(r) ==
  IF r.state # "ACQUIRING" \/ ~r.initCb
  THEN OnFatalError(r)
  ELSE SendRpcToRemote([r EXCEPT !.handle = TRUE, !.state = "INITIALIZING"],
                       "R_INITIALIZE")

\* InitializeCallback: expected only while INITIALIZING with init_cb
\* pending; a failed remote initialisation is fatal; success runs init_cb.
InitializeCallback(r, success) ==
  CASE r.state # "INITIALIZING" \/ ~r.initCb \/ ~success -> OnFatalError(r)
    [] OTHER -> [r EXCEPT !.state = "PLAYING", !.initCb = FALSE,
                          !.initAnswers = @ + 1, !.initOk = 1]

\* FlushUntilCallback: expected only while FLUSHING with flush_cb pending;
\* back to PLAYING, the adapters told SignalFlush(false), flush_cb run.
FlushUntilCallbackUnchecked(r) ==
  [r EXCEPT !.state = "PLAYING", !.flushCb = FALSE,
            !.flushing = [s \in Streams |-> FALSE],
            !.flushAnswers = IF r.flushCb THEN @ + 1 ELSE @]

FlushUntilCallback(r) ==
  IF r.state # "FLUSHING" \/ ~r.flushCb
  THEN OnFatalError(r)
  ELSE [r EXCEPT !.state = "PLAYING", !.flushCb = FALSE,
                 !.flushing = [s \in Streams |-> FALSE],
                 !.flushAnswers = @ + 1]

\* OnReceivedRpc: the dispatch on the message's procedure.  SETCDM_CALLBACK
\* is NOTIMPLEMENTED; ONENDED and the well-formed client messages only call
\* the client; ONERROR and a malformed client message are fatal.
OnReceivedRpc(r, m) ==
  CASE m.proc = "ACQUIRE_RENDERER_DONE" -> AcquireRendererDone(r)
    [] m.proc = "R_INITIALIZE_CALLBACK" -> InitializeCallback(r, m.ok)
    [] m.proc = "R_FLUSHUNTIL_CALLBACK" -> FlushUntilCallback(r)
    [] m.proc \in {"RC_ONERROR", "MALFORMED"} -> OnFatalError(r)
    [] OTHER -> r

\* OnMessageReceivedOnMainThread posts OnReceivedRpc bound to a weak
\* pointer: once the renderer is deleted the task does nothing.
ReceiveRpcUnretained ==
  /\ fromRemote # <<>>
  /\ CommitRnd(OnReceivedRpc(Rnd, Head(fromRemote)))
  /\ fromRemote' = Tail(fromRemote)
  /\ UNCHANGED <<streams, pipeRequested, remoteVars, initCalled, flushCalls,
                 controls, lifeVars>>

ReceiveRpc ==
  /\ fromRemote # <<>>
  /\ CommitRnd(IF destroyed THEN Rnd ELSE OnReceivedRpc(Rnd, Head(fromRemote)))
  /\ fromRemote' = Tail(fromRemote)
  /\ UNCHANGED <<streams, pipeRequested, remoteVars, initCalled, flushCalls,
                 controls, lifeVars>>

-----------------------------------------------------------------------------
(* The remote receiver, the other end of the RpcBroker.                     *)

\* The RpcBroker hands a message from the remote to our receiver, which
\* posts it to the media thread, until the receiver is unregistered.
Deliver(msgs) == IF receiverRegistered THEN fromRemote \o msgs ELSE fromRemote

\* It answers the requests in order: ACQUIRE_RENDERER, R_INITIALIZE (with
\* success or failure) and R_FLUSHUNTIL get their reply; the rest none.
Answer(proc) ==
  CASE proc = "ACQUIRE_RENDERER" -> {<<[proc |-> "ACQUIRE_RENDERER_DONE", ok |-> TRUE]>>}
    [] proc = "R_INITIALIZE" ->
         {<<[proc |-> "R_INITIALIZE_CALLBACK", ok |-> b]>> : b \in BOOLEAN}
    [] proc = "R_FLUSHUNTIL" -> {<<[proc |-> "R_FLUSHUNTIL_CALLBACK", ok |-> TRUE]>>}
    [] OTHER -> {<<>>}

RemoteReceive ==
  /\ toRemote # <<>>
  /\ \E reply \in Answer(Head(toRemote)) : fromRemote' = Deliver(reply)
  /\ toRemote' = Tail(toRemote)
  /\ remoteActive' = (remoteActive \/ Head(toRemote) = "ACQUIRE_RENDERER")
  /\ UNCHANGED <<state, initCbPending, flushCbPending, streams, adapter,
                 adapterFlushing, haveRendererHandle, pipeRequested,
                 notifications, unexpected, initCalled, initAnswers, initOk,
                 errorReports, flushCalls, flushAnswers, controls, lifeVars>>

\* Once it has a renderer for us, it sends renderer-client messages ...
RemoteNotify ==
  /\ remoteActive /\ notifications < MaxNotifications
  /\ \E n \in Notifications :
       fromRemote' = Deliver(<<[proc |-> n, ok |-> TRUE]>>)
  /\ notifications' = notifications + 1
  /\ UNCHANGED <<state, initCbPending, flushCbPending, streams, adapter,
                 adapterFlushing, haveRendererHandle, pipeRequested, toRemote,
                 remoteActive, unexpected, initCalled, initAnswers, initOk,
                 errorReports, flushCalls, flushAnswers, controls, lifeVars>>

\* ... and, a bounded number of times, a reply to no outstanding request.
RemoteUnexpectedReply ==
  /\ remoteActive /\ unexpected < MaxUnexpected
  /\ \E p \in Replies, b \in BOOLEAN :
       fromRemote' = Deliver(<<[proc |-> p, ok |-> b]>>)
  /\ unexpected' = unexpected + 1
  /\ UNCHANGED <<state, initCbPending, flushCbPending, streams, adapter,
                 adapterFlushing, haveRendererHandle, pipeRequested, toRemote,
                 remoteActive, notifications, initCalled, initAnswers, initOk,
                 errorReports, flushCalls, flushAnswers, controls, lifeVars>>

-----------------------------------------------------------------------------
(* Deletion, and the main thread's tasks that outlive the renderer.        *)

\* UpdateInterstitial: paints the interstitial onto the video sink (the
\* background image and canvas size are abstracted away).
UpdateInterstitial(type) == painted' = type

\* ~RemoteRendererImpl on the media thread: paints BETWEEN_SESSIONS, posts
\* the two main-thread tasks; pending init_cb and flush_cb are dropped.
Destroy ==
  /\ ~destroyed
  /\ destroyed' = TRUE
  /\ UpdateInterstitial("BETWEEN_SESSIONS")
  /\ mainTasks' = mainTasks \o <<"UNSET_INTERSTITIAL_CB", "UNREGISTER_RECEIVER">>
  /\ UNCHANGED <<rendererVars, streams, pipeRequested, fromRemote, remoteVars,
                 initCalled, flushCalls, controls, showInterstitialCb,
                 receiverRegistered, interstitialTasks, interstitialRequests>>

\* The main thread runs the destructor's tasks in order: the controller's
\* callback is reset, then the RpcBroker forgets our receiver.
MainRunTask ==
  /\ mainTasks # <<>>
  /\ IF Head(mainTasks) = "UNSET_INTERSTITIAL_CB"
     THEN showInterstitialCb' = FALSE /\ UNCHANGED receiverRegistered
     ELSE receiverRegistered' = FALSE /\ UNCHANGED showInterstitialCb
  /\ mainTasks' = Tail(mainTasks)
  /\ UNCHANGED <<rendererVars, streams, pipeRequested, fromRemote, remoteVars,
                 initCalled, flushCalls, controls, destroyed, painted,
                 interstitialTasks, interstitialRequests>>

\* RequestUpdateInterstitialOnMainThread: while the controller holds our
\* callback it posts UpdateInterstitial, bound to a weak pointer.
RequestUpdateInterstitialOnMainThread ==
  /\ showInterstitialCb /\ interstitialRequests < MaxInterstitials
  /\ \E type \in Interstitials :
       interstitialTasks' = Append(interstitialTasks, type)
  /\ interstitialRequests' = interstitialRequests + 1
  /\ UNCHANGED <<rendererVars, streams, pipeRequested, fromRemote, remoteVars,
                 initCalled, flushCalls, controls, destroyed, painted,
                 showInterstitialCb, receiverRegistered, mainTasks>>

\* The posted UpdateInterstitial runs on the media thread; after deletion
\* the weak pointer drops it.
RunUpdateInterstitialUnretained ==
  /\ interstitialTasks # <<>>
  /\ UpdateInterstitial(Head(interstitialTasks))
  /\ interstitialTasks' = Tail(interstitialTasks)
  /\ UNCHANGED <<rendererVars, streams, pipeRequested, fromRemote, remoteVars,
                 initCalled, flushCalls, controls, destroyed,
                 showInterstitialCb, receiverRegistered, mainTasks,
                 interstitialRequests>>

RunUpdateInterstitial ==
  /\ interstitialTasks # <<>>
  /\ IF destroyed THEN UNCHANGED painted
                  ELSE UpdateInterstitial(Head(interstitialTasks))
  /\ interstitialTasks' = Tail(interstitialTasks)
  /\ UNCHANGED <<rendererVars, streams, pipeRequested, fromRemote, remoteVars,
                 initCalled, flushCalls, controls, destroyed,
                 showInterstitialCb, receiverRegistered, mainTasks,
                 interstitialRequests>>

Init ==
  /\ state = "UNINITIALIZED"
  /\ initCbPending = FALSE /\ flushCbPending = FALSE
  /\ streams \in SUBSET Streams
  /\ adapter = [s \in Streams |-> FALSE]
  /\ adapterFlushing = [s \in Streams |-> FALSE]
  /\ haveRendererHandle = FALSE
  /\ pipeRequested = FALSE
  /\ toRemote = <<>> /\ fromRemote = <<>>
  /\ remoteActive = FALSE /\ notifications = 0 /\ unexpected = 0
  /\ initCalled = FALSE /\ initAnswers = 0 /\ initOk = 0
  /\ errorReports = 0 /\ flushCalls = 0 /\ flushAnswers = 0 /\ controls = 0
  \* The constructor gave the controller our callback and registered our
  \* RPC receiver.
  /\ destroyed = FALSE /\ painted = "NONE"
  /\ showInterstitialCb = TRUE /\ receiverRegistered = TRUE
  /\ mainTasks = <<>> /\ interstitialTasks = <<>> /\ interstitialRequests = 0

Next ==
  \/ Initialize \/ DataPipeCreated \/ Flush
  \/ StartPlayingFrom \/ SetPlaybackRate \/ SetVolume \/ SetCdm
  \/ ReceiveRpc
  \/ Destroy \/ MainRunTask
  \/ RequestUpdateInterstitialOnMainThread \/ RunUpdateInterstitial
  \/ RemoteReceive \/ RemoteNotify \/ RemoteUnexpectedReply

\* The main thread runs StartDataPipe, the media thread runs what is posted
\* to it, and the remote answers what it receives.
Fairness ==
  /\ WF_vars(DataPipeCreated)
  /\ WF_vars(ReceiveRpc)
  /\ WF_vars(RemoteReceive)

Spec == Init /\ [][Next]_vars /\ Fairness

-----------------------------------------------------------------------------
Messages == [proc : Replies \cup Notifications, ok : BOOLEAN]

\* Types; and only a stream that has an adapter is ever told to flush.
TypeOK ==
  /\ state \in States
  /\ initCbPending \in BOOLEAN /\ flushCbPending \in BOOLEAN
  /\ streams \subseteq Streams
  /\ adapter \in [Streams -> BOOLEAN]
  /\ adapterFlushing \in [Streams -> BOOLEAN]
  /\ \A s \in Streams : adapterFlushing[s] => adapter[s]
  /\ toRemote \in Seq(Requests) /\ fromRemote \in Seq(Messages)
  /\ initAnswers \in Nat /\ initOk \in 0..1 /\ errorReports \in Nat
  /\ flushAnswers \in Nat /\ flushCalls \in Nat
  /\ destroyed \in BOOLEAN /\ painted \in Interstitials \cup {"NONE"}
  /\ showInterstitialCb \in BOOLEAN /\ receiverRegistered \in BOOLEAN
  /\ mainTasks \in Seq(MainTasks) /\ interstitialTasks \in Seq(Interstitials)

\* OnFatalError and the reply handlers tell the pipeline each thing once:
\* init_cb runs at most once, OnError at most once and only after init_cb
\* reported success (before that the error goes through init_cb), and no
\* flush_cb runs without a Flush() it answers.
PipelineToldOnce ==
  /\ initAnswers <= 1
  /\ errorReports <= 1
  /\ errorReports = 1 => initOk = 1
  /\ flushAnswers <= flushCalls

\* Whatever path reached STATE_ERROR -- a failed data pipe, an unexpected or
\* failed reply, RC_ONERROR, a malformed message, in the middle of a flush
\* -- the pipeline has been told of the error exactly once and no flush_cb
\* is left pending.
ErrorReachesPipeline ==
  state = "ERROR" =>
    /\ (IF initAnswers = 1 /\ initOk = 0 THEN 1 ELSE 0) + errorReports = 1
    /\ ~flushCbPending

\* The renderer is PLAYING or FLUSHING only after the whole handshake:
\* adapters exist, RPC_ACQUIRE_RENDERER_DONE gave the remote handle, and
\* init_cb reported success -- however the remote's replies are ordered.
PlayingOnlyAfterHandshake ==
  state \in {"PLAYING", "FLUSHING"} =>
    /\ haveRendererHandle
    /\ initOk = 1
    /\ \E s \in Streams : adapter[s]

\* Initialize() is eventually answered through init_cb: by success or by
\* one of the failures OnDataPipeCreated and the replies can meet -- unless
\* the pipeline deletes the renderer first.
InitEventuallyAnswered == initCalled ~> (initAnswers = 1 \/ destroyed)

\* A Flush() that kept flush_cb and sent RPC_R_FLUSHUNTIL is eventually
\* answered: by RPC_R_FLUSHUNTIL_CALLBACK, or through OnFatalError when an
\* error or an unexpected reply overtakes it -- unless the renderer is
\* deleted first.
FlushEventuallyAnswered == flushCbPending ~> (~flushCbPending \/ destroyed)

\* Once the renderer is deleted the pipeline hears nothing more from it:
\* replies and errors the remote sends before the main thread unregisters
\* the receiver, and a data-pipe callback in flight, are posted to a dead
\* weak pointer.
NoPipelineCallbackAfterDestroy ==
  [][destroyed => UNCHANGED <<initAnswers, initOk, errorReports, flushAnswers>>]_vars

\* The BETWEEN_SESSIONS interstitial the destructor paints stays on the
\* sink: an update the controller requests before the main thread resets
\* its callback, or one already posted, is not painted over it.
DestructorInterstitialStays == destroyed => painted = "BETWEEN_SESSIONS"

====
