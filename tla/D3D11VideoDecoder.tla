-------------------------- MODULE D3D11VideoDecoder --------------------------
(***************************************************************************)
(* media::D3D11VideoDecoder (src/gpu/windows/d3d11_video_decoder.cc): a    *)
(* VideoDecoder whose work is done by a D3D11VideoDecoderImpl living on    *)
(* the GPU thread.  Called on another thread, it posts each call there     *)
(* through |impl_weak_|, and wraps the client's callbacks so that they hop *)
(* back to the calling thread and run only while |weak_factory_| still has *)
(* the decoder (CallbackOnProperThread).  Its destructor hands |impl_| to  *)
(* the GPU thread with DeleteSoon.  Called on the GPU thread itself, it    *)
(* calls |impl_| directly and destroys it at once.                         *)
(*                                                                         *)
(* The impl is not in this repository; it is a VideoDecoder: it answers    *)
(* Initialize, keeps decodes until it completes them in order, and on      *)
(* Reset aborts the pending ones before running the reset closure.         *)
(***************************************************************************)
EXTENDS Integers, Sequences

CONSTANTS
  MaxDecodes,    \* bound: Decode() calls
  MaxResets      \* bound: Reset() calls

\* The configurations Initialize can be given, as what IsPotentiallySupported
\* looks at: whether a feature-level 11.1 device can be created, the
\* profile, the GPU preference enabling zero-copy DXGI video, and the
\* workaround disabling it.
Profiles == {"H264PROFILE_MAIN", "H264PROFILE_HIGH10PROFILE", "VP9PROFILE_PROFILE0"}
H264Profiles == {"H264PROFILE_MAIN", "H264PROFILE_HIGH10PROFILE"}
Configs == [device : BOOLEAN, profile : Profiles, zeroCopy : BOOLEAN,
            disableZeroCopy : BOOLEAN]

\* A callback the client receives: init_cb (with its result), decode_cb (of
\* decode |id|, ok or aborted), the reset closure, and the client's own
\* destruction of the decoder.
Entry == [kind : {"init"}, ok : BOOLEAN] \cup
         [kind : {"decode"}, id : 1..MaxDecodes, ok : BOOLEAN] \cup
         [kind : {"reset", "destroy"}]

\* A call posted to, or made on, the impl.
Call == [kind : {"Initialize"}] \cup [kind : {"Decode"}, id : 1..MaxDecodes] \cup
        [kind : {"Reset", "Delete"}]

VARIABLES
  sameThread,    \* impl_task_runner_->RunsTasksInCurrentSequence()
  alive,         \* the D3D11VideoDecoder exists (its weak_factory_ is valid)
  implAlive,     \* impl_ exists (impl_weak_ is valid)
  toImpl,        \* calls queued for the impl on the GPU thread
  implPending,   \* decodes the impl holds, oldest first
  toClient,      \* wrapped callbacks posted back to the client's thread
  log,           \* the callbacks the client has received, in order
  initCalled,    \* Initialize() was called
  decodes,       \* Decode() calls made
  resets,        \* Reset() calls made
  resetAt        \* history: decodes made before each Reset() call

vars == <<sameThread, alive, implAlive, toImpl, implPending, toClient, log,
          initCalled, decodes, resets, resetAt>>

-----------------------------------------------------------------------------
\* IsPotentiallySupported: a device of feature level 11.1, an H.264 profile
\* other than High 10, zero-copy DXGI video enabled and not disabled by a
\* workaround.
IsPotentiallySupported(c) ==
  /\ c.device
  /\ c.profile \in H264Profiles
  /\ c.profile # "H264PROFILE_HIGH10PROFILE"
  /\ c.zeroCopy
  /\ ~c.disableZeroCopy

\* Callbacks leaving the impl, in order: run directly on the GPU thread, or
\* through BindToCurrentThreadIfWeakPtr, posted to the client's thread.
Deliver(es) ==
  IF sameThread
  THEN /\ log' = log \o es /\ UNCHANGED toClient
  ELSE /\ toClient' = toClient \o es /\ UNCHANGED log

\* The impl handling a call: it answers Initialize either way, keeps a
\* decode, aborts its pending decodes before the reset closure, and is
\* gone after Delete.  A call bound to an invalidated impl_weak_ is dropped.
ImplHandle(c) ==
  CASE ~implAlive ->
         UNCHANGED <<implAlive, implPending, log, toClient>>
    [] c.kind = "Initialize" ->
         /\ \E ok \in BOOLEAN : Deliver(<<[kind |-> "init", ok |-> ok]>>)
         /\ UNCHANGED <<implAlive, implPending>>
    [] c.kind = "Decode" ->
         /\ implPending' = Append(implPending, c.id)
         /\ UNCHANGED <<implAlive, log, toClient>>
    [] c.kind = "Reset" ->
         /\ Deliver([i \in 1..Len(implPending) |->
                       [kind |-> "decode", id |-> implPending[i], ok |-> FALSE]]
                    \o <<[kind |-> "reset"]>>)
         /\ implPending' = <<>>
         /\ UNCHANGED implAlive
    [] c.kind = "Delete" ->
         /\ implAlive' = FALSE
         /\ implPending' = <<>>
         /\ UNCHANGED <<log, toClient>>

\* Mutant: the direct call on the GPU thread does not return, and the call
\* is posted as well.
CallImplNoReturn(c) ==
  IF sameThread
  THEN ImplHandle(c) /\ toImpl' = Append(toImpl, c)
  ELSE /\ toImpl' = Append(toImpl, c)
       /\ UNCHANGED <<implAlive, implPending, log, toClient>>

\* A call from the client: straight into the impl on the GPU thread, else
\* posted there.
CallImpl(c) ==
  IF sameThread
  THEN ImplHandle(c) /\ UNCHANGED toImpl
  ELSE /\ toImpl' = Append(toImpl, c)
       /\ UNCHANGED <<implAlive, implPending, log, toClient>>

-----------------------------------------------------------------------------
\* Initialize: an unsupported configuration is refused at once through
\* init_cb; otherwise the call goes to the impl.
DoInitialize(c) ==
  IF ~IsPotentiallySupported(c)
  THEN /\ log' = Append(log, [kind |-> "init", ok |-> FALSE])
       /\ UNCHANGED <<implAlive, implPending, toImpl, toClient>>
  ELSE CallImpl([kind |-> "Initialize"])

Initialize ==
  /\ alive /\ ~initCalled
  /\ initCalled' = TRUE
  /\ \E c \in Configs : DoInitialize(c)
  /\ UNCHANGED <<sameThread, alive, decodes, resets, resetAt>>

\* The client decodes after a successful initialisation.
Decode ==
  /\ alive /\ decodes < MaxDecodes
  /\ [kind |-> "init", ok |-> TRUE] \in {log[i] : i \in DOMAIN log}
  /\ decodes' = decodes + 1
  /\ CallImpl([kind |-> "Decode", id |-> decodes + 1])
  /\ UNCHANGED <<sameThread, alive, initCalled, resets, resetAt>>

Reset ==
  /\ alive /\ initCalled /\ resets < MaxResets
  /\ resets' = resets + 1
  /\ resetAt' = Append(resetAt, decodes)
  /\ CallImpl([kind |-> "Reset"])
  /\ UNCHANGED <<sameThread, alive, initCalled, decodes>>

\* The destructor: on the GPU thread impl_ goes at once; otherwise it is
\* deleted there after the calls already posted.  Either way the wrapped
\* callbacks lose their weak pointer.
Destroy ==
  /\ alive
  /\ alive' = FALSE
  /\ log' = Append(log, [kind |-> "destroy"])
  /\ IF sameThread
     THEN /\ implAlive' = FALSE /\ implPending' = <<>>
          /\ UNCHANGED toImpl
     ELSE /\ toImpl' = Append(toImpl, [kind |-> "Delete"])
          /\ UNCHANGED <<implAlive, implPending>>
  /\ UNCHANGED <<sameThread, toClient, initCalled, decodes, resets, resetAt>>

-----------------------------------------------------------------------------
\* The GPU thread runs the next posted call.
ImplRun ==
  /\ toImpl # <<>>
  /\ toImpl' = Tail(toImpl)
  /\ ImplHandle(Head(toImpl))
  /\ UNCHANGED <<sameThread, alive, initCalled, decodes, resets, resetAt>>

\* The impl completes its oldest decode, with its frame, successfully.
ImplDecodeDone ==
  /\ implAlive /\ implPending # <<>>
  /\ Deliver(<<[kind |-> "decode", id |-> Head(implPending), ok |-> TRUE]>>)
  /\ implPending' = Tail(implPending)
  /\ UNCHANGED <<sameThread, alive, implAlive, toImpl, initCalled, decodes,
                 resets, resetAt>>

\* CallbackOnProperThread, run on the client's thread: the callback runs
\* only if the decoder's weak pointer is still valid.
CallbackOnProperThread(e) ==
  log' = IF alive THEN Append(log, e) ELSE log

ClientRun ==
  /\ toClient # <<>>
  /\ toClient' = Tail(toClient)
  /\ CallbackOnProperThread(Head(toClient))
  /\ UNCHANGED <<sameThread, alive, implAlive, toImpl, implPending, initCalled,
                 decodes, resets, resetAt>>

Init ==
  /\ sameThread \in BOOLEAN
  /\ alive = TRUE /\ implAlive = TRUE
  /\ toImpl = <<>> /\ implPending = <<>> /\ toClient = <<>>
  /\ log = <<>>
  /\ initCalled = FALSE /\ decodes = 0 /\ resets = 0 /\ resetAt = <<>>

Next ==
  \/ Initialize \/ Decode \/ Reset \/ Destroy
  \/ ImplRun \/ ImplDecodeDone \/ ClientRun

\* Both threads run what is posted to them; the impl completes its decodes.
Spec == Init /\ [][Next]_vars
          /\ WF_vars(ImplRun) /\ WF_vars(ImplDecodeDone) /\ WF_vars(ClientRun)

-----------------------------------------------------------------------------
\* The decoder implements the VideoDecoder contract: the client's calls and
\* the callbacks it receives, whether the decoder runs on the GPU thread or
\* hops to it, form a behaviour of VideoDecoderContract -- one init_cb,
\* decode_cbs once each and in order, a reset closure only after the
\* decodes made before it, nothing after destruction, and every call
\* eventually answered while the decoder lives.
Contract == INSTANCE VideoDecoderContract
ImplementsVideoDecoderContract == Contract!Spec

====
