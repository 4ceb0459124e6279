--------------------------- MODULE DecoderSelector ---------------------------
(***************************************************************************)
(* media::DecoderSelector<StreamType> (src/filters/decoder_selector.cc):   *)
(* picks the first decoder of a list whose asynchronous Initialize()       *)
(* succeeds.  For an encrypted stream it first tries a decrypting decoder, *)
(* and when that fails, wraps the stream in a DecryptingDemuxerStream and  *)
(* tries the plain decoders on the decrypted stream.  Abort() invalidates  *)
(* the weak pointers bound into every pending callback and stops whatever  *)
(* is being initialised.                                                   *)
(*                                                                         *)
(* Every callback runs on the selector's task runner: the decoders'        *)
(* Initialize/Stop completions arrive later as separate steps, and         *)
(* select_decoder_cb_ (wrapped by BindToCurrentLoop) is posted, so it runs *)
(* as a step of its own.                                                   *)
(***************************************************************************)
EXTENDS Integers, Sequences

CONSTANTS
  DecoderList,         \* the decoders_ handed to the constructor, in order
  DecryptingDecoder,   \* the StreamTraits::DecryptingDecoderType instance
  None,                \* a null scoped_ptr
  MaxAborts            \* bound: Abort() calls

ASSUME
  /\ DecryptingDecoder \notin {DecoderList[i] : i \in DOMAIN DecoderList}
  /\ None \notin {DecoderList[i] : i \in DOMAIN DecoderList} \cup {DecryptingDecoder}
  /\ MaxAborts \in Nat

PlainDecoders == {DecoderList[i] : i \in DOMAIN DecoderList}
Decoders == PlainDecoders \cup {DecryptingDecoder}

\* The callbacks the selector binds with a weak pointer.
Callbacks == {"DecryptingDecoderInitDone", "DecryptingDemuxerStreamInitDone",
              "DecoderInitDone", "ReturnNullDecoder"}

VARIABLES
  streamValid,         \* HasValidStreamConfig(stream)
  streamEncrypted,     \* IsStreamEncrypted(stream)
  hasDecryptorCb,      \* !set_decryptor_ready_cb_.is_null()
  called,              \* SelectDecoder() has been called
  decoders,            \* decoders_ still untried
  decoder,             \* decoder_
  decryptedStream,     \* decrypted_stream_ is non-null
  inputDecrypted,      \* input_stream_ is the decrypted stream
  selectCbPending,     \* !select_decoder_cb_.is_null()
  generation,          \* weak_ptr_factory_ generation (InvalidateWeakPtrs)
  inflight,            \* pending completions: [cb, gen, status]
  posted,              \* select_decoder_cb_ runs posted by BindToCurrentLoop
  results,             \* what the caller's callback received, in order
  aborts,              \* Abort() calls so far
  abortedWhileSelecting, \* Abort() found select_decoder_cb_ non-null
  initialized          \* decoders whose Initialize() reported PIPELINE_OK

vars == <<streamValid, streamEncrypted, hasDecryptorCb, called, decoders,
          decoder, decryptedStream, inputDecrypted, selectCbPending,
          generation, inflight, posted, results, aborts,
          abortedWhileSelecting, initialized>>

-----------------------------------------------------------------------------
(* The selector's own state, threaded through the nested calls of a step. *)
Sel == [decoders |-> decoders, decoder |-> decoder, stream |-> decryptedStream,
        input |-> inputDecrypted, cb |-> selectCbPending, inflight |-> inflight,
        posted |-> posted]

Commit(s) ==
  /\ decoders' = s.decoders
  /\ decoder' = s.decoder
  /\ decryptedStream' = s.stream
  /\ inputDecrypted' = s.input
  /\ selectCbPending' = s.cb
  /\ inflight' = s.inflight
  /\ posted' = s.posted

\* Mutant: select_decoder_cb_.Run() without resetting it first.
RunSelectDecoderCbNoReset(s, d, withStream) ==
  [s EXCEPT !.posted = Append(@, [decoder |-> d, stream |-> withStream])]

\* base::ResetAndReturn(&select_decoder_cb_).Run(decoder, stream): the
\* callback is bound to the current loop, so its run is posted.
RunSelectDecoderCb(s, d, withStream) ==
  [s EXCEPT !.cb = FALSE,
            !.posted = Append(@, [decoder |-> d, stream |-> withStream])]

ReturnNullDecoder(s) == RunSelectDecoderCb(s, None, FALSE)

\* DoInitializeDecoder(cb): decoder_->Initialize(config, cb) with cb bound
\* to the current weak pointer; the decoder answers later.
DoInitializeDecoder(s, cb) ==
  [s EXCEPT !.inflight = @ \cup {[cb |-> cb, gen |-> generation, on |-> s.decoder]}]

\* Mutant: an exhausted decoder list forgets to report the null decoder.
InitializeDecoderNoNull(s) ==
  IF s.decoders = <<>> THEN s
  ELSE DoInitializeDecoder([s EXCEPT !.decoder = Head(s.decoders),
                                     !.decoders = Tail(@)],
                           "DecoderInitDone")

InitializeDecoder(s) ==
  IF s.decoders = <<>> THEN ReturnNullDecoder(s)
  ELSE DoInitializeDecoder([s EXCEPT !.decoder = Head(s.decoders),
                                     !.decoders = Tail(@)],
                           "DecoderInitDone")

\* Mutant: the decrypting decoder is initialised with the DecoderInitDone
\* callback meant for the plain decoders.
SelectDecoderWrongCallback ==
  /\ ~called
  /\ called' = TRUE
  /\ LET s == [Sel EXCEPT !.cb = TRUE] IN
     Commit(CASE ~streamValid     -> ReturnNullDecoder(s)
              [] ~streamEncrypted -> InitializeDecoder(s)
              [] ~hasDecryptorCb  -> ReturnNullDecoder(s)
              [] OTHER -> DoInitializeDecoder([s EXCEPT !.decoder = DecryptingDecoder],
                                              "DecoderInitDone"))
  /\ UNCHANGED <<streamValid, streamEncrypted, hasDecryptorCb, generation,
                 results, aborts, abortedWhileSelecting, initialized>>

\* Mutant: an encrypted stream is tried on the decrypting decoder without
\* the set_decryptor_ready_cb_ test.
SelectDecoderNoDecryptorCheck ==
  /\ ~called
  /\ called' = TRUE
  /\ LET s == [Sel EXCEPT !.cb = TRUE] IN
     Commit(CASE ~streamValid     -> ReturnNullDecoder(s)
              [] ~streamEncrypted -> InitializeDecoder(s)
              [] OTHER -> DoInitializeDecoder([s EXCEPT !.decoder = DecryptingDecoder],
                                              "DecryptingDecoderInitDone"))
  /\ UNCHANGED <<streamValid, streamEncrypted, hasDecryptorCb, generation,
                 results, aborts, abortedWhileSelecting, initialized>>

SelectDecoder ==
  /\ ~called
  /\ called' = TRUE
  /\ LET s == [Sel EXCEPT !.cb = TRUE] IN
     Commit(CASE ~streamValid     -> ReturnNullDecoder(s)
              [] ~streamEncrypted -> InitializeDecoder(s)
              [] ~hasDecryptorCb  -> ReturnNullDecoder(s)
              [] OTHER -> DoInitializeDecoder([s EXCEPT !.decoder = DecryptingDecoder],
                                              "DecryptingDecoderInitDone"))
  /\ UNCHANGED <<streamValid, streamEncrypted, hasDecryptorCb, generation,
                 results, aborts, abortedWhileSelecting, initialized>>

\* Abort: nothing to do unless select_decoder_cb_ is pending; otherwise
\* invalidate the weak pointers and Stop() the decoder, or else the
\* decrypted stream, with ReturnNullDecoder as the (fresh) callback.
Abort ==
  /\ aborts < MaxAborts
  /\ aborts' = aborts + 1
  /\ IF ~selectCbPending
     THEN UNCHANGED <<generation, inflight, abortedWhileSelecting>>
     ELSE /\ generation' = generation + 1
          /\ abortedWhileSelecting' = TRUE
          /\ inflight' = inflight \cup
                {[cb |-> "ReturnNullDecoder", gen |-> generation + 1,
                  on |-> IF decoder # None THEN decoder ELSE "DecryptingDemuxerStream"]}
  /\ UNCHANGED <<streamValid, streamEncrypted, hasDecryptorCb, called, decoders,
                 decoder, decryptedStream, inputDecrypted, selectCbPending,
                 posted, results, initialized>>

DecryptingDecoderInitDone(s, ok) ==
  IF ok THEN [RunSelectDecoderCb(s, s.decoder, FALSE) EXCEPT !.decoder = None]
  ELSE [s EXCEPT !.decoder = None, !.stream = TRUE,
                 !.inflight = @ \cup {[cb |-> "DecryptingDemuxerStreamInitDone",
                                       gen |-> generation,
                                       on |-> "DecryptingDemuxerStream"]}]

DecryptingDemuxerStreamInitDone(s, ok) ==
  IF ~ok THEN ReturnNullDecoder(s)
  ELSE InitializeDecoder([s EXCEPT !.input = TRUE])

DecoderInitDone(s, ok) ==
  IF ~ok THEN InitializeDecoder([s EXCEPT !.decoder = None])
  ELSE [RunSelectDecoderCb(s, s.decoder, s.stream) EXCEPT !.decoder = None,
                                                          !.stream = FALSE]

\* Mutant: completions run whatever the weak pointer's generation.
CompleteIgnoringWeakPtr(r, ok) ==
  /\ r \in inflight
  /\ ok \in IF r.cb = "ReturnNullDecoder" THEN {TRUE} ELSE BOOLEAN
  /\ LET s == [Sel EXCEPT !.inflight = @ \ {r}] IN
     /\ Commit(CASE r.cb = "DecryptingDecoderInitDone"       -> DecryptingDecoderInitDone(s, ok)
                  [] r.cb = "DecryptingDemuxerStreamInitDone" -> DecryptingDemuxerStreamInitDone(s, ok)
                  [] r.cb = "DecoderInitDone"                 -> DecoderInitDone(s, ok)
                  [] r.cb = "ReturnNullDecoder"               -> ReturnNullDecoder(s))
     /\ initialized' = IF ok /\ r.cb \in {"DecryptingDecoderInitDone", "DecoderInitDone"}
                       THEN initialized \cup {r.on} ELSE initialized
  /\ UNCHANGED <<streamValid, streamEncrypted, hasDecryptorCb, called,
                 generation, results, aborts, abortedWhileSelecting>>

\* A decoder or the decrypting stream completes a pending Initialize() or
\* Stop() with |ok|; a callback whose weak pointer was invalidated is
\* dropped without running.
Complete(r, ok) ==
  /\ r \in inflight
  /\ ok \in IF r.cb = "ReturnNullDecoder" THEN {TRUE} ELSE BOOLEAN
  /\ LET s == [Sel EXCEPT !.inflight = @ \ {r}] IN
     IF r.gen # generation
     THEN /\ Commit(s)
          /\ UNCHANGED initialized
     ELSE /\ Commit(CASE r.cb = "DecryptingDecoderInitDone"       -> DecryptingDecoderInitDone(s, ok)
                      [] r.cb = "DecryptingDemuxerStreamInitDone" -> DecryptingDemuxerStreamInitDone(s, ok)
                      [] r.cb = "DecoderInitDone"                 -> DecoderInitDone(s, ok)
                      [] r.cb = "ReturnNullDecoder"               -> ReturnNullDecoder(s))
          /\ initialized' = IF ok /\ r.cb \in {"DecryptingDecoderInitDone", "DecoderInitDone"}
                            THEN initialized \cup {r.on} ELSE initialized
  /\ UNCHANGED <<streamValid, streamEncrypted, hasDecryptorCb, called,
                 generation, results, aborts, abortedWhileSelecting>>

\* The posted select_decoder_cb_ runs the caller's callback.
DeliverSelectDecoderCb ==
  /\ posted # <<>>
  /\ results' = Append(results, Head(posted))
  /\ posted' = Tail(posted)
  /\ UNCHANGED <<streamValid, streamEncrypted, hasDecryptorCb, called, decoders,
                 decoder, decryptedStream, inputDecrypted, selectCbPending,
                 generation, inflight, aborts, abortedWhileSelecting, initialized>>

\* Any stream the caller can hand over: valid or not, clear or encrypted,
\* with or without EME (set_decryptor_ready_cb_).
Init ==
  /\ streamValid \in BOOLEAN
  /\ streamEncrypted \in BOOLEAN
  /\ hasDecryptorCb \in BOOLEAN
  /\ called = FALSE
  /\ decoders = DecoderList
  /\ decoder = None
  /\ decryptedStream = FALSE
  /\ inputDecrypted = FALSE
  /\ selectCbPending = FALSE
  /\ generation = 0
  /\ inflight = {}
  /\ posted = <<>>
  /\ results = <<>>
  /\ aborts = 0
  /\ abortedWhileSelecting = FALSE
  /\ initialized = {}

Next ==
  \/ SelectDecoder
  \/ Abort
  \/ \E r \in inflight, ok \in BOOLEAN : Complete(r, ok)
  \/ DeliverSelectDecoderCb

\* Decoders and streams answer Initialize/Stop eventually, and posted tasks
\* run; the caller's SelectDecoder and Abort are not forced.
Fairness ==
  /\ \A r \in [cb : Callbacks, gen : 0 .. MaxAborts, on : Decoders \cup {"DecryptingDemuxerStream"}] :
       WF_vars(\E ok \in BOOLEAN : Complete(r, ok))
  /\ WF_vars(DeliverSelectDecoderCb)

Spec == Init /\ [][Next]_vars /\ Fairness

-----------------------------------------------------------------------------
Targets == Decoders \cup {"DecryptingDemuxerStream"}

\* Which object each bound callback waits on.
CallbackTarget ==
  [c \in Callbacks |->
     CASE c = "DecryptingDecoderInitDone"       -> {DecryptingDecoder}
       [] c = "DecryptingDemuxerStreamInitDone" -> {"DecryptingDemuxerStream"}
       [] c = "DecoderInitDone"                 -> PlainDecoders
       [] c = "ReturnNullDecoder"               -> Targets]
Result == [decoder : Decoders \cup {None}, stream : BOOLEAN]

\* The selector's variables have their types, and each pending callback
\* was bound for the kind of object that will answer it.
TypeOK ==
  /\ {streamValid, streamEncrypted, hasDecryptorCb, called, decryptedStream,
      inputDecrypted, selectCbPending, abortedWhileSelecting} \subseteq BOOLEAN
  /\ decoders \in Seq(PlainDecoders)
  /\ decoder \in Decoders \cup {None}
  /\ generation \in 0 .. MaxAborts
  /\ inflight \subseteq [cb : Callbacks, gen : 0 .. MaxAborts, on : Targets]
  /\ \A r \in inflight : r.on \in CallbackTarget[r.cb]
  /\ posted \in Seq(Result) /\ results \in Seq(Result)
  /\ aborts \in 0 .. MaxAborts
  /\ initialized \subseteq Decoders

\* select_decoder_cb_ runs exactly once per SelectDecoder(): it is posted
\* precisely when the selector stops holding it, and never again, however
\* stale Initialize() completions and Abort()'s Stop() callbacks interleave.
SelectCallbackRunsOnce ==
  /\ Len(results) + Len(posted) <= 1
  /\ (Len(results) + Len(posted) = 1) <=> (called /\ ~selectCbPending)

\* Whenever select_decoder_cb_ is pending, Abort() has something to Stop():
\* the decoder_ being initialised or the decrypted_stream_ (the NOTREACHED()
\* at the end of Abort() is unreachable).
AbortAlwaysHasTarget ==
  selectCbPending => (decoder # None \/ decryptedStream)

\* A decoder handed to the caller finished Initialize() with PIPELINE_OK, was
\* not selected across an Abort(), and matches the stream: an encrypted
\* stream gets either the decrypting decoder or a plain decoder together with
\* the DecryptingDemuxerStream it was initialised on; a clear stream gets a
\* plain decoder and no stream.
SelectedDecoderFitsStream ==
  \A i \in 1 .. Len(results \o posted) :
    LET r == (results \o posted)[i] IN
    /\ r.stream => r.decoder # None
    /\ r.decoder # None =>
         /\ r.decoder \in initialized
         /\ ~abortedWhileSelecting
         /\ IF streamEncrypted
            THEN (r.decoder = DecryptingDecoder) # r.stream
            ELSE r.decoder # DecryptingDecoder

\* The selector implements DecoderSelection: mapped to the phase of the
\* selection and the result on its way to the caller, every step of
\* SelectDecoder, Abort, the decoders' completions (stale ones included) and
\* the posted callback is a step of the abstract selection or leaves it
\* alone; so the caller gets exactly one result, eventually, and a decoder
\* only for a valid stream with a usable decryptor, never after an Abort().
Selection == INSTANCE DecoderSelection WITH
  Plain <- PlainDecoders,
  Decrypting <- DecryptingDecoder,
  valid <- streamValid,
  encrypted <- streamEncrypted,
  hasDecryptor <- hasDecryptorCb,
  phase <- CASE ~called        -> "idle"
             [] selectCbPending -> "selecting"
             [] posted # <<>>   -> "decided"
             [] OTHER           -> "done",
  aborted <- abortedWhileSelecting,
  outcome <- IF results \o posted = <<>> THEN [decoder |-> None, stream |-> FALSE]
             ELSE Head(results \o posted)

ImplementsDecoderSelection == Selection!Spec

=============================================================================
