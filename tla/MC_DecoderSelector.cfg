\* Two plain decoders after the decrypting one; Abort() may be called twice,
\* so a second Abort() can invalidate the first one's Stop() callback.
CONSTANTS
  D1 = D1
  D2 = D2
  DecryptingDecoder = DecryptingDecoder
  None = None
  DecoderList <- MCDecoderList
  MaxAborts = 2
SPECIFICATION Spec
INVARIANTS TypeOK SelectCallbackRunsOnce AbortAlwaysHasTarget SelectedDecoderFitsStream
PROPERTIES ImplementsDecoderSelection
\* The selector is done once the caller's callback has run (or if it is never
\* asked to select): it really stops.
CHECK_DEADLOCK FALSE
