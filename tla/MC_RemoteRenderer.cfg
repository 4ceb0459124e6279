\* RemoteRendererImpl against a remote that answers every request in order,
\* may send one renderer-client message and one unasked reply, and a
\* controller that may request one interstitial update.
CONSTANTS
  MaxNotifications = 1
  MaxUnexpected = 1
  MaxFlushes = 2
  MaxControls = 1
  MaxInterstitials = 1
SPECIFICATION Spec
INVARIANTS TypeOK PipelineToldOnce ErrorReachesPipeline PlayingOnlyAfterHandshake DestructorInterstitialStays
PROPERTIES InitEventuallyAnswered FlushEventuallyAnswered NoPipelineCallbackAfterDestroy
\* The renderer may stop: the pipeline need not call it again.
CHECK_DEADLOCK FALSE
