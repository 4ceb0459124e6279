--------------------------- MODULE WebMStreamParser ---------------------------
(***************************************************************************)
(* media::WebMStreamParser (src/formats/webm/webm_stream_parser.cc): the   *)
(* parser Media Source Extensions feed appended WebM bytes into.  Parse()  *)
(* pushes the bytes on |byte_queue_| and loops: in kParsingHeaders it      *)
(* skips header elements until Info+Tracks, runs config_cb (and init_cb    *)
(* the first time) and moves to kParsingClusters; there it hands clusters  *)
(* to the WebMClusterParser and runs new_segment_cb, new_buffers_cb and    *)
(* end_of_segment_cb.  An EBML header among the clusters moves it back to  *)
(* kParsingHeaders.  Flush() drops the queued bytes and the cluster state. *)
(*                                                                         *)
(* Data is abstracted to top-level elements: a token is the element's ID   *)
(* class, and |whole| says whether all of its bytes are queued (its header *)
(* always is).  WebMClusterParser is not in this repository: what it       *)
(* returns for a token is a choice among the outcomes its contract allows. *)
(* The client's callbacks are recorded, in order, in |log|.                *)
(***************************************************************************)
EXTENDS Integers, Sequences, SequencesExt

CONSTANTS
  MaxParses,     \* bound: Parse() calls
  MaxFlushes     \* bound: Flush() calls

States == {"kWaitingForInit", "kParsingHeaders", "kParsingClusters", "kError"}

\* Top-level element classes: the EBML header; a Cues/Chapters element (skipped
\* in either state); the Segment header; Info followed by Tracks; a Cluster's
\* header with its first blocks; a further block of an open cluster; the last
\* block of a known-size cluster; an ID nothing accepts.
Tokens == {"EBML", "SKIP", "SEGMENT", "INFO", "CLUSTER", "BLOCK",
           "LASTBLOCK", "JUNK"}
\* Elements that are complete with their header alone.
HeaderOnly == {"SEGMENT", "JUNK"}

\* What the client is told: init_cb, config_cb, new_segment_cb,
\* new_buffers_cb, end_of_segment_cb, and Parse() returning false.
Callbacks == {"init", "config", "new", "buffers", "end", "error"}

VARIABLES
  state,            \* state_
  parsingCluster,   \* parsing_cluster_
  clusterParser,    \* cluster_parser_: "none", or "idle"/"open" in a cluster
  byteQueue,        \* byte_queue_, as tokens [tok, whole]
  initCbPending,    \* !init_cb_.is_null()
  log,              \* the callbacks the client has seen, with "flush"
  parses,           \* Parse() calls made
  flushes           \* Flush() calls made

vars == <<state, parsingCluster, clusterParser, byteQueue, initCbPending, log,
          parses, flushes>>

-----------------------------------------------------------------------------
(* One pass of the loop works on the parser's state as a record            *)
(* [state, pc, cp, queue, init, log]; a step returns the set of records    *)
(* its environment allows, with |res| the byte count the callee returned   *)
(* (-1 error, 0 need more data, 1 the head token consumed).                *)

P == [state |-> state, pc |-> parsingCluster, cp |-> clusterParser,
      queue |-> byteQueue, init |-> initCbPending, log |-> log, res |-> 0]

Emit(p, cb) == [p EXCEPT !.log = Append(@, cb)]
Res(p, r) == [p EXCEPT !.res = r]

\* ParseInfoAndTracks on the head token: header elements are skipped once
\* complete, the Segment header is consumed, Info+Tracks gives config_cb
\* (which may refuse it), a new cluster parser, kParsingClusters and, if
\* pending, init_cb; any other ID is an error.
ParseInfoAndTracksInitAlways(p, t) ==
  CASE t.tok \in {"EBML", "SKIP"} -> {Res(p, IF t.whole THEN 1 ELSE 0)}
    [] t.tok = "SEGMENT" -> {Res(p, 1)}
    [] t.tok = "INFO" /\ ~t.whole -> {Res(p, 0)}
    [] t.tok = "INFO" ->
         {Res(Emit(p, "config"), -1)} \cup
         {Res([Emit(Emit(p, "config"), "init")
                 EXCEPT !.cp = "idle", !.state = "kParsingClusters",
                        !.init = FALSE], 1)}
    [] OTHER -> {Res(p, -1)}

ParseInfoAndTracks(p, t) ==
  CASE t.tok \in {"EBML", "SKIP"} -> {Res(p, IF t.whole THEN 1 ELSE 0)}
    [] t.tok = "SEGMENT" -> {Res(p, 1)}
    [] t.tok = "INFO" /\ ~t.whole -> {Res(p, 0)}
    [] t.tok = "INFO" ->
         {Res(Emit(p, "config"), -1)} \cup
         {Res(LET q == [Emit(p, "config") EXCEPT !.cp = "idle",
                                                 !.state = "kParsingClusters"]
              IN  IF p.init THEN [Emit(q, "init") EXCEPT !.init = FALSE] ELSE q,
              1)}
    [] OTHER -> {Res(p, -1)}

\* WebMClusterParser::Parse on a token, as [res, buffers, ended, cp]: it
\* needs a token's bytes before it consumes it, starts a cluster on a
\* Cluster ID (one still open may be rejected or left behind), takes blocks
\* only inside a cluster, ends a known-size cluster at its last block, and
\* rejects every other ID.
ClusterParse(cp, t) ==
  LET R(r, b, e, c) == [res |-> r, buffers |-> b, ended |-> e, cp |-> c]
  IN  CASE ~t.whole -> {R(0, FALSE, FALSE, cp)}
        [] t.tok = "CLUSTER" ->
             {R(1, b, FALSE, "open") : b \in BOOLEAN}
             \cup (IF cp = "open" THEN {R(-1, FALSE, FALSE, cp)} ELSE {})
        [] t.tok = "BLOCK" /\ cp = "open" -> {R(1, TRUE, FALSE, "open")}
        [] t.tok = "LASTBLOCK" /\ cp = "open" -> {R(1, TRUE, TRUE, "idle")}
        [] OTHER -> {R(-1, FALSE, FALSE, cp)}

\* ParseCluster's handling of what the cluster parser consumed: a Cluster
\* ID announces a new segment unless one is being parsed; buffers go to
\* new_buffers_cb (which may refuse them); an ended cluster ends the segment.
AfterCluster(p, t, o) ==
  LET q1 == IF t.tok = "CLUSTER" /\ ~p.pc
            THEN [Emit(p, "new") EXCEPT !.pc = TRUE] ELSE p
      q2 == [q1 EXCEPT !.cp = o.cp]
  IN  IF o.buffers
      THEN {Res(Emit(q2, "buffers"), -1)} \cup
           {Res(IF o.ended THEN [Emit(Emit(q2, "buffers"), "end")
                                   EXCEPT !.pc = FALSE]
                ELSE Emit(q2, "buffers"), 1)}
      ELSE {Res(IF o.ended THEN [Emit(q2, "end") EXCEPT !.pc = FALSE]
                ELSE q2, 1)}

\* ParseCluster on the head token.
ParseCluster(p, t) ==
  CASE p.cp = "none" -> {Res(p, -1)}
    [] t.tok = "SKIP" -> {Res(p, IF t.whole THEN 1 ELSE 0)}
    [] t.tok = "EBML" -> {Res([p EXCEPT !.state = "kParsingHeaders"], 0)}
    [] OTHER ->
         UNION {IF o.res <= 0 THEN {Res([p EXCEPT !.cp = o.cp], o.res)}
                ELSE AfterCluster(p, t, o) : o \in ClusterParse(p.cp, t)}

\* The while loop of Parse(): run the state's parser on the head token; an
\* error moves to kError and returns false; no progress in an unchanged
\* state leaves the rest queued and returns true; otherwise the consumed
\* bytes are dropped and the loop goes on.
RECURSIVE ParseLoopBreakOnZero(_)
ParseLoopBreakOnZero(p) ==
  IF p.queue = <<>> THEN {p}
  ELSE LET t == Head(p.queue)
           outs == IF p.state = "kParsingHeaders" THEN ParseInfoAndTracks(p, t)
                   ELSE ParseCluster(p, t)
       IN  UNION {CASE o.res < 0 -> {Emit([o EXCEPT !.state = "kError"], "error")}
                    [] o.res = 0 -> {o}
                    [] OTHER -> ParseLoopBreakOnZero([o EXCEPT !.queue = Tail(@)])
                  : o \in outs}

RECURSIVE ParseLoop(_)
ParseLoop(p) ==
  IF p.queue = <<>> THEN {p}
  ELSE LET t == Head(p.queue)
           outs == IF p.state = "kParsingHeaders" THEN ParseInfoAndTracks(p, t)
                   ELSE ParseCluster(p, t)
       IN  UNION {CASE o.res < 0 -> {Emit([o EXCEPT !.state = "kError"], "error")}
                    [] o.res = 0 /\ o.state = p.state -> {o}
                    [] OTHER -> ParseLoop(IF o.res = 1
                                          THEN [o EXCEPT !.queue = Tail(@)]
                                          ELSE o) : o \in outs}

CommitP(p) ==
  /\ state' = p.state
  /\ parsingCluster' = p.pc
  /\ clusterParser' = p.cp
  /\ byteQueue' = p.queue
  /\ initCbPending' = p.init
  /\ log' = p.log

-----------------------------------------------------------------------------
\* Init: keeps the callbacks and starts parsing headers.
Init_ ==
  /\ state = "kWaitingForInit"
  /\ state' = "kParsingHeaders"
  /\ initCbPending' = TRUE
  /\ UNCHANGED <<parsingCluster, clusterParser, byteQueue, log, parses, flushes>>

\* The next bytes the client appends: the rest of a partly queued element,
\* or a new element, whole or only its first bytes.
Appends(q) ==
  IF q # <<>> /\ ~Last(q).whole
  THEN {[q EXCEPT ![Len(q)].whole = TRUE]}
  ELSE UNION {{Append(q, [tok |-> t, whole |-> w]) :
                 w \in IF t \in HeaderOnly THEN {TRUE} ELSE BOOLEAN} : t \in Tokens}

\* Parse: false at once in kError; otherwise push the bytes and loop.
Parse ==
  /\ state # "kWaitingForInit"
  /\ parses < MaxParses
  /\ parses' = parses + 1
  /\ IF state = "kError"
     THEN /\ log' = Append(log, "error")
          /\ UNCHANGED <<state, parsingCluster, clusterParser, byteQueue,
                         initCbPending>>
     ELSE \E q \in Appends(byteQueue) :
            \E r \in ParseLoop([P EXCEPT !.queue = q]) : CommitP(r)
  /\ UNCHANGED flushes

FlushKeepParsingCluster ==
  /\ state # "kWaitingForInit"
  /\ flushes < MaxFlushes
  /\ flushes' = flushes + 1
  /\ byteQueue' = <<>>
  /\ clusterParser' = IF state = "kParsingClusters" THEN "idle" ELSE clusterParser
  /\ log' = Append(log, "flush")
  /\ UNCHANGED <<state, parsingCluster, initCbPending, parses>>

\* Flush: drop the queued bytes and the segment in progress; the cluster
\* parser is reset only in kParsingClusters.
Flush ==
  /\ state # "kWaitingForInit"
  /\ flushes < MaxFlushes
  /\ flushes' = flushes + 1
  /\ byteQueue' = <<>>
  /\ parsingCluster' = FALSE
  /\ clusterParser' = IF state = "kParsingClusters" THEN "idle" ELSE clusterParser
  /\ log' = Append(log, "flush")
  /\ UNCHANGED <<state, initCbPending, parses>>

Init ==
  /\ state = "kWaitingForInit"
  /\ parsingCluster = FALSE
  /\ clusterParser = "none"
  /\ byteQueue = <<>>
  /\ initCbPending = FALSE
  /\ log = <<>>
  /\ parses = 0 /\ flushes = 0

Next == Init_ \/ Parse \/ Flush

Spec == Init /\ [][Next]_vars

-----------------------------------------------------------------------------
\* The last of the callbacks in S the client saw before position i of the
\* log ("flush" if none).
LastBefore(i, S) ==
  LET j == SelectLastInSeq(SubSeq(log, 1, i - 1), LAMBDA c : c \in S)
  IN  IF j = 0 THEN "flush" ELSE log[j]

\* Types; between calls the byte queue holds at most one element, and only
\* an incomplete one: Parse() never leaves a complete element unparsed,
\* including after an EBML header sends it back to kParsingHeaders.
TypeOK ==
  /\ state \in States
  /\ parsingCluster \in BOOLEAN
  /\ clusterParser \in {"none", "idle", "open"}
  /\ initCbPending \in BOOLEAN
  /\ log \in Seq(Callbacks \cup {"flush"})
  /\ state \in {"kParsingHeaders", "kParsingClusters"} =>
       \A i \in 1..Len(byteQueue) : i = Len(byteQueue) /\ ~byteQueue[i].whole

\* The StreamParser contract Parse() keeps: init_cb runs once, before any
\* segment or buffers; after Parse() has returned false it never succeeds
\* nor runs a callback again.
ParserContract ==
  /\ \A i \in 1..Len(log) :
       /\ log[i] \in {"new", "buffers", "end"} =>
            \E j \in 1..(i - 1) : log[j] = "init"
       /\ log[i] = "init" => \A j \in 1..(i - 1) : log[j] # "init"
       /\ (\E j \in 1..(i - 1) : log[j] = "error") => log[i] \in {"error", "flush"}

\* new_segment_cb, new_buffers_cb and end_of_segment_cb nest: a segment is
\* opened only when none is open, buffers and the end come only inside an
\* open one, and Flush() closes it.
SegmentCallbacksNest ==
  \A i \in 1..Len(log) :
    /\ log[i] = "new" => LastBefore(i, {"new", "end", "flush"}) # "new"
    /\ log[i] \in {"buffers", "end"} =>
         LastBefore(i, {"new", "end", "flush"}) = "new"

\* Every media segment whose buffers reach the client was announced by
\* new_segment_cb after the latest init segment's config_cb: the client
\* never receives the buffers of a new init segment's clusters inside a
\* segment opened under the previous one.
MediaSegmentAfterConfig ==
  \A i \in 1..Len(log) :
    log[i] = "buffers" => LastBefore(i, {"new", "config", "flush"}) = "new"

====
