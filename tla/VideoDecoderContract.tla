------------------------- MODULE VideoDecoderContract -------------------------
(***************************************************************************)
(* What a media::VideoDecoder promises its client, as the client sees it:  *)
(* the callbacks it receives.  Initialize is answered once; each decode is *)
(* answered once and in the order the decodes were made; a Reset's closure *)
(* runs only after every decode made before that Reset has been answered;  *)
(* nothing is received after the client destroyed the decoder; and every   *)
(* call is eventually answered while the decoder lives.                    *)
(*                                                                         *)
(* A step appends any number of allowed callbacks, so this module states   *)
(* what may be observed and is checked as a property of an implementation *)
(* rather than run on its own.                                             *)
(*                                                                         *)
(* The interface is declared in media/base/video_decoder.h, which is not   *)
(* in this repository; D3D11VideoDecoder is shown to implement it.         *)
(***************************************************************************)
EXTENDS Integers, Sequences, FiniteSets

CONSTANTS MaxDecodes, MaxResets

VARIABLES
  alive,        \* the client has not destroyed the decoder
  initCalled,   \* Initialize() was called
  decodes,      \* Decode() calls made
  resets,       \* Reset() calls made
  resetAt,      \* resetAt[k]: decodes made before the k-th Reset()
  log           \* the callbacks received, in order

vars == <<alive, initCalled, decodes, resets, resetAt, log>>

Received(k) == {i \in DOMAIN log : log[i].kind = k}
DecodesAnswered == Cardinality(Received("decode"))
ResetsAnswered == Cardinality(Received("reset"))

\* Whether callback |e| may follow the callbacks |l| received so far, given
\* the calls made (Initialize called |ic|, |d| decodes, the resets with the
\* decodes made before each, |ra|): init_cb once after Initialize; the
\* decode_cb of the oldest unanswered decode; the closure of the oldest
\* unanswered reset once every decode made before it is answered.
MayFollow(l, e, ic, d, ra) ==
  LET inits == {i \in DOMAIN l : l[i].kind = "init"}
      decs  == Cardinality({i \in DOMAIN l : l[i].kind = "decode"})
      rsts  == Cardinality({i \in DOMAIN l : l[i].kind = "reset"})
  IN  CASE e.kind = "init"   -> ic /\ inits = {}
        [] e.kind = "decode" -> decs < d /\ e.id = decs + 1
        [] e.kind = "reset"  -> rsts < Len(ra) /\ decs >= ra[rsts + 1]
        [] OTHER             -> FALSE

\* |l2| is |l| followed by one or more callbacks, each allowed where it is.
AnswersAppended(l, l2, ic, d, ra) ==
  /\ Len(l2) > Len(l) /\ SubSeq(l2, 1, Len(l)) = l
  /\ \A k \in Len(l) + 1 .. Len(l2) : MayFollow(SubSeq(l2, 1, k - 1), l2[k], ic, d, ra)

\* A call may be answered before it returns (a decoder running on the
\* caller's thread): the step appends the callbacks allowed after it.
MaybeAnsweredInCall ==
  \/ UNCHANGED log
  \/ AnswersAppended(log, log', initCalled', decodes', resetAt')

-----------------------------------------------------------------------------
\* The client's calls.
Initialize ==
  /\ alive /\ ~initCalled
  /\ initCalled' = TRUE
  /\ MaybeAnsweredInCall
  /\ UNCHANGED <<alive, decodes, resets, resetAt>>

Decode ==
  /\ alive /\ decodes < MaxDecodes
  /\ [kind |-> "init", ok |-> TRUE] \in {log[i] : i \in DOMAIN log}
  /\ decodes' = decodes + 1
  /\ MaybeAnsweredInCall
  /\ UNCHANGED <<alive, initCalled, resets, resetAt>>

Reset ==
  /\ alive /\ initCalled /\ resets < MaxResets
  /\ resets' = resets + 1
  /\ resetAt' = Append(resetAt, decodes)
  /\ MaybeAnsweredInCall
  /\ UNCHANGED <<alive, initCalled, decodes>>

Destroy ==
  /\ alive
  /\ alive' = FALSE
  /\ log' = Append(log, [kind |-> "destroy"])
  /\ UNCHANGED <<initCalled, decodes, resets, resetAt>>

\* The decoder answers, later, on the client's thread.
Answer ==
  /\ alive
  /\ AnswersAppended(log, log', initCalled, decodes, resetAt)
  /\ UNCHANGED <<alive, initCalled, decodes, resets, resetAt>>

Init ==
  /\ alive = TRUE /\ initCalled = FALSE
  /\ decodes = 0 /\ resets = 0 /\ resetAt = <<>> /\ log = <<>>

Next == Initialize \/ Decode \/ Reset \/ Destroy \/ Answer

\* Every call is eventually answered, unless the client destroys the
\* decoder first.
Answered ==
  /\ initCalled ~> (Received("init") # {} \/ ~alive)
  /\ \A k \in 1..MaxDecodes : (decodes >= k) ~> (DecodesAnswered >= k \/ ~alive)
  /\ \A k \in 1..MaxResets : (resets >= k) ~> (ResetsAnswered >= k \/ ~alive)

Spec == Init /\ [][Next]_vars /\ Answered

====
