--------------------------- MODULE DecoderSelection ---------------------------
(***************************************************************************)
(* What a DecoderSelector promises its caller, with none of its machinery: *)
(* once asked to select, it eventually hands over exactly one result;      *)
(* the result is a null decoder, or -- for a valid stream, when no Abort() *)
(* came first -- a decoder fitting the stream's encryption: a plain        *)
(* decoder for a clear stream; for an encrypted stream with a decryptor,   *)
(* the decrypting decoder alone or a plain decoder on a decrypted stream.  *)
(*                                                                         *)
(* DecoderSelector.tla refines this module through a mapping of its state *)
(* (Selection there).                                                      *)
(***************************************************************************)
CONSTANTS
  Plain,         \* the plain decoders
  Decrypting,    \* the decrypting decoder
  None           \* no decoder

VARIABLES
  valid,         \* the stream has a valid configuration
  encrypted,     \* the stream is encrypted
  hasDecryptor,  \* the caller can provide a decryptor
  phase,         \* "idle", "selecting", "decided" (result on its way), "done"
  aborted,       \* Abort() was called while selecting
  outcome        \* the result decided on

vars == <<valid, encrypted, hasDecryptor, phase, aborted, outcome>>

Result == [decoder : Plain \cup {Decrypting, None}, stream : BOOLEAN]
NullResult == [decoder |-> None, stream |-> FALSE]

\* The results the caller may be handed now.
Acceptable(r) ==
  \/ r = NullResult
  \/ /\ r.decoder # None /\ valid /\ ~aborted
     /\ IF encrypted THEN hasDecryptor /\ (r.decoder = Decrypting) # r.stream
                     ELSE r.decoder \in Plain /\ ~r.stream

Stream == <<valid, encrypted, hasDecryptor>>

\* SelectDecoder(): the selection starts, or is refused at once.
Select ==
  /\ phase = "idle"
  /\ \/ phase' = "selecting" /\ UNCHANGED outcome
     \/ phase' = "decided" /\ outcome' = NullResult
  /\ UNCHANGED <<Stream, aborted>>

\* Abort() while selecting.
Abort ==
  /\ phase = "selecting"
  /\ aborted' = TRUE
  /\ UNCHANGED <<Stream, phase, outcome>>

\* The selection settles on a result.
Decide ==
  /\ phase = "selecting"
  /\ \E r \in Result : Acceptable(r) /\ outcome' = r
  /\ phase' = "decided"
  /\ UNCHANGED <<Stream, aborted>>

\* The caller's callback runs with the result.
Deliver ==
  /\ phase = "decided"
  /\ phase' = "done"
  /\ UNCHANGED <<Stream, aborted, outcome>>

Init ==
  /\ valid \in BOOLEAN /\ encrypted \in BOOLEAN /\ hasDecryptor \in BOOLEAN
  /\ phase = "idle" /\ aborted = FALSE /\ outcome = NullResult

Next == Select \/ Abort \/ Decide \/ Deliver

\* A selection, once started, settles and is delivered.
Spec == Init /\ [][Next]_vars /\ WF_vars(Decide) /\ WF_vars(Deliver)

====
