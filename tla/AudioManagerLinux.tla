-------------------------- MODULE AudioManagerLinux --------------------------
(***************************************************************************)
(* AudioManagerLinux (src/audio/linux/audio_manager_linux.cc): the process *)
(* wide audio manager.  AudioManager::GetAudioManager() creates it lazily  *)
(* into the global |g_audio_manager|, calls Init() on it (which starts the *)
(* audio thread) and registers DestroyAudioManagerLinux with the           *)
(* AtExitManager.  MakeAudioStream() refuses real streams until Init() has *)
(* started the thread, and keeps every stream in |active_streams_|.        *)
(*                                                                         *)
(* GetAudioManager takes no lock.  Each of its statements that reads or    *)
(* writes the global is a step of its own, so callers on different         *)
(* threads interleave between them.                                        *)
(***************************************************************************)
EXTENDS Integers, FiniteSets, TLC

CONSTANTS
  Callers,      \* threads calling AudioManager::GetAudioManager()
  MaxStreams,   \* bound: ALSA streams a manager hands out
  NULL

Managers == 1..Cardinality(Callers)    \* each caller creates at most one
Formats == {"AUDIO_MOCK", "AUDIO_PCM_LINEAR"}

VARIABLES
  g,            \* g_audio_manager
  mgr,          \* the managers created so far, by id
  pc,           \* where each caller is in GetAudioManager
  held,         \* the manager each caller got back, or NULL
  made,         \* what each caller's last MakeAudioStream returned
  registered,   \* DestroyAudioManagerLinux registrations with AtExitManager
  exited        \* the AtExitManager has run its callbacks

vars == <<g, mgr, pc, held, made, registered, exited>>

\* A newly constructed AudioManagerLinux: initialized_(false).
NewManager == [initCalled |-> FALSE, initialized |-> FALSE, streams |-> 0,
               deletes |-> 0]

-----------------------------------------------------------------------------
\* Mutant: a manager is created whatever the global holds.
GetAudioManagerCheckAlwaysNew(t) ==
  /\ pc[t] = "idle" /\ ~exited
  /\ pc' = [pc EXCEPT ![t] = "new"]
  /\ UNCHANGED <<g, mgr, held, made, registered, exited>>

\* GetAudioManager, `if (!g_audio_manager)': an existing manager is
\* returned; otherwise the caller goes on to create one.
GetAudioManagerCheck(t) ==
  /\ pc[t] = "idle" /\ ~exited
  /\ IF g # NULL
     THEN held' = [held EXCEPT ![t] = g] /\ UNCHANGED pc
     ELSE pc' = [pc EXCEPT ![t] = "new"] /\ UNCHANGED held
  /\ UNCHANGED <<g, mgr, made, registered, exited>>

\* `g_audio_manager = new AudioManagerLinux()'.
GetAudioManagerNew(t) ==
  /\ pc[t] = "new"
  /\ LET id == Cardinality(DOMAIN mgr) + 1 IN
       /\ mgr' = mgr @@ (id :> NewManager)
       /\ g' = id
  /\ pc' = [pc EXCEPT ![t] = "init"]
  /\ UNCHANGED <<held, made, registered, exited>>

\* Init: initialized_ = audio_thread_.Start(), which may fail.
Init_(m) ==
  \E started \in BOOLEAN :
    mgr' = [mgr EXCEPT ![m].initCalled = TRUE, ![m].initialized = started]

\* `g_audio_manager->Init()': on whatever the global holds now.
GetAudioManagerInit(t) ==
  /\ pc[t] = "init"
  /\ Init_(g)
  /\ pc' = [pc EXCEPT ![t] = "register"]
  /\ UNCHANGED <<g, held, made, registered, exited>>

\* RegisterCallback(&DestroyAudioManagerLinux), then `return g_audio_manager'.
GetAudioManagerRegister(t) ==
  /\ pc[t] = "register"
  /\ registered' = registered + 1
  /\ held' = [held EXCEPT ![t] = g]
  /\ pc' = [pc EXCEPT ![t] = "idle"]
  /\ UNCHANGED <<g, mgr, made, exited>>

\* MakeAudioStream on the manager the caller holds: the mock format before
\* anything else, NULL until Init() has started the thread, else a new ALSA
\* stream kept in active_streams_.
MakeAudioStream(t, f) ==
  /\ pc[t] = "idle" /\ held[t] # NULL /\ ~exited
  /\ LET m == held[t] IN
     CASE f = "AUDIO_MOCK" ->
            made' = [made EXCEPT ![t] = "FAKE"] /\ UNCHANGED mgr
       [] ~mgr[m].initialized ->
            made' = [made EXCEPT ![t] = "NULL"] /\ UNCHANGED mgr
       [] OTHER ->
            /\ mgr[m].streams < MaxStreams
            /\ mgr' = [mgr EXCEPT ![m].streams = @ + 1]
            /\ made' = [made EXCEPT ![t] = "ALSA"]
  /\ UNCHANGED <<g, pc, held, registered, exited>>

\* Mutant: the global is not cleared after the delete.
DestroyAudioManagerLinuxNoReset(st) ==
  [st EXCEPT !.mgr = IF st.g # NULL THEN [@ EXCEPT ![st.g].deletes = @ + 1] ELSE @]

\* DestroyAudioManagerLinux: `delete g_audio_manager; g_audio_manager =
\* NULL' on the pair [g, mgr] (deleting NULL does nothing).
DestroyAudioManagerLinux(st) ==
  [g |-> NULL,
   mgr |-> IF st.g # NULL THEN [st.mgr EXCEPT ![st.g].deletes = @ + 1] ELSE st.mgr]

\* The AtExitManager runs the callback once per registration.
RECURSIVE RunAtExitCallbacks(_, _)
RunAtExitCallbacks(k, st) ==
  IF k = 0 THEN st ELSE RunAtExitCallbacks(k - 1, DestroyAudioManagerLinux(st))

\* Process exit, once every caller is out of GetAudioManager.
AtExit ==
  /\ ~exited /\ \A t \in Callers : pc[t] = "idle"
  /\ exited' = TRUE
  /\ LET st == RunAtExitCallbacks(registered, [g |-> g, mgr |-> mgr]) IN
       g' = st.g /\ mgr' = st.mgr
  /\ UNCHANGED <<pc, held, made, registered>>

Init ==
  /\ g = NULL /\ mgr = <<>>
  /\ pc = [t \in Callers |-> "idle"]
  /\ held = [t \in Callers |-> NULL] /\ made = [t \in Callers |-> "NONE"]
  /\ registered = 0 /\ exited = FALSE

Next ==
  \/ \E t \in Callers :
       \/ GetAudioManagerCheck(t) \/ GetAudioManagerNew(t)
       \/ GetAudioManagerInit(t) \/ GetAudioManagerRegister(t)
       \/ \E f \in Formats : MakeAudioStream(t, f)
  \/ AtExit

Spec == Init /\ [][Next]_vars

-----------------------------------------------------------------------------
TypeOK ==
  /\ g \in Managers \cup {NULL}
  /\ DOMAIN mgr \subseteq Managers
  /\ \A m \in DOMAIN mgr : mgr[m].streams \in 0..MaxStreams
  /\ pc \in [Callers -> {"idle", "new", "init", "register"}]
  /\ held \in [Callers -> Managers \cup {NULL}]
  /\ made \in [Callers -> {"NONE", "FAKE", "NULL", "ALSA"}]
  /\ registered \in 0..Cardinality(Callers) /\ exited \in BOOLEAN

\* The AtExit callbacks, registered by every caller that created a manager,
\* delete no manager twice: each run clears the global it deleted.
NoDoubleDelete ==
  \A m \in DOMAIN mgr : mgr[m].deletes <= 1

====
