--------------------------- MODULE StreamSupervisor ---------------------------
(***************************************************************************)
(* The stream pulls of one camera (avclient.py, _start_stream and around): *)
(* ffmpeg processes that come and go, and the threads that start, stop,    *)
(* restart and kill them without a lock between them:                      *)
(*   - the receiver thread, carrying out Protect's stream commands;        *)
(*   - the reader thread of each pull, which starts the next one when its  *)
(*     pull died on its own;                                               *)
(*   - the status watch, which kills a pull that delivers nothing.         *)
(*                                                                         *)
(* Starting a pull takes seconds: the old one is stopped, the source is    *)
(* probed (up to 8 s), only then the new one runs and is registered.       *)
(*                                                                         *)
(* A pull's identity is used again once its process and its thread are     *)
(* gone.                                                                   *)
(***************************************************************************)
EXTENDS Naturals, FiniteSets

CONSTANTS
  Pull,      \* identities of pulls
  NoPull,
  Onvif,     \* the camera is streamed by OnvifStreamControl, else by UiStreamControl
  MaxCount   \* bound of the model: restarts counted before the counter stays as it is

ASSUME PullAssumption == NoPull \notin Pull
ASSUME OnvifAssumption == Onvif \in BOOLEAN
ASSUME CountAssumption == MaxCount \in Nat \ {0}

VARIABLES
  active,   \* _active_streams[device_id]
  points,   \* device_id is in _stream_points
  count,    \* _stream_restart_count[device_id]
  proc,     \* proc[p]: its ffmpeg: "running", "hung" (delivers nothing) or "exited"
  seen,     \* seen[p]: p delivered a frame (seq > 0), which its thread asks about when it ended
  reader,   \* reader[p]: where the thread of pull p is
  receiver, \* where the receiver thread is: "idle", "probing", or "registered" (the pull runs)
  crossing   \* history: a command came in the middle of a restart (see Commands)

pullVars == <<active, points, count, proc, seen, reader, receiver, crossing>>

Alive(p) == proc[p] \in {"running", "hung"}

Free == {p \in Pull : ~Alive(p) /\ reader[p] \in {"none", "failed"}}

PullInit == /\ active = NoPull
            /\ points = FALSE
            /\ count = 0
            /\ proc = [p \in Pull |-> "exited"]
            /\ seen = [p \in Pull |-> FALSE]
            /\ reader = [p \in Pull |-> "none"]
            /\ receiver = "idle"
            /\ crossing = FALSE

-----------------------------------------------------------------------------
(* _start_stream: the registered pull is taken out and terminated; after   *)
(* the probe a new one is registered, whatever is registered by then.      *)

StopStream == /\ active' = NoPull
              /\ proc' = [p \in Pull |-> IF p = active THEN "exited" ELSE proc[p]]

\* A new pull q (which of the free ones makes no difference); the threads' states become threads.
Launch(q, threads) == /\ q \in Free /\ q = CHOOSE r \in Free : TRUE
                      /\ active' = q
                      /\ proc' = [proc EXCEPT ![q] = "running"]
                      /\ seen' = [seen EXCEPT ![q] = FALSE]
                      /\ reader' = [threads EXCEPT ![q] = "reading"]

-----------------------------------------------------------------------------
(* Protect's commands, at any time the receiver thread is free.  A start   *)
(* crosses a restart that is under way, a stop one that no longer asks     *)
(* whether the stream is wanted.                                           *)

Crosses(stages) == crossing' = (crossing \/ \E p \in Pull : reader[p] \in stages)

\* UiStreamControl or OnvifStreamControl with streaming on: a fresh session.
StartCommand == /\ receiver = "idle"
                /\ Crosses({"noticed", "waiting", "stopping", "probing"})
                /\ StopStream
                /\ count' = 0
                /\ receiver' = "probing"
                /\ UNCHANGED <<points, seen, reader>>

StartLaunch == /\ receiver = "probing"
               /\ \E q \in Pull : Launch(q, reader)
               /\ receiver' = "registered"
               /\ UNCHANGED <<points, count, crossing>>

\* The pull could not be started: UiStreamControl also forgets the camera's points.
StartFails == /\ receiver = "probing"
              /\ points' = (points /\ Onvif)
              /\ receiver' = "idle"
              /\ UNCHANGED <<active, count, proc, seen, reader, crossing>>

\* The poll loop runs anew and the points are booked.
StartDone == /\ receiver = "registered"
             /\ points' = TRUE
             /\ receiver' = "idle"
             /\ UNCHANGED <<active, count, proc, seen, reader, crossing>>

\* Either command with streaming off.
StopCommand == /\ receiver = "idle"
               /\ Crosses({"stopping", "probing"})
               /\ points' = FALSE
               /\ StopStream
               /\ UNCHANGED <<count, seen, reader, receiver>>

\* ResetAIPortStreams: every camera that is pulled or booked.
ResetCommand == /\ receiver = "idle" /\ (points \/ active # NoPull)
                /\ Crosses({"stopping", "probing"})
                /\ points' = FALSE
                /\ StopStream
                /\ UNCHANGED <<count, seen, reader, receiver>>

-----------------------------------------------------------------------------
(* The processes and the status watch                                      *)

Frame(p) == /\ reader[p] = "reading" /\ proc[p] = "running"
            /\ seen' = [seen EXCEPT ![p] = TRUE]
            /\ UNCHANGED <<active, points, count, proc, reader, receiver, crossing>>

\* The source ends, refuses or breaks.
Die(p) == /\ proc[p] = "running"
          /\ proc' = [proc EXCEPT ![p] = "exited"]
          /\ UNCHANGED <<active, points, count, seen, reader, receiver, crossing>>

\* Stuck past the socket's read timeout.
Hang(p) == /\ proc[p] = "running"
           /\ proc' = [proc EXCEPT ![p] = "hung"]
           /\ UNCHANGED <<active, points, count, seen, reader, receiver, crossing>>

\* Mistake: a pull that never had a frame is given more time.
StallKillSeen(p) == /\ active = p /\ proc[p] = "hung" /\ seen[p]
                    /\ proc' = [proc EXCEPT ![p] = "exited"]
                    /\ UNCHANGED <<active, points, count, seen, reader, receiver, crossing>>

\* _restart_stalled_pulls: the registered pull had no frame for STREAM_STALL_S.
StallKill(p) == /\ active = p /\ proc[p] = "hung"
                /\ proc' = [proc EXCEPT ![p] = "exited"]
                /\ UNCHANGED <<active, points, count, seen, reader, receiver, crossing>>

-----------------------------------------------------------------------------
(* A pull's reader thread                                                  *)

\* Mistake: every end of a pull counts as an unexpected one.
ExitAnyway(p) == /\ reader[p] = "reading" /\ proc[p] = "exited"
                 /\ reader' = [reader EXCEPT ![p] = "noticed"]
                 /\ UNCHANGED <<active, points, count, proc, seen, receiver, crossing>>

\* Its pull ended.  On its own, if it is still the registered one.
Exit(p) == /\ reader[p] = "reading" /\ proc[p] = "exited"
           /\ reader' = [reader EXCEPT ![p] = IF active = p THEN "noticed" ELSE "none"]
           /\ seen' = [seen EXCEPT ![p] = @ /\ active = p]
           /\ UNCHANGED <<active, points, count, proc, receiver, crossing>>

\* Mistake: the dead pull stays registered.
UnregisterNothing(p) == /\ reader[p] = "noticed"
                        /\ reader' = [reader EXCEPT ![p] = "waiting"]
                        /\ UNCHANGED <<active, points, count, proc, seen, receiver, crossing>>

\* It is taken out of the registry (whatever is registered by now) and a wait begins, the
\* longer the more pulls in a row delivered nothing.
Unregister(p) == /\ reader[p] = "noticed"
                 /\ active' = NoPull
                 /\ count' = IF seen[p] THEN 1 ELSE IF count < MaxCount THEN count + 1 ELSE count
                 /\ reader' = [reader EXCEPT ![p] = "waiting"]
                 /\ seen' = [seen EXCEPT ![p] = FALSE]
                 /\ UNCHANGED <<points, proc, receiver, crossing>>

\* Mistake: the restart does not ask whether the stream is still wanted.
WakeAnyway(p) == /\ reader[p] = "waiting"
                 /\ reader' = [reader EXCEPT ![p] = IF active = NoPull THEN "stopping" ELSE "none"]
                 /\ UNCHANGED <<active, points, count, proc, seen, receiver, crossing>>

\* After the wait: _restart_wanted.
Wake(p) == /\ reader[p] = "waiting"
           /\ reader' = [reader EXCEPT ![p] = IF active = NoPull /\ points THEN "stopping"
                                              ELSE "none"]
           /\ UNCHANGED <<active, points, count, proc, seen, receiver, crossing>>

\* Mistake: stopping a stream forgets its restarts.
RestartStopAfresh(p) == /\ reader[p] = "stopping"
                        /\ StopStream
                        /\ count' = 0
                        /\ reader' = [reader EXCEPT ![p] = "probing"]
                        /\ UNCHANGED <<points, seen, receiver, crossing>>

\* The restart is a _start_stream: it begins with a _stop_stream.
RestartStop(p) == /\ reader[p] = "stopping"
                  /\ StopStream
                  /\ reader' = [reader EXCEPT ![p] = "probing"]
                  /\ UNCHANGED <<points, count, seen, receiver, crossing>>

RestartLaunch(p) == /\ reader[p] = "probing"
                    /\ \E q \in Pull : Launch(q, [reader EXCEPT ![p] = "none"])
                    /\ UNCHANGED <<points, count, receiver, crossing>>

\* The restart raised: nobody catches it, the thread is gone.
RestartFails(p) == /\ reader[p] = "probing"
                   /\ reader' = [reader EXCEPT ![p] = "failed"]
                   /\ UNCHANGED <<active, points, count, proc, seen, receiver, crossing>>

-----------------------------------------------------------------------------
ReaderStep(p) == \/ Exit(p) \/ Unregister(p) \/ Wake(p) \/ RestartStop(p)
                 \/ RestartLaunch(p) \/ RestartFails(p)

PullNext == \/ StartCommand \/ StartLaunch \/ StartFails \/ StartDone
            \/ StopCommand \/ ResetCommand
            \/ \E p \in Pull : Frame(p) \/ Die(p) \/ Hang(p) \/ StallKill(p) \/ ReaderStep(p)

\* Threads run; the status watch looks every STATUS_CHECK_S.  Nothing is asked of the source
\* or of Protect.
PullFairness == /\ WF_pullVars(StartLaunch \/ StartFails) /\ WF_pullVars(StartDone)
                /\ \A p \in Pull : WF_pullVars(StallKill(p)) /\ WF_pullVars(ReaderStep(p))

PullSpec == PullInit /\ [][PullNext]_pullVars /\ PullFairness

-----------------------------------------------------------------------------
(* Properties                                                              *)

\* Every variable has its type.
PullTypeOK ==
  /\ active \in Pull \cup {NoPull}
  /\ points \in BOOLEAN
  /\ count \in 0..MaxCount
  /\ proc \in [Pull -> {"running", "hung", "exited"}]
  /\ seen \in [Pull -> BOOLEAN]
  /\ reader \in [Pull -> {"none", "reading", "noticed", "waiting", "stopping", "probing",
                          "failed"}]
  /\ receiver \in {"idle", "probing", "registered"}
  /\ crossing \in BOOLEAN

\* "avclient.py runs one ffmpeg process per paired camera".
OnePull == \A p, q \in Pull : Alive(p) /\ Alive(q) => p = q

\* A camera whose stream Protect stopped is not pulled, nor going to be ("a pull that died
\* restarts only while Protect still wants the stream").
StoppedStays == receiver = "idle" /\ ~points => \A p \in Pull : ~Alive(p)

\* Both hold as long as no command came in the middle of a restart.  In particular a stop that finds the
\* pull's restart waiting is safe: it leaves no pull to come.
OnePullUncrossed == crossing \/ OnePull
StoppedStaysUncrossed == crossing \/ StoppedStays

\* Whatever crosses: the registered pull has a thread that is going to notice its end, so it
\* cannot die unseen and leave the camera dark.
Supervised == active # NoPull => reader[active] \in {"reading", "noticed"}

\* The backoff of a source that keeps failing starts again only for a new session or after a
\* pull that delivered frames ("clearing it kept the backoff at its first step").
BackoffGrows ==
  [][count' < count => \/ receiver = "idle" /\ receiver' = "probing"
                       \/ \E p \in Pull : reader[p] = "noticed" /\ seen[p]]_pullVars

\* A camera Protect streams whose pull ends, or hangs, is pulled again ("No retry cap"),
\* unless Protect intervenes or the restart itself cannot start a process.
Settled == receiver = "idle" /\ points /\ active # NoPull
Recovers == Settled ~> \/ receiver # "idle" \/ ~points
                       \/ \E p \in Pull : reader[p] = "failed"
                       \/ active # NoPull /\ proc[active] = "running"
=============================================================================
