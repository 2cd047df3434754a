---------------------------- MODULE CameraControl ----------------------------
(***************************************************************************)
(* Who runs the ticks of CameraEvent: the poll loop thread of the camera   *)
(* (_start_motion_detector) and the thread that receives Protect's         *)
(* commands (handle_function), which starts the loop, stops it with the    *)
(* tracks discarded (UiStreamControl with streaming off) or stops it with  *)
(* the tracks kept (ResetAIPortStreams).                                   *)
(*                                                                         *)
(* Stopping is not atomic: the pull is stopped, the tracks are taken under *)
(* _motion_lock, their events' leaves are sent after it is released, only  *)
(* then the loop's stop event is set, and the loop is joined for at most a *)
(* few seconds.  Ticks run in between, over fresh state.                   *)
(***************************************************************************)
EXTENDS CameraEvent

VARIABLES
  poll,     \* the poll loop: "off"; "waiting"; in a tick over a "frame", or over "nothing"
  stop,     \* its stop event is set
  orphan,   \* the tick ("frame", "nothing" or "none") of a loop whose join timed out
  handler,  \* where the receiver thread is in a command; "idle" between commands
  command,  \* what the last command did: "start", "stop", or "reset" (no pull, the tracks kept)
  toLeave   \* events of the discarded tracks whose leave is still to be sent

controlVars == <<poll, stop, orphan, handler, command, toLeave>>
allVars == <<dev, event, age, nextId, window, edge, leaves, took, named,
             poll, stop, orphan, handler, command, toLeave>>

InTick == {"frame", "nothing"}

-----------------------------------------------------------------------------
(* The poll loop                                                           *)

\* Past the check of the stop event: a frame came, or DETECT_INTERVAL_S passed without one.
\* A pull that a command stopped delivers no frame.
Wake == /\ poll = "waiting" /\ ~stop
        /\ poll' \in IF command = "start" THEN InTick ELSE {"nothing"}
        /\ UNCHANGED <<vars, stop, orphan, handler, command, toLeave>>

PollTick == /\ poll \in InTick
            /\ MotionTick(poll = "frame")
            /\ poll' = "waiting"
            /\ UNCHANGED <<stop, orphan, handler, command, toLeave>>

PollExit == /\ poll = "waiting" /\ stop
            /\ poll' = "off"
            /\ UNCHANGED <<vars, stop, orphan, handler, command, toLeave>>

\* The last tick of a loop that was given up on; then it sees its stop event.
OrphanTick == /\ orphan \in InTick
              /\ MotionTick(orphan = "frame")
              /\ orphan' = "none"
              /\ UNCHANGED <<poll, stop, handler, command, toLeave>>

-----------------------------------------------------------------------------
(* The receiver thread                                                     *)

\* UiStreamControl, streaming: the pull starts anew, then the loop does; tracks are kept.
StartCommand == /\ handler = "idle"
                /\ StreamRestart
                /\ handler' = "stopping" /\ command' = "start"
                /\ UNCHANGED <<poll, stop, orphan, toLeave>>

\* The pull could not be started: the loop there is, if any, goes on without a pull, as if reset.
StartFails == /\ handler = "stopping" /\ command = "start"
              /\ handler' = "idle" /\ command' = "reset"
              /\ UNCHANGED <<vars, poll, stop, orphan, toLeave>>

\* ResetAIPortStreams: every pull and loop stops; tracks are kept.
ResetCommand == /\ handler = "idle" /\ poll # "off"
                /\ StreamRestart
                /\ handler' = "stopping" /\ command' = "reset"
                /\ UNCHANGED <<poll, stop, orphan, toLeave>>

\* UiStreamControl, not streaming: the pull stops.  A tick given up on in an earlier command
\* is assumed to have ended by now.
StopCommand == /\ handler = "idle" /\ orphan = "none"
               /\ StreamRestart
               /\ handler' = "discarding" /\ command' = "stop"
               /\ UNCHANGED <<poll, stop, orphan, toLeave>>

\* Mistakes: a leave also for tracks that never had an event; no leave at all; the event is
\* dropped but its tracks are kept; the state is kept until the leaves are sent.
TakeAnyTracks == /\ handler = "discarding"
                 /\ dev' = EmptyDev /\ event' = NoEvent /\ age' = 0 /\ window' = StartupWindow
                 /\ toLeave' = {dev.ev[t] : t \in dev.live}
                 /\ took' = {} /\ named' = {} /\ handler' = "leaving"
                 /\ UNCHANGED <<nextId, edge, leaves, poll, stop, orphan, command>>
AbandonTracks == /\ handler = "discarding"
                 /\ dev' = EmptyDev /\ event' = NoEvent /\ age' = 0 /\ window' = StartupWindow
                 /\ toLeave' = {} /\ took' = {} /\ named' = {} /\ handler' = "leaving"
                 /\ UNCHANGED <<nextId, edge, leaves, poll, stop, orphan, command>>
TakeEvent == /\ handler = "discarding"
             /\ event' = NoEvent /\ age' = 0 /\ window' = StartupWindow
             /\ toLeave' = {dev.ev[t] : t \in dev.live} \ {NoEvent}
             /\ took' = {} /\ named' = {} /\ handler' = "leaving"
             /\ UNCHANGED <<dev, nextId, edge, leaves, poll, stop, orphan, command>>
CopyTracks == /\ handler = "discarding"
              /\ toLeave' = {dev.ev[t] : t \in dev.live} \ {NoEvent}
              /\ handler' = "leaving"
              /\ UNCHANGED <<vars, poll, stop, orphan, command>>

\* The state is taken, with the events its tracks ever took part in.
TakeTracks == /\ handler = "discarding"
              /\ dev' = EmptyDev /\ event' = NoEvent /\ age' = 0
              /\ window' = StartupWindow
              /\ toLeave' = {dev.ev[t] : t \in dev.live} \ {NoEvent}
              /\ took' = {} /\ named' = {}
              /\ handler' = "leaving"
              /\ UNCHANGED <<nextId, edge, leaves, poll, stop, orphan, command>>

\* One leave per event_id.
SendLeave(e) == /\ handler = "leaving" /\ e \in toLeave
                /\ toLeave' = toLeave \ {e}
                /\ edge' = [edge EXCEPT ![e] = "leave"]
                /\ leaves' = [leaves EXCEPT ![e] = @ + 1]
                /\ UNCHANGED <<dev, event, age, nextId, window, took, named,
                               poll, stop, orphan, handler, command>>

SetStop == /\ handler = "stopping" \/ (handler = "leaving" /\ toLeave = {})
           /\ stop' = (poll # "off")
           /\ handler' = "joining"
           /\ UNCHANGED <<vars, poll, orphan, command, toLeave>>

\* After the join a start runs a new loop, with a stop event of its own.
NewLoop == /\ poll' = IF command = "start" THEN "waiting" ELSE "off"
           /\ stop' = FALSE
           /\ handler' = "idle"

Joined == /\ handler = "joining" /\ poll = "off"
          /\ NewLoop
          /\ UNCHANGED <<vars, orphan, command, toLeave>>

JoinTimeout == /\ handler = "joining" /\ poll \in InTick /\ orphan = "none"
               /\ NewLoop
               /\ orphan' = poll
               /\ UNCHANGED <<vars, command, toLeave>>

\* The pull's own restarts (its reader thread).
PullRestart == command = "start" /\ StreamRestart /\ UNCHANGED controlVars

ControlInit == /\ Init
               /\ poll = "off" /\ stop = FALSE /\ orphan = "none"
               /\ handler = "idle" /\ command = "stop" /\ toLeave = {}

ControlNext ==
  \/ Wake \/ PollTick \/ PollExit \/ OrphanTick
  \/ StartCommand \/ StartFails \/ ResetCommand \/ StopCommand \/ TakeTracks
  \/ \E e \in Event : SendLeave(e)
  \/ SetStop \/ Joined \/ JoinTimeout \/ PullRestart

ControlSpec == ControlInit /\ [][ControlNext]_allVars

-----------------------------------------------------------------------------
(* Properties                                                              *)

\* Every variable has its type.
ControlTypeOK ==
  /\ TypeOK
  /\ poll \in {"off", "waiting"} \cup InTick
  /\ stop \in BOOLEAN
  /\ orphan \in {"none"} \cup InTick
  /\ handler \in {"idle", "discarding", "leaving", "stopping", "joining"}
  /\ command \in {"start", "stop", "reset"}
  /\ toLeave \subseteq Event

\* To Protect, an event is in progress.
InProgress(e) == edge[e] \in {"enter", "moving"}

\* Once a stop command is done no event is left in progress, whatever ticks ran while it was
\* carried out ("when a track IS discarded with an open event, emit a `leave` first so the
\* controller closes it instead of leaving a dangling event").
StoppedIsLeft ==
  handler = "idle" /\ command = "stop" =>
    event = NoEvent /\ \A e \in Event : ~InProgress(e)

\* A camera has one event in progress at a time, also while the leaves of a stop are
\* still to be sent and the loop ticks on over fresh state.
OneInProgress == \A e, f \in Event : InProgress(e) /\ InProgress(f) => e = f

\* Nothing is sent of an event after its leave but leaves.
QuietAfterLeave == [][\A e \in Event : edge[e] = "leave" => edge'[e] = "leave"]_allVars

\* "One leave per camera event".
OneLeavePerEvent == \A e \in Event : leaves[e] <= 1
=============================================================================
