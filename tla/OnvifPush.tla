------------------------------- MODULE OnvifPush -------------------------------
(***************************************************************************)
(* The video pushes of one ONVIF camera (onvif_push.py): PushManager, whose *)
(* operations the receiver thread calls, and one FlvPush thread for each    *)
(* channel that Protect wants, which connects to the destination, runs an   *)
(* ffmpeg into the socket and tries again until it is stopped.              *)
(*                                                                          *)
(* The manager's lock makes each operation one action, with the _sync it    *)
(* ends in.  A push is named by its channel and a slot, which is used again *)
(* once its thread has ended; a destination stands for a stream name and    *)
(* an address.                                                              *)
(***************************************************************************)
EXTENDS Naturals, FiniteSets

CONSTANTS
  Channel, Slot, Url, Destination,
  Bad,                    \* the destinations parse_destination rejects
  NoUrl, NoDestination, NoPush,
  Untouched               \* a channel that a configuration says nothing (usable) about

ASSUME DestinationAssumption == Bad \subseteq Destination
ASSUME NoneAssumption == /\ NoUrl \notin Url /\ NoPush \notin Channel \X Slot
                         /\ NoDestination \notin Destination
                         /\ Untouched \notin Destination \cup {NoDestination}

VARIABLES
  source,   \* _sources[device_id]: its url
  wanted,   \* _wanted[device_id]: the destination of each channel
  pushes,   \* _pushes: the push of each channel
  thread,   \* where the thread of a push is: "none" (no thread, or it has ended), "looping"
            \* (about to look at _stop), "connecting" or "pushing"
  ffmpeg,   \* its ffmpeg: "none", "running" or "ended"
  stop,     \* its _stop event is set
  given,    \* the <<url, destination>> it was started with
  asked     \* history: the last destination Protect asked for, per channel

pushVars == <<source, wanted, pushes, thread, ffmpeg, stop, given, asked>>

Push == Channel \X Slot
Good == Destination \ Bad

PushInit == /\ source = NoUrl
            /\ wanted = [c \in Channel |-> NoDestination]
            /\ pushes = [c \in Channel |-> NoPush]
            /\ thread = [p \in Push |-> "none"]
            /\ ffmpeg = [p \in Push |-> "none"]
            /\ stop = [p \in Push |-> FALSE]
            /\ given = [p \in Push |-> <<NoUrl, NoDestination>>]
            /\ asked = [c \in Channel |-> NoDestination]

-----------------------------------------------------------------------------
(* FlvPush.stop: the event is set and the ffmpeg that runs by now is       *)
(* terminated.                                                             *)

StopPushes(S) ==
  /\ stop' = [p \in Push |-> stop[p] \/ p \in S]
  /\ ffmpeg' = [p \in Push |-> IF p \in S /\ ffmpeg[p] = "running" THEN "ended" ELSE ffmpeg[p]]

(* _sync, for the new source and the new wanted destinations.              *)

\* The channel's slots whose threads have ended; which of them a new push takes makes no
\* difference.
FreeSlots(c) == {s \in Slot : thread[<<c, s>>] = "none"}

\* Mistake: a push to be replaced is dropped without being stopped.
SyncDropping(src, want) ==
  LET target == [c \in Channel |-> IF src = NoUrl THEN NoDestination ELSE want[c]]
      kept == {c \in Channel : /\ pushes[c] # NoPush /\ target[c] # NoDestination
                               /\ given[pushes[c]] = <<src, target[c]>>}
      started == {c \in Channel \ kept : target[c] \in Good}
      new == {<<c, CHOOSE s \in FreeSlots(c) : TRUE>> : c \in started}
  IN   /\ \A c \in started : FreeSlots(c) # {}
       /\ pushes' = [c \in Channel |-> IF c \in kept THEN pushes[c]
                                       ELSE IF c \in started THEN CHOOSE p \in new : p[1] = c
                                       ELSE NoPush]
       /\ thread' = [p \in Push |-> IF p \in new THEN "looping" ELSE thread[p]]
       /\ given' = [p \in Push |-> IF p \in new THEN <<src, target[p[1]]>> ELSE given[p]]
       /\ UNCHANGED <<stop, ffmpeg>>

\* Whatever is not as wanted is stopped; whatever is wanted and not there is started.
Sync(src, want) ==
  LET target == [c \in Channel |-> IF src = NoUrl THEN NoDestination ELSE want[c]]
      kept == {c \in Channel : /\ pushes[c] # NoPush /\ target[c] # NoDestination
                               /\ given[pushes[c]] = <<src, target[c]>>}
      started == {c \in Channel \ kept : target[c] \in Good}
      stopped == {pushes[c] : c \in Channel \ kept} \ {NoPush}
      slot == [c \in Channel |-> CHOOSE s \in FreeSlots(c) : TRUE]
      new == {<<c, slot[c]>> : c \in started}
  IN   /\ \A c \in started : FreeSlots(c) # {}
       /\ pushes' = [c \in Channel |-> IF c \in kept THEN pushes[c]
                                       ELSE IF c \in started THEN <<c, slot[c]>> ELSE NoPush]
       /\ thread' = [p \in Push |-> IF p \in new THEN "looping" ELSE thread[p]]
       /\ given' = [p \in Push |-> IF p \in new THEN <<src, target[p[1]]>> ELSE given[p]]
       /\ stop' = [p \in Push |-> p \notin new /\ (stop[p] \/ p \in stopped)]
       /\ ffmpeg' = [p \in Push |-> IF p \in new THEN "none"
                                    ELSE IF p \in stopped /\ ffmpeg[p] = "running" THEN "ended"
                                    ELSE ffmpeg[p]]

-----------------------------------------------------------------------------
(* PushManager                                                             *)

\* OnvifStreamControl, streaming.
SetSource == \E u \in Url :
  /\ source' = u
  /\ Sync(u, wanted)
  /\ UNCHANGED <<wanted, asked>>

\* Mistake: the destinations are forgotten with the source.
ForgetDevice ==
  /\ source' = NoUrl
  /\ wanted' = [c \in Channel |-> NoDestination]
  /\ Sync(NoUrl, wanted')
  /\ UNCHANGED asked

\* OnvifStreamControl, not streaming: the destinations are remembered.
StopDevice ==
  /\ source' = NoUrl
  /\ Sync(NoUrl, wanted)
  /\ UNCHANGED <<wanted, asked>>

\* ChangeVideoSettings: of some channels, a destination or /dev/null.
Configure == \E video \in [Channel -> Destination \cup {NoDestination, Untouched}] :
  /\ wanted' = [c \in Channel |-> IF video[c] = Untouched THEN wanted[c] ELSE video[c]]
  /\ asked' = [c \in Channel |-> IF video[c] = Untouched THEN asked[c] ELSE video[c]]
  /\ Sync(source, wanted')
  /\ UNCHANGED source

\* ResetToDefaults.
StopAllPushes ==
  /\ source' = NoUrl
  /\ wanted' = [c \in Channel |-> NoDestination]
  /\ asked' = [c \in Channel |-> NoDestination]
  /\ pushes' = [c \in Channel |-> NoPush]
  /\ StopPushes({pushes[c] : c \in Channel} \ {NoPush})
  /\ UNCHANGED <<thread, given>>

-----------------------------------------------------------------------------
(* A push's thread: _run and _push_once                                    *)

managerVars == <<source, wanted, pushes, given, asked, stop>>

\* Mistake: a push that was stopped is tried once more.
LoopOn(p) == /\ thread[p] = "looping"
             /\ thread' = [thread EXCEPT ![p] = "connecting"]
             /\ UNCHANGED <<managerVars, ffmpeg>>

\* The top of the loop, and the wait before the next attempt (which a stop cuts short).
Loop(p) == /\ thread[p] = "looping"
           /\ thread' = [thread EXCEPT ![p] = IF stop[p] THEN "none" ELSE "connecting"]
           /\ UNCHANGED <<managerVars, ffmpeg>>

\* Connected: the ffmpeg starts and its output is rewritten into the socket.
Connect(p) == /\ thread[p] = "connecting"
              /\ thread' = [thread EXCEPT ![p] = "pushing"]
              /\ ffmpeg' = [ffmpeg EXCEPT ![p] = "running"]
              /\ UNCHANGED managerVars

ConnectFails(p) == /\ thread[p] = "connecting"
                   /\ thread' = [thread EXCEPT ![p] = "looping"]
                   /\ UNCHANGED <<managerVars, ffmpeg>>

\* The source ends.
SourceEnds(p) == /\ ffmpeg[p] = "running"
                 /\ ffmpeg' = [ffmpeg EXCEPT ![p] = "ended"]
                 /\ UNCHANGED <<managerVars, thread>>

\* The output ended, was not FLV or not H.264, or the socket broke: the ffmpeg is terminated.
PushEnds(p) == /\ thread[p] = "pushing"
               /\ thread' = [thread EXCEPT ![p] = "looping"]
               /\ ffmpeg' = [ffmpeg EXCEPT ![p] = "none"]
               /\ UNCHANGED managerVars

-----------------------------------------------------------------------------
PushNext == \/ SetSource \/ StopDevice \/ Configure \/ StopAllPushes
            \/ \E p \in Push : Loop(p) \/ Connect(p) \/ ConnectFails(p) \/ SourceEnds(p) \/ PushEnds(p)

\* Threads run, connecting ends within its timeout, and a push ends once its ffmpeg has ended.
\* That a source, a socket or Protect ends a push is not assumed.
PushFairness == \A p \in Push : /\ WF_pushVars(Loop(p))
                            /\ WF_pushVars(Connect(p) \/ ConnectFails(p))
                            /\ WF_pushVars(ffmpeg[p] = "ended" /\ PushEnds(p))

PushSpec == PushInit /\ [][PushNext]_pushVars /\ PushFairness

-----------------------------------------------------------------------------
(* Properties                                                              *)

\* Every variable has its type.
PushTypeOK ==
  /\ source \in Url \cup {NoUrl}
  /\ wanted \in [Channel -> Destination \cup {NoDestination}]
  /\ pushes \in [Channel -> Push \cup {NoPush}]
  /\ thread \in [Push -> {"none", "looping", "connecting", "pushing"}]
  /\ ffmpeg \in [Push -> {"none", "running", "ended"}]
  /\ stop \in [Push -> BOOLEAN]
  /\ given \in [Push -> (Url \cup {NoUrl}) \X (Destination \cup {NoDestination})]
  /\ asked \in [Channel -> Destination \cup {NoDestination}]

\* The threads that go on trying are the ones the manager knows: none is lost track of, and
\* none it counts on has ended ("restarted on any failure every retry interval until stop()").
PushesAreOwned ==
  \A p \in Push : (thread[p] # "none" /\ ~stop[p]) <=> pushes[p[1]] = p

\* While the camera has a source, every channel is pushed from it to the destination Protect
\* last asked for, also after a stop in between ("so a later streaming:true ... resumes the
\* same streamNames instead of leaving the camera with no video").
ResumesAsAsked ==
  \A c \in Channel :
    IF source # NoUrl /\ asked[c] \in Good
    THEN pushes[c] # NoPush /\ given[pushes[c]] = <<source, asked[c]>>
    ELSE pushes[c] = NoPush

\* A push that is stopped while it waits or pushes ends.
StoppedEnds ==
  \A p \in Push : stop[p] /\ thread[p] \in {"looping", "pushing"} /\ ffmpeg[p] # "running"
                    ~> thread[p] = "none"

\* "restarted ... until stop()", "stop the pushes": nothing is pushed by a stopped push.
StoppedPushesNothing == \A p \in Push : stop[p] => ffmpeg[p] # "running"
=============================================================================
