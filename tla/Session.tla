-------------------------------- MODULE Session --------------------------------
(***************************************************************************)
(* The classic connection to Protect (avclient.py, run, handle_function)   *)
(* and what the console knows of the cameras from it: which are streamed,  *)
(* their capacity points and, in EventAIPortStatus, their health.          *)
(*                                                                         *)
(* The receiver thread opens the connection, carries out the console's     *)
(* commands and opens the next one when it ends.  The status watch looks   *)
(* at the cameras every few seconds, over the connection that _status_ws   *)
(* names by then.  Both book what they are about to send in                *)
(* _last_status_sent and send it afterwards.                               *)
(*                                                                         *)
(* How a command starts and stops pulls and loops step by step is in       *)
(* StreamSupervisor and CameraControl.                                     *)
(***************************************************************************)
EXTENDS Naturals, FiniteSets

CONSTANTS
  Camera, OnvifCamera,        \* cameras, and those streamed by OnvifStreamControl
  Health, Started, Stopped,   \* what a status can say; what it says on a start and on a stop
  NotTold,
  Cost                        \* bound of the model: capacity points of a stream

ASSUME CameraAssumption == Camera # {} /\ OnvifCamera \subseteq Camera
ASSUME HealthAssumption == {Started, Stopped} \subseteq Health /\ NotTold \notin Health
ASSUME CostAssumption == Cost \subseteq Nat \ {0}

\* A connection as a thread holds it: this one, one that has ended, or none.
Connection == {"current", "old", "none"}
NoHold == [cam |-> CHOOSE c \in Camera : TRUE, says |-> NotTold]

VARIABLES
  net,      \* "down"; "opening"; "up"; "broken": it ended, the receiver has yet to notice
  statusWs, \* _status_ws
  loopWs,   \* loopWs[c]: the connection c's poll loop sends its events to ("none": no loop)
  cost,     \* _stream_points: cost[c], 0 when it has no entry
  well,     \* well[c]: c's health as _camera_health finds it
  sent,     \* _last_status_sent
  receiving,\* the status the receiver thread is to send, and whether it is booked
  watch,    \* the status watch: its step, connection, cameras to look at, status to send
  heard,    \* heard[c]: the health of c the console was last told on this connection
  told,     \* cameras of which the last reply on this connection said that they are streamed
  crossed   \* history: cameras of which a status was booked for a connection that had ended,
            \* or while another one was booked and not sent

sessionVars == <<net, statusWs, loopWs, cost, well, sent, receiving, watch, heard, told, crossed>>
streamVars == <<loopWs, cost, well, told>>

SessionInit ==
  /\ net = "down" /\ statusWs = "none"
  /\ loopWs = [c \in Camera |-> "none"] /\ cost = [c \in Camera |-> 0]
  /\ well = [c \in Camera |-> Started]
  /\ sent = [c \in Camera |-> NotTold] /\ heard = [c \in Camera |-> NotTold]
  /\ receiving = [step |-> "idle", hold |-> NoHold]
  /\ watch = [step |-> "off", ws |-> "none", todo |-> {}, hold |-> NoHold]
  /\ told = {} /\ crossed = {}

-----------------------------------------------------------------------------
(* The connection                                                          *)

\* Mistake: what was booked on the last connection counts for the next one.
DialsKeeping == /\ net = "down"
               /\ net' = "opening"
               /\ crossed' = {}
               /\ UNCHANGED <<statusWs, streamVars, sent, receiving, watch, heard>>

\* "forget what this session already reported"
Dials ==
  /\ net = "down"
  /\ net' = "opening"
  /\ sent' = [c \in Camera |-> NotTold] /\ crossed' = {}
  /\ UNCHANGED <<statusWs, streamVars, receiving, watch, heard>>

NotReached == /\ net = "opening"
              /\ net' = "down"
              /\ UNCHANGED <<statusWs, streamVars, sent, receiving, watch, heard, crossed>>

Hello == /\ net = "opening"
         /\ net' = "up" /\ statusWs' = "current"
         /\ UNCHANGED <<streamVars, sent, receiving, watch, heard, crossed>>

\* The connection is lost, and with it what the console was told over it.
Forgotten == /\ heard' = [c \in Camera |-> NotTold]
             /\ told' = {} /\ crossed' = {}

Break == /\ net = "up"
         /\ net' = "broken"
         /\ Forgotten
         /\ UNCHANGED <<statusWs, loopWs, cost, well, sent, receiving, watch>>

Aged(ws) == IF ws = "current" THEN "old" ELSE ws

\* The connection has ended and the receiver is out of handle_function.
Hangup == /\ net' = "down" /\ statusWs' = "old"
          /\ watch' = [watch EXCEPT !.ws = Aged(@)]
          /\ receiving' = [step |-> "idle", hold |-> NoHold]

Noticed == /\ net = "broken" /\ receiving.step = "idle"
           /\ Hangup
           /\ loopWs' = [c \in Camera |-> Aged(loopWs[c])]
           /\ UNCHANGED <<cost, well, told, sent, heard, crossed>>

-----------------------------------------------------------------------------
(* The console's commands.  Each is carried out, replied to and, for some, *)
(* followed by a status.                                                   *)

Command == net = "up" /\ receiving.step = "idle"

ThenSays(c, says) == receiving' = [step |-> "book", hold |-> [cam |-> c, says |-> says]]

Replied(c, status) == told' = IF status = "started" THEN told \cup {c} ELSE told \ {c}

\* Mistake: a poll loop that runs is left as it is.
StreamKeepingLoop(c) ==
  /\ Command
  /\ loopWs' = [loopWs EXCEPT ![c] = IF @ = "none" THEN "current" ELSE @]
  /\ \E points \in Cost : cost' = [cost EXCEPT ![c] = points]
  /\ well' = [well EXCEPT ![c] = Started]
  /\ watch' = [watch EXCEPT !.step = IF @ = "off" THEN "idle" ELSE @]
  /\ Replied(c, "started") /\ ThenSays(c, Started)
  /\ UNCHANGED <<net, statusWs, sent, heard, crossed>>

\* Mistake: a stream without width, height or rate is booked without points.
StreamUncounted(c) ==
  /\ Command
  /\ loopWs' = [loopWs EXCEPT ![c] = "current"]
  /\ \E points \in Cost \cup {NotTold} : cost' = [cost EXCEPT ![c] = points]
  /\ well' = [well EXCEPT ![c] = Started]
  /\ watch' = [watch EXCEPT !.step = IF @ = "off" THEN "idle" ELSE @]
  /\ Replied(c, "started") /\ ThenSays(c, Started)
  /\ UNCHANGED <<net, statusWs, sent, heard, crossed>>

\* UiStreamControl or OnvifStreamControl, streaming: the pull and the poll loop start anew,
\* the points are booked, and the status watch runs from the first start on.
Stream(c) ==
  /\ Command
  /\ loopWs' = [loopWs EXCEPT ![c] = "current"]
  /\ \E points \in Cost : cost' = [cost EXCEPT ![c] = points]
  /\ well' = [well EXCEPT ![c] = Started]
  /\ watch' = [watch EXCEPT !.step = IF @ = "off" THEN "idle" ELSE @]
  /\ Replied(c, "started") /\ ThenSays(c, Started)
  /\ UNCHANGED <<net, statusWs, sent, heard, crossed>>

\* The pull could not be started.  An ONVIF camera keeps its points and gets no status.
StreamFails(c) ==
  /\ Command
  /\ Replied(c, "stopped")
  /\ IF c \in OnvifCamera THEN UNCHANGED <<cost, receiving>>
     ELSE cost' = [cost EXCEPT ![c] = 0] /\ ThenSays(c, Stopped)
  /\ UNCHANGED <<net, statusWs, loopWs, well, sent, watch, heard, crossed>>

\* Either command, not streaming.
StreamEnds(c) ==
  /\ Command
  /\ cost' = [cost EXCEPT ![c] = 0] /\ loopWs' = [loopWs EXCEPT ![c] = "none"]
  /\ Replied(c, "stopped")
  /\ IF c \in OnvifCamera THEN UNCHANGED receiving ELSE ThenSays(c, Stopped)
  /\ UNCHANGED <<net, statusWs, well, sent, watch, heard, crossed>>

\* _stop_all_streams
AllStopped == /\ cost' = [c \in Camera |-> 0]
              /\ loopWs' = [c \in Camera |-> IF cost[c] > 0 THEN "none" ELSE loopWs[c]]

\* ResetAIPortStreams
StreamsReset ==
  /\ Command
  /\ AllStopped
  /\ told' = {}
  /\ UNCHANGED <<net, statusWs, well, sent, receiving, watch, heard, crossed>>

\* ResetToDefaults: everything stops and the connection is closed.
Unadopted ==
  /\ Command
  /\ AllStopped /\ Hangup
  /\ Forgotten
  /\ UNCHANGED <<well, sent>>

\* UpdateFirmwareRequest, whether or not it names a version to pin, closes the connection as
\* if the device booted.
FirmwareUpdate ==
  /\ Command
  /\ Hangup
  /\ loopWs' = [c \in Camera |-> Aged(loopWs[c])]
  /\ Forgotten
  /\ UNCHANGED <<cost, well, sent>>

-----------------------------------------------------------------------------
(* _send_status_event, by either thread                                    *)

Held(c) == \/ receiving.step = "send" /\ receiving.hold.cam = c
           \/ watch.step = "send" /\ watch.hold.cam = c

\* Books what is to be said of a camera over ws.
Booked(h, ws) == /\ sent' = [sent EXCEPT ![h.cam] = h.says]
                 /\ crossed' = IF ws = "old" \/ Held(h.cam) THEN crossed \cup {h.cam} ELSE crossed

Arrives(h) == heard' = [heard EXCEPT ![h.cam] = h.says]

ReceiverBooks ==
  /\ receiving.step = "book"
  /\ IF sent[receiving.hold.cam] = receiving.hold.says
     THEN receiving' = [step |-> "idle", hold |-> NoHold] /\ UNCHANGED <<sent, crossed>>
     ELSE Booked(receiving.hold, "current") /\ receiving' = [receiving EXCEPT !.step = "send"]
  /\ UNCHANGED <<net, statusWs, streamVars, watch, heard>>

ReceiverSends ==
  /\ receiving.step = "send" /\ net = "up"
  /\ Arrives(receiving.hold)
  /\ receiving' = [step |-> "idle", hold |-> NoHold]
  /\ UNCHANGED <<net, statusWs, streamVars, sent, watch, crossed>>

\* A send, or a reply, that raises ends run().
ReceiverFails ==
  /\ receiving.step # "idle" /\ net = "broken"
  /\ Hangup
  /\ loopWs' = [c \in Camera |-> Aged(loopWs[c])]
  /\ UNCHANGED <<cost, well, told, sent, heard, crossed>>

\* A pass of the watch: over the connection there is, and the cameras that have points.
PassBegins ==
  /\ watch.step = "idle" /\ statusWs # "none"
  /\ watch' = [watch EXCEPT !.step = "pass", !.ws = statusWs,
                            !.todo = {c \in Camera : cost[c] > 0}]
  /\ UNCHANGED <<net, statusWs, streamVars, sent, receiving, heard, crossed>>

LooksAt(c) ==
  /\ watch.step = "pass" /\ c \in watch.todo
  /\ LET h == [cam |-> c, says |-> well[c]] IN
     IF sent[c] = well[c]
     THEN watch' = [watch EXCEPT !.todo = @ \ {c}] /\ UNCHANGED <<sent, crossed>>
     ELSE /\ Booked(h, watch.ws)
          /\ watch' = [watch EXCEPT !.todo = @ \ {c}, !.step = "send", !.hold = h]
  /\ UNCHANGED <<net, statusWs, streamVars, receiving, heard>>

\* A send over a connection that ended raises, and the pass is over.
WatchSends ==
  /\ watch.step = "send"
  /\ IF watch.ws = "current" /\ net = "up"
     THEN Arrives(watch.hold) /\ watch' = [watch EXCEPT !.step = "pass", !.hold = NoHold]
     ELSE /\ watch' = [watch EXCEPT !.step = "idle", !.ws = "none", !.todo = {}, !.hold = NoHold]
          /\ UNCHANGED heard
  /\ UNCHANGED <<net, statusWs, streamVars, sent, receiving, crossed>>

PassEnds == /\ watch.step = "pass" /\ watch.todo = {}
            /\ watch' = [watch EXCEPT !.step = "idle", !.ws = "none"]
            /\ UNCHANGED <<net, statusWs, streamVars, sent, receiving, heard, crossed>>

WatchStep == PassBegins \/ WatchSends \/ PassEnds \/ \E c \in Camera : LooksAt(c)

\* Frames, or passes over them, stop coming or come again.  Only a camera that is or will be
\* looked at has a health.
Drifts(c) == /\ cost[c] > 0 \/ c \in watch.todo
             /\ well' \in {[well EXCEPT ![c] = h] : h \in Health \ {well[c]}}
             /\ UNCHANGED <<net, statusWs, loopWs, cost, told, sent, receiving,
                            watch, heard, crossed>>

SessionNext ==
  \/ Dials \/ NotReached \/ Hello \/ Break \/ Noticed
  \/ StreamsReset \/ Unadopted \/ FirmwareUpdate
  \/ ReceiverBooks \/ ReceiverSends \/ ReceiverFails \/ WatchStep
  \/ \E c \in Camera : Stream(c) \/ StreamFails(c) \/ StreamEnds(c) \/ Drifts(c)

\* The threads run: the watch, and the receiver with what it began.
SessionSpec == /\ SessionInit /\ [][SessionNext]_sessionVars
               /\ WF_sessionVars(WatchStep)
               /\ WF_sessionVars(ReceiverBooks \/ ReceiverSends)

-----------------------------------------------------------------------------
(* Properties                                                              *)

\* Every variable has its type.
SessionTypeOK ==
  LET Hold == [cam : Camera, says : Health \cup {NotTold}] IN
  /\ net \in {"down", "opening", "up", "broken"} /\ statusWs \in Connection
  /\ loopWs \in [Camera -> Connection] /\ cost \in [Camera -> Cost \cup {0}]
  /\ well \in [Camera -> Health]
  /\ sent \in [Camera -> Health \cup {NotTold}] /\ heard \in [Camera -> Health \cup {NotTold}]
  /\ receiving \in [step : {"idle", "book", "send"}, hold : Hold]
  /\ watch \in [step : {"off", "idle", "pass", "send"}, ws : Connection, todo : SUBSET Camera,
                hold : Hold]
  /\ told \subseteq Camera /\ crossed \subseteq Camera

\* A camera the console was told is streaming, on this connection, sends its events to this
\* connection, and not to one before it.
SpeaksWhereTold == net = "up" => \A c \in told : loopWs[c] = "current"

\* Over a connection that lasts, the console comes to know the health of each camera with
\* points ("the controller gets one full status/capability snapshot"), also after
\* a reconnect, unless a status of it was booked for a connection that had ended (the status is
\* then taken for sent) or by both threads at once (they may send in the other order).
Misled(c) == net = "up" /\ cost[c] > 0 /\ c \notin crossed /\ heard[c] # well[c]
HealthBecomesKnown == \A c \in Camera : []<>~Misled(c)
=============================================================================
