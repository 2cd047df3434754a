----------------------------- MODULE SessionProofs -----------------------------
(***************************************************************************)
(* Proofs about RunAll, the parent of an instance's processes, and Session, *)
(* its connection to the console, and the types of all four parts.         *)
(***************************************************************************)
EXTENDS MCSession, OnvifPushProofs, StreamSupervisorProofs, TLAPS

Dead == {"killed", "ended"}

\* While it stops its children the parent leaves none alone but those it still waits for; only
\* a second signal takes it out of that.
Stops == Stopping => \A p \in Proc \ toWait : child[p] \in Dead
Handles == parent = "handling" => signals >= 1
RunInv == RunTypeOK /\ Stops /\ Handles /\ NoOrphans

LEMMA RunInitInv == RunInit => RunInv
PROOF BY SignalsAssumption
      DEF RunInit, RunInv, RunTypeOK, Stops, Stopping, Handles, NoOrphans

LEMMA RunNextInv == RunInv /\ [RunNext]_runVars => RunInv'
PROOF
<1> SUFFICES ASSUME RunInv, [RunNext]_runVars PROVE RunInv' OBVIOUS
<1> USE SignalsAssumption DEF RunInv, RunTypeOK, Stops, Stopping, Handles, NoOrphans, Dead, Ended
<1>1. CASE Notice BY <1>1 DEF Notice, StopAll
<1>2. CASE Leave BY <1>2 DEF Leave
<1>3. ASSUME NEW p \in Proc, Ask(p) PROVE RunInv' BY <1>3 DEF Ask
<1>4. ASSUME NEW p \in Proc, Wait(p) PROVE RunInv' BY <1>4 DEF Wait
<1>5. CASE Signal BY <1>5 DEF Signal, StopAll
<1>6. CASE StartAgain BY <1>6 DEF StartAgain
<1>7. ASSUME NEW p \in Proc, ChildEnds(p) PROVE RunInv' BY <1>7 DEF ChildEnds
<1>8. CASE UNCHANGED runVars BY <1>8 DEF runVars
<1>9. QED
  BY <1>1, <1>2, <1>3, <1>4, <1>5, <1>6, <1>7, <1>8 DEF RunNext, ParentStep

LEMMA RunInvariance == RunSpec => []RunInv
PROOF BY RunInitInv, RunNextInv, PTL DEF RunSpec

\* Every variable of the parent has its type.
THEOREM RunTypeCorrect == RunSpec => []RunTypeOK
PROOF
<1>1. RunInv => RunTypeOK BY DEF RunInv
<1>2. QED BY <1>1, RunInvariance, PTL

\* A parent that is gone has left no child alive that was not killed, whenever children end and
\* whenever a signal comes, but for a second one.
THEOREM NobodyIsLeft == RunSpec => []NoOrphans
PROOF
<1>1. RunInv => NoOrphans BY DEF RunInv
<1>2. QED BY <1>1, RunInvariance, PTL

-----------------------------------------------------------------------------
(* The connection.  Each thread holds what it booked until it sends it, and *)
(* may do so over a connection that has ended meanwhile.                   *)

\* What the console was told is of this connection, and so is the one that is up.
ThisConnection ==
  /\ net # "up" => told = {} /\ heard = [c \in Camera |-> NotTold]
  /\ net \in {"down", "opening"} =>
       receiving.step = "idle" /\ watch.ws # "current" /\ statusWs # "current"
  /\ watch.step \in {"pass", "send"} => watch.ws # "none"

ReceiverHolds(c) == receiving.step = "send" /\ receiving.hold.cam = c
WatchHolds(c) == watch.step = "send" /\ watch.hold.cam = c
Sending(c) == ReceiverHolds(c) \/ (WatchHolds(c) /\ watch.ws = "current")

\* What is booked of c is what the one who holds it will send, or what arrived.
Accounted(c) ==
  /\ ~(ReceiverHolds(c) /\ WatchHolds(c))
  /\ ReceiverHolds(c) => sent[c] = receiving.hold.says
  /\ WatchHolds(c) /\ watch.ws = "current" => sent[c] = watch.hold.says
  /\ ~Sending(c) => sent[c] = heard[c]
Accounts == net \in {"opening", "up"} => \A c \in Camera \ crossed : Accounted(c)

SessionInv == SessionTypeOK /\ ThisConnection /\ Accounts /\ SpeaksWhereTold

Holding == [cam : Camera, says : Health \cup {NotTold}]

LEMMA NoHoldType == NoHold \in Holding
PROOF BY CameraAssumption DEF NoHold, Holding

LEMMA SessionInitInv == SessionInit => SessionInv
PROOF
<1> SUFFICES ASSUME SessionInit PROVE SessionInv OBVIOUS
<1>1. SessionTypeOK
  BY NoHoldType, HealthAssumption DEF SessionInit, SessionTypeOK, Connection, Holding
<1>2. ThisConnection /\ Accounts /\ SpeaksWhereTold
  BY DEF SessionInit, ThisConnection, Accounts, SpeaksWhereTold
<1>3. QED BY <1>1, <1>2 DEF SessionInv

\* Each action keeps the types.
LEMMA SessionTypeStep == SessionTypeOK /\ [SessionNext]_sessionVars => SessionTypeOK'
PROOF
<1> SUFFICES ASSUME SessionTypeOK, [SessionNext]_sessionVars PROVE SessionTypeOK' OBVIOUS
<1> USE NoHoldType, HealthAssumption, CameraAssumption
    DEF SessionTypeOK, Connection, Holding, streamVars
<1>1. CASE Dials BY <1>1 DEF Dials
<1>2. CASE NotReached BY <1>2 DEF NotReached
<1>3. CASE Hello BY <1>3 DEF Hello
<1>4. CASE Break BY <1>4 DEF Break, Forgotten
<1>5. CASE Noticed BY <1>5 DEF Noticed, Hangup, Aged
<1>6. CASE StreamsReset BY <1>6 DEF StreamsReset, AllStopped
<1>7. CASE Unadopted BY <1>7 DEF Unadopted, AllStopped, Hangup, Aged, Forgotten
<1>8. CASE FirmwareUpdate BY <1>8 DEF FirmwareUpdate, Hangup, Aged, Forgotten
<1>9. CASE ReceiverBooks BY <1>9 DEF ReceiverBooks, Booked
<1>10. CASE ReceiverSends BY <1>10 DEF ReceiverSends, Arrives
<1>11. CASE ReceiverFails BY <1>11 DEF ReceiverFails, Hangup, Aged
<1>12. CASE PassBegins BY <1>12 DEF PassBegins
<1>13. CASE WatchSends
  <2>1. watch.hold \in Holding /\ watch.hold.cam \in Camera OBVIOUS
  <2>2. CASE watch.ws = "current" /\ net = "up"
    <3>1. /\ watch' = [watch EXCEPT !.step = "pass", !.hold = NoHold]
          /\ heard' = [heard EXCEPT ![watch.hold.cam] = watch.hold.says]
          /\ UNCHANGED <<net, statusWs, streamVars, sent, receiving, crossed>>
      BY <1>13, <2>2 DEF WatchSends, Arrives
    <3>2. heard' \in [Camera -> Health \cup {NotTold}] BY <2>1, <3>1
    <3>3. QED BY <3>1, <3>2
  <2>3. CASE ~(watch.ws = "current" /\ net = "up")
    <3>1. /\ watch' = [watch EXCEPT !.step = "idle", !.ws = "none", !.todo = {}, !.hold = NoHold]
          /\ UNCHANGED <<net, statusWs, streamVars, sent, heard, receiving, crossed>>
      BY <1>13, <2>3 DEF WatchSends
    <3>2. QED BY <3>1
  <2>4. QED BY <2>2, <2>3
<1>14. CASE PassEnds BY <1>14 DEF PassEnds
<1>15. ASSUME NEW c \in Camera, LooksAt(c) PROVE SessionTypeOK'
  <2> DEFINE h == [cam |-> c, says |-> well[c]]
  <2>1. h \in Holding /\ h.cam = c /\ h.says = well[c] OBVIOUS
  <2>2. CASE sent[c] = well[c] BY <1>15, <2>2 DEF LooksAt
  <2>3. CASE sent[c] # well[c]
    <3>1. /\ watch' = [watch EXCEPT !.todo = watch.todo \ {c}, !.step = "send", !.hold = h]
          /\ sent' = [sent EXCEPT ![c] = well[c]] /\ crossed' \in {crossed, crossed \cup {c}}
          /\ UNCHANGED <<net, statusWs, loopWs, cost, well, told, receiving, heard>>
      BY <1>15, <2>1, <2>3 DEF LooksAt, Booked
    <3>2. QED BY <2>1, <3>1
  <2>4. QED BY <2>2, <2>3
<1>16. ASSUME NEW c \in Camera, Stream(c) PROVE SessionTypeOK'
  BY <1>16 DEF Stream, Replied, ThenSays
<1>17. ASSUME NEW c \in Camera, StreamFails(c) PROVE SessionTypeOK'
  BY <1>17 DEF StreamFails, Replied, ThenSays
<1>18. ASSUME NEW c \in Camera, StreamEnds(c) PROVE SessionTypeOK'
  BY <1>18 DEF StreamEnds, Replied, ThenSays
<1>19. ASSUME NEW c \in Camera, Drifts(c) PROVE SessionTypeOK' BY <1>19 DEF Drifts
<1>20. CASE UNCHANGED sessionVars BY <1>20 DEF sessionVars
<1>21. QED
  BY <1>1, <1>2, <1>3, <1>4, <1>5, <1>6, <1>7, <1>8, <1>9, <1>10, <1>11, <1>12, <1>13, <1>14,
     <1>15, <1>16, <1>17, <1>18, <1>19, <1>20 DEF SessionNext, WatchStep

\* What the watch's steps make of its state, field by field.
LEMMA WatchSendsState ==
  ASSUME SessionTypeOK, WatchSends
  PROVE  /\ watch.step = "send" /\ UNCHANGED <<net, statusWs, streamVars, sent, receiving, crossed>>
         /\ watch'.ws # "current" \/ watch'.ws = watch.ws
         /\ \/ /\ watch.ws = "current" /\ net = "up" /\ watch'.step = "pass" /\ watch'.ws = "current"
               /\ heard' = [heard EXCEPT ![watch.hold.cam] = watch.hold.says]
            \/ /\ ~(watch.ws = "current" /\ net = "up") /\ watch'.step = "idle" /\ watch'.ws = "none"
               /\ UNCHANGED heard
PROOF BY DEF SessionTypeOK, WatchSends, Arrives, streamVars

LEMMA LooksAtState ==
  ASSUME SessionTypeOK, NEW c \in Camera, LooksAt(c)
  PROVE  /\ watch.step = "pass" /\ watch'.ws = watch.ws
         /\ UNCHANGED <<net, statusWs, streamVars, heard, receiving>>
         /\ \/ watch'.step = "pass" /\ UNCHANGED <<sent, crossed>>
            \/ /\ watch'.step = "send" /\ watch'.hold = [cam |-> c, says |-> well[c]]
               /\ sent' = [sent EXCEPT ![c] = well[c]]
               /\ crossed' = IF watch.ws = "old" \/ Held(c) THEN crossed \cup {c} ELSE crossed
PROOF
<1> DEFINE h == [cam |-> c, says |-> well[c]]
<1>1. h.cam = c /\ h.says = well[c] OBVIOUS
<1>2. CASE sent[c] = well[c] BY <1>2 DEF SessionTypeOK, LooksAt, streamVars
<1>3. CASE sent[c] # well[c]
  <2>1. /\ watch.step = "pass"
        /\ watch' = [watch EXCEPT !.todo = watch.todo \ {c}, !.step = "send", !.hold = h]
        /\ sent' = [sent EXCEPT ![c] = well[c]]
        /\ crossed' = IF watch.ws = "old" \/ Held(c) THEN crossed \cup {c} ELSE crossed
        /\ UNCHANGED <<net, statusWs, streamVars, heard, receiving>>
    BY <1>1, <1>3 DEF LooksAt, Booked
  <2>2. watch'.step = "send" /\ watch'.hold = h /\ watch'.ws = watch.ws
    BY <2>1 DEF SessionTypeOK
  <2>3. QED BY <2>1, <2>2
<1>4. QED BY <1>2, <1>3

LEMMA SessionNextInv == SessionInv /\ [SessionNext]_sessionVars => SessionInv'
PROOF
<1> SUFFICES ASSUME SessionInv, [SessionNext]_sessionVars PROVE SessionInv' OBVIOUS
<1> DEFINE Rest == ThisConnection /\ Accounts /\ SpeaksWhereTold
<1>1. SessionTypeOK /\ Rest BY DEF SessionInv
<1>2. SessionTypeOK' BY <1>1, SessionTypeStep
<1>3. Rest'
  <2> USE <1>1, <1>2, HealthAssumption
      DEF ThisConnection, Accounts, Accounted, Sending, ReceiverHolds, WatchHolds,
          SpeaksWhereTold, SessionTypeOK, streamVars
  <2>1. CASE Dials BY <2>1 DEF Dials
  <2>2. CASE NotReached BY <2>2 DEF NotReached
  <2>3. CASE Hello BY <2>3 DEF Hello
  <2>4. CASE Break BY <2>4 DEF Break, Forgotten
  <2>5. CASE Noticed BY <2>5 DEF Noticed, Hangup, Aged
  <2>6. CASE StreamsReset BY <2>6 DEF StreamsReset, AllStopped, Command
  <2>7. CASE Unadopted BY <2>7 DEF Unadopted, AllStopped, Hangup, Aged, Forgotten
  <2>8. CASE FirmwareUpdate BY <2>8 DEF FirmwareUpdate, Hangup, Aged, Forgotten
  <2>9. CASE ReceiverBooks BY <2>9 DEF ReceiverBooks, Booked, Held
  <2>10. CASE ReceiverSends BY <2>10 DEF ReceiverSends, Arrives
  <2>11. CASE ReceiverFails BY <2>11 DEF ReceiverFails, Hangup, Aged
  <2>12. CASE PassBegins BY <2>12 DEF PassBegins
  <2>13. CASE WatchSends
    <3>1. ThisConnection' /\ SpeaksWhereTold' BY <2>13, WatchSendsState
    <3>2. CASE /\ watch.ws = "current" /\ watch'.step = "pass"
               /\ heard' = [heard EXCEPT ![watch.hold.cam] = watch.hold.says]
      <4>1. /\ watch.step = "send" /\ UNCHANGED <<net, sent, receiving, crossed>>
            /\ watch.hold.cam \in Camera
        BY <2>13, WatchSendsState
      <4>2. QED BY <3>1, <3>2, <4>1
    <3>3. CASE watch'.step = "idle" /\ UNCHANGED heard BY <2>13, <3>3, WatchSendsState
    <3>4. QED BY <2>13, <3>1, <3>2, <3>3, WatchSendsState
  <2>14. CASE PassEnds BY <2>14 DEF PassEnds
  <2>15. ASSUME NEW c \in Camera, LooksAt(c) PROVE Rest'
    <3>1. ThisConnection' /\ SpeaksWhereTold' BY <2>15, LooksAtState
    <3>2. CASE watch'.step = "pass" /\ UNCHANGED <<sent, crossed>> BY <2>15, <3>2, LooksAtState
    <3>3. CASE watch'.step = "send" /\ sent' = [sent EXCEPT ![c] = well[c]]
      <4>1. CASE watch.ws = "old" \/ Held(c) BY <2>15, <3>3, <4>1, LooksAtState DEF Held
      <4>2. CASE watch.ws = "current" /\ ~Held(c) BY <2>15, <3>3, <4>2, LooksAtState DEF Held
      <4>3. QED BY <4>1, <4>2, <2>15, LooksAtState DEF Connection
    <3>4. QED BY <2>15, <3>1, <3>2, <3>3, LooksAtState
  <2>16. ASSUME NEW c \in Camera, Stream(c) PROVE Rest'
    BY <2>16 DEF Stream, Replied, ThenSays, Command
  <2>17. ASSUME NEW c \in Camera, StreamFails(c) PROVE Rest'
    BY <2>17 DEF StreamFails, Replied, ThenSays, Command
  <2>18. ASSUME NEW c \in Camera, StreamEnds(c) PROVE Rest'
    BY <2>18 DEF StreamEnds, Replied, ThenSays, Command
  <2>19. ASSUME NEW c \in Camera, Drifts(c) PROVE Rest' BY <2>19 DEF Drifts
  <2>20. CASE UNCHANGED sessionVars BY <2>20 DEF sessionVars
  <2>21. QED
    BY <2>1, <2>2, <2>3, <2>4, <2>5, <2>6, <2>7, <2>8, <2>9, <2>10, <2>11, <2>12, <2>13, <2>14,
       <2>15, <2>16, <2>17, <2>18, <2>19, <2>20 DEF SessionNext, WatchStep
<1>4. QED BY <1>2, <1>3 DEF SessionInv

LEMMA SessionInvariance == SessionSpec => []SessionInv
PROOF BY SessionInitInv, SessionNextInv, PTL DEF SessionSpec

\* Every variable of the session has its type.
THEOREM SessionTypeCorrect == SessionSpec => []SessionTypeOK
PROOF
<1>1. SessionInv => SessionTypeOK BY DEF SessionInv
<1>2. QED BY <1>1, SessionInvariance, PTL

\* A camera the console was told is streamed sends its events over the connection it was told on,
\* over any sequence of commands, failures and reconnects.
THEOREM EventsGoWhereTold == SessionSpec => []SpeaksWhereTold
PROOF
<1>1. SessionInv => SpeaksWhereTold BY DEF SessionInv
<1>2. QED BY <1>1, SessionInvariance, PTL

BookedIsHeard == net = "up" => \A c \in Camera \ crossed : sent[c] = heard[c] \/ Held(c)

\* Over a connection that is up, what _last_status_sent says of a camera is what the console heard,
\* unless it is being sent or was booked for a connection that had ended, or twice at once.  It is
\* what the watch relies on when it stays silent, and the safety part of HealthBecomesKnown.
THEOREM BooksAreTrue == SessionSpec => []BookedIsHeard
PROOF
<1>1. SessionInv => BookedIsHeard
  BY DEF SessionInv, Accounts, Accounted, Sending, BookedIsHeard, Held, ReceiverHolds, WatchHolds
<1>2. QED BY <1>1, SessionInvariance, PTL

-----------------------------------------------------------------------------
(* All parts of an instance                                                *)

\* The processes, the session, the pulls and the pushes have their types in every behaviour that
\* is checked of them.
THEOREM InstanceTypeCorrect == InstanceSpec => []InstanceTypeOK
PROOF
<1> DEFINE Inv == RunInv /\ SessionInv /\ PullInv /\ PushInv
<1>1. InstanceInit => Inv
  BY RunInitInv, SessionInitInv, PullInitInv, PushInitInv DEF InstanceInit
<1>2. Inv /\ [InstanceNext]_instanceVars => Inv'
  <2>1. [InstanceNext]_instanceVars => /\ [RunNext]_runVars /\ [SessionNext]_sessionVars
                                       /\ [PullNext]_pullVars /\ [PushNext]_pushVars
    BY DEF InstanceNext, In, instanceVars
  <2>2. QED BY <2>1, RunNextInv, SessionNextInv, PullNextInv, PushNextInv
<1>3. Inv => InstanceTypeOK
  BY DEF RunInv, SessionInv, PullInv, PushInv, InstanceTypeOK
<1>4. QED BY <1>1, <1>2, <1>3, PTL DEF InstanceSpec
=============================================================================
