------------------------------- MODULE Delivery -------------------------------
(***************************************************************************)
(* How a camera event's leave, and the pictures it announces, get to       *)
(* Protect (avclient.py).  A leave names the pictures; Protect asks for    *)
(* them by name, and a thread uploads each.                                *)
(*                                                                         *)
(* An event with several participants is closed by one multi-tracker       *)
(* leave.  If Protect asks for none of its pictures within a few seconds   *)
(* it is taken for refused, and a single-tracker leave follows.            *)
(*                                                                         *)
(* Leaves are sent by the loops of several cameras and by timers, the      *)
(* requests are taken by the receiver thread: no lock keeps them apart, so *)
(* what two of them do to _pending_leaves comes one statement at a time.   *)
(***************************************************************************)
EXTENDS Naturals, Sequences, FiniteSets, SequencesExt

CONSTANTS
  LeaveId, LeaveCamera,  \* closed events, and the camera of each
  Snapshot,            \* file names of pictures
  Unsaid, NoLeave, NoRequest,
  MapMax,              \* _SNAPSHOT_FILENAME_MAP_MAX
  MaxNames, MaxAsks    \* bounds of the model: names in a leave, requests of the console

ASSUME LeaveAssumption == IsFiniteSet(LeaveId) /\ NoLeave \notin LeaveId
ASSUME LimitAssumption == MapMax \in Nat \ {0} /\ {MaxNames, MaxAsks} \subseteq Nat

Source == {LeaveCamera[l] : l \in LeaveId}
Request == [name : Snapshot, cam : Source \cup {Unsaid}, of : LeaveId \cup {NoLeave}]

ASSUME RequestAssumption == NoRequest \notin Request

VARIABLES
  records,   \* _snapshot_filename_to_device: names with their camera, oldest first
  names,     \* names[l]: what l's leave announces
  leaving,   \* leaving[l]: how far closing the event is
  unnamed,   \* unnamed[l]: names of l's leave that it has still to record, or its timer to pop
  pending,   \* _pending_leaves: pending[n] is the leave that waits for n to be asked for
  seen,      \* leaves whose pending["seen"] is set
  got,       \* got[l]: leaves of this event that reached the console
  shown,     \* names in the leaves that reached the console
  taking,    \* the request the receiver thread has, with the leave it found waiting for it
  asked,     \* requests taken, whose upload has not begun: name and, if it says so, camera
  streaming, \* cameras with an active stream
  uploads,   \* what was uploaded: the name asked for and the camera in the picture
  asks,      \* number of requests so far
  answered,  \* history: multi-tracker leaves asked about before their time was up
  raced,     \* history: those whose timer looked between the statements that take a request
  raised,    \* history: leaves whose multi-tracker message could not be sent
  forgotten  \* history: names that fell out of the map, or were overwritten

deliveryVars == <<records, names, leaving, unnamed, pending, seen, got, shown, taking, asked,
                  streaming, uploads, asks, answered, raced, raised, forgotten>>

DeliveryInit ==
  /\ records = <<>>
  /\ names = [l \in LeaveId |-> {}] /\ leaving = [l \in LeaveId |-> "open"]
  /\ unnamed = [l \in LeaveId |-> {}]
  /\ pending = [n \in Snapshot |-> NoLeave] /\ seen = {}
  /\ got = [l \in LeaveId |-> 0] /\ shown = {} /\ raised = {}
  /\ asked = {} /\ streaming \in SUBSET Source
  /\ taking = NoRequest /\ raced = {}
  /\ uploads = {} /\ asks = 0 /\ answered = {} /\ forgotten = {}

-----------------------------------------------------------------------------
(* _record_snapshot_filename                                               *)

NamesIn(map) == {map[i].name : i \in DOMAIN map}

Known(n) == n \in NamesIn(records)
CameraOf(n) == records[CHOOSE i \in DOMAIN records : records[i].name = n].cam

\* An entry that is there keeps its place; the oldest beyond the limit are dropped.
WithName(map, n, cam) ==
  LET new == [name |-> n, cam |-> cam]
      all == IF \E i \in DOMAIN map : map[i].name = n
             THEN [i \in DOMAIN map |-> IF map[i].name = n THEN new ELSE map[i]]
             ELSE Append(map, new)
  IN SubSeq(all, 1 + (IF Len(all) > MapMax THEN Len(all) - MapMax ELSE 0), Len(all))

\* A name of l is recorded.
Record(l, n) ==
  LET cam == LeaveCamera[l]
      after == WithName(records, n, cam)
  IN /\ records' = after
     /\ forgotten' = forgotten \cup ((NamesIn(records) \cup {n}) \ NamesIn(after))
                       \cup (IF Known(n) /\ CameraOf(n) # cam THEN {n} ELSE {})

-----------------------------------------------------------------------------
(* Closing an event.  The map of names is looked through after a name is   *)
(* put in; when another thread puts one in meanwhile, that raises.         *)

Requests == <<taking, asked, uploads, asks, answered, raced>>

Then(l, step) == leaving' = [leaving EXCEPT ![l] = step]

\* A participant alone, or several of them.  A name is made of a track's id and the time of its
\* best picture: it may be one an event had before, or, ids being counted per camera, one of
\* another camera's.
Closes(l) ==
  /\ leaving[l] = "open"
  /\ \E set \in SUBSET Snapshot :
       /\ set # {} /\ Cardinality(set) <= MaxNames
       /\ names' = [names EXCEPT ![l] = set]
       /\ IF Cardinality(set) > 1
          THEN Then(l, "multi") /\ unnamed' = [unnamed EXCEPT ![l] = set]
          ELSE Then(l, "single") /\ UNCHANGED unnamed
  /\ UNCHANGED <<records, pending, seen, got, shown, streaming, raised, Requests, forgotten>>

Disturbed(l) == \E k \in LeaveId \ {l} : leaving[k] \in {"multi", "single", "again"}

Arrived(l, set) == got' = [got EXCEPT ![l] = @ + 1] /\ shown' = shown \cup set

\* The multi-tracker leave: its names are recorded one by one,
RecordsName(l) ==
  /\ leaving[l] = "multi"
  /\ \E n \in unnamed[l] : Record(l, n) /\ unnamed' = [unnamed EXCEPT ![l] = @ \ {n}]
  /\ UNCHANGED <<names, leaving, pending, seen, got, shown, streaming, raised, Requests>>

\* which may raise, before anything was waited for or sent.
RecordFails(l) ==
  /\ leaving[l] = "multi" /\ Disturbed(l)
  /\ \E n \in unnamed[l] : Record(l, n)
  /\ Then(l, "again") /\ unnamed' = [unnamed EXCEPT ![l] = {}]
  /\ UNCHANGED <<names, pending, seen, got, shown, streaming, raised, Requests>>

\* Then they are waited for, then the message is sent, then the timer is started.
SendMulti(l) ==
  /\ leaving[l] = "multi" /\ unnamed[l] = {}
  /\ pending' = [n \in Snapshot |-> IF n \in names[l] THEN l ELSE pending[n]]
  /\ Arrived(l, names[l]) /\ Then(l, "waiting")
  /\ UNCHANGED <<records, names, unnamed, seen, streaming, raised, Requests, forgotten>>

\* The send raises: the names are waited for all the same, without a timer, and the
\* single-tracker leave is sent at once.
SendMultiFails(l) ==
  /\ leaving[l] = "multi" /\ unnamed[l] = {}
  /\ pending' = [n \in Snapshot |-> IF n \in names[l] THEN l ELSE pending[n]]
  /\ Then(l, "again") /\ raised' = raised \cup {l}
  /\ UNCHANGED <<records, names, unnamed, seen, got, shown, streaming, Requests, forgotten>>

\* A single-tracker leave, for the one participant or for the best of them.  What it raises is
\* only logged.
SendSingle(l) ==
  /\ leaving[l] \in {"single", "again"}
  /\ \E n \in names[l] : Record(l, n) /\ (Arrived(l, {n}) \/ UNCHANGED <<got, shown>>)
  /\ Then(l, "done")
  /\ UNCHANGED <<names, unnamed, pending, seen, streaming, raised, Requests>>

\* LEAVE_FALLBACK_S after a multi-tracker leave: its names are no longer waited for, one after
\* the other, whoever waits for them by now,
Unawaits(l, n) ==
  /\ \/ leaving[l] = "waiting" /\ n \in names[l] /\ unnamed' = [unnamed EXCEPT ![l] = names[l] \ {n}]
     \/ leaving[l] = "checking" /\ n \in unnamed[l] /\ unnamed' = [unnamed EXCEPT ![l] = @ \ {n}]
  /\ Then(l, "checking")
  /\ pending' = [pending EXCEPT ![n] = NoLeave]
  /\ UNCHANGED <<records, names, seen, got, shown, streaming, raised, Requests, forgotten>>

\* Mistake: only a leave of which every picture was asked for counts as answered.
Taken(l) == taking # NoRequest /\ taking.of = l
ChecksAll(l) ==
  /\ leaving[l] = "checking" /\ unnamed[l] = {}
  /\ Then(l, IF l \in seen /\ names[l] \subseteq {u.name : u \in asked \cup uploads} THEN "done" ELSE "again")
  /\ raced' = IF Taken(l) THEN raced \cup {l} ELSE raced
  /\ UNCHANGED <<records, names, unnamed, pending, seen, got, shown, streaming, raised, taking,
                 asked, uploads, asks, answered, forgotten>>

\* and if none was asked for the event is left again.  A request the receiver has popped but not
\* marked yet goes unnoticed.
Checks(l) ==
  /\ leaving[l] = "checking" /\ unnamed[l] = {}
  /\ Then(l, IF l \in seen THEN "done" ELSE "again")
  /\ raced' = IF Taken(l) THEN raced \cup {l} ELSE raced
  /\ UNCHANGED <<records, names, unnamed, pending, seen, got, shown, streaming, raised, taking,
                 asked, uploads, asks, answered, forgotten>>

-----------------------------------------------------------------------------
(* The console asks for a picture it was told of, by name, at any time and *)
(* more than once.  The receiver thread takes the requests one by one.     *)

\* It pops the leave that waits for the name,
Ask(n, cam) ==
  /\ asks < MaxAsks /\ n \in shown /\ taking = NoRequest
  /\ asks' = asks + 1
  /\ taking' = [name |-> n, cam |-> cam, of |-> pending[n]]
  /\ pending' = [pending EXCEPT ![n] = NoLeave]
  /\ answered' = answered \cup {l \in LeaveId : leaving[l] = "waiting" /\ n \in names[l]}
  /\ UNCHANGED <<records, names, leaving, unnamed, seen, got, shown, asked, streaming, uploads, raced,
                 raised, forgotten>>

\* marks it as seen, acknowledges the request and starts the thread that uploads.
Marks ==
  /\ taking # NoRequest
  /\ seen' = seen \cup ({taking.of} \ {NoLeave})
  /\ asked' = asked \cup {[name |-> taking.name, cam |-> taking.cam]}
  /\ taking' = NoRequest
  /\ UNCHANGED <<records, names, leaving, unnamed, pending, got, shown, streaming, uploads, asks,
                 answered, raced, raised, forgotten>>

\* A request names the camera the picture is of, or none.
Asks(n) == \E l \in LeaveId : /\ n \in names[l]
                            /\ \E cam \in {LeaveCamera[l], Unsaid} : Ask(n, cam)

\* The cameras that announced a picture.
Announcing == {LeaveCamera[l] : l \in {k \in LeaveId : leaving[k] # "open"}}

\* Mistake: the camera that announced a picture last is taken first.
ResolveAnnounced(r) == IF Announcing # {} THEN Announcing
                       ELSE IF Known(r.name) THEN {CameraOf(r.name)} ELSE {}

\* _resolve_snapshot_device: the camera a request is about, by the name, else by the camera it
\* says, if that is one that streams, else the only one that streams, else the only one that
\* announced a picture within SNAPSHOT_FALLBACK_WINDOW_S: any of those that ever did, as the
\* times are left out.
Resolve(r) == IF Known(r.name) THEN {CameraOf(r.name)}
              ELSE IF r.cam \in streaming THEN {r.cam}
              ELSE IF Cardinality(streaming) = 1 THEN streaming ELSE Announcing

\* _upload_snapshot, in a thread of its own.  It may not tell which camera it is about,
\* or have no picture of it.
Upload(r) ==
  /\ r \in asked
  /\ asked' = asked \ {r}
  /\ \/ \E cam \in Resolve(r) : uploads' = uploads \cup {[name |-> r.name, cam |-> cam]}
     \/ UNCHANGED uploads
  /\ UNCHANGED <<records, names, leaving, unnamed, pending, seen, got, shown, taking, streaming, asks,
                 answered, raced, raised, forgotten>>

\* ResetToDefaults
Forget == /\ records # <<>>
          /\ records' = <<>> /\ forgotten' = forgotten \cup NamesIn(records)
          /\ UNCHANGED <<names, leaving, unnamed, pending, seen, got, shown, streaming, raised, Requests>>

DeliveryNext ==
  \/ \E l \in LeaveId : \/ Closes(l) \/ RecordsName(l) \/ SendMulti(l) \/ SendMultiFails(l) \/ RecordFails(l)
                      \/ SendSingle(l) \/ (\E n \in Snapshot : Unawaits(l, n)) \/ Checks(l)
  \/ \E n \in Snapshot : Asks(n)
  \/ Marks
  \/ \E r \in asked : Upload(r)
  \/ Forget

DeliverySpec == DeliveryInit /\ [][DeliveryNext]_deliveryVars

-----------------------------------------------------------------------------
(* Properties                                                              *)

\* Every variable has its type.
DeliveryTypeOK ==
  /\ records \in Seq([name : Snapshot, cam : Source]) /\ Len(records) <= MapMax
  /\ names \in [LeaveId -> SUBSET Snapshot]
  /\ leaving \in [LeaveId -> {"open", "multi", "single", "again", "waiting", "checking", "done"}]
  /\ unnamed \in [LeaveId -> SUBSET Snapshot]
  /\ pending \in [Snapshot -> LeaveId \cup {NoLeave}] /\ seen \subseteq LeaveId
  /\ got \in [LeaveId -> 0..2] /\ shown \subseteq Snapshot /\ raised \subseteq LeaveId
  /\ asked \subseteq [name : Snapshot, cam : Source \cup {Unsaid}]
  /\ streaming \subseteq Source /\ uploads \subseteq [name : Snapshot, cam : Source]
  /\ taking \in Request \cup {NoRequest} /\ raced \subseteq LeaveId
  /\ asks \in 0..MaxAsks /\ answered \subseteq LeaveId /\ forgotten \subseteq Snapshot

SharesName(l) == \E k \in LeaveId \ {l} : names[k] \cap names[l] # {}

\* "Close a multi-participant event in one leave; run fallback() if Protect then requests none of
\* its snapshots within LEAVE_FALLBACK_S": a multi-tracker leave Protect asked about in time is
\* not followed by a single-tracker one, unless it shares a picture with the leave of another
\* event.  The code does not ensure it: the timer may look between the pop and the mark.
AnsweredIsLeftOnce == \A l \in answered : ~SharesName(l) => got[l] = 1

\* It does as long as the timer does not look just there, whatever else comes between: requests
\* while the timer pops the names, more requests, other events' names, timers and failures.
NoticedIsLeftOnce == \A l \in answered \ raced : ~SharesName(l) => got[l] = 1

\* What is uploaded for a name is a picture of the camera that announced it, never of another
\* one ("refusing to guess"), as long as the name is remembered.
RightCamera ==
  \A u \in uploads : u.name \in forgotten \/ \E l \in LeaveId : u.name \in names[l] /\ LeaveCamera[l] = u.cam
=============================================================================
