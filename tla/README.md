# Verification of diy-port

diy-port makes a small computer present itself to a UniFi Protect console as an
"AI Port": it is discovered, adopted and given cameras; it pulls each camera's
stream, detects objects in it, and reports smart-detect events with snapshots.
This directory holds TLA+ models of its concurrent and stateful parts, the TLC
runs that check them on small instances, and proofs that TLAPS checks for every
instance. Line numbers are those of `src/diyport/avclient.py` unless a file is
named.

To repeat a run: `tlc -config CameraEvent.cfg MCCameraEvent.tla`; to repeat the
proofs: `tlapm CameraEventProofs.tla`.

## 1. Inventory

One instance is four processes, started by `run_all.py` and stopped together
when any of them ends. They share files (`adopt_state.json`, `fw_version.json`,
`device_name`) and a RAM directory of snapshots.

| Component | State | Operations | What makes it correct |
|---|---|---|---|
| **Camera events** (`_motion_tick`) | tracks, recently closed tracks, the open event with its finished list; under `_motion_lock` | one tick per analysed frame | an event is open exactly while an object takes part in it; one leave, naming every participant once; one event of a camera at a time |
| **Motion detector threads** (`_start_motion_detector`, `_stop_motion_detector`) | poll loop, stop event, thread | start, stop with or without the tracks, join with a timeout | no event dangles after a stop, whatever tick runs in between |
| **Stream pulls** (`_start_stream`, `_stop_stream`, `_restart_stalled_pulls`) | `_active_streams`, `_stream_points`, restart counts; no lock | Protect's start, stop and reset; restart by the reader thread of a dead pull; kill of a hung one | one pull per camera, none after a stop, one again after a failure, a growing backoff |
| **ONVIF pushes** (`onvif_push.py`) | source, wanted destinations and pushes per camera; a thread per push | set source, stop, configure, stop all; connect, push, retry | what is pushed is what was asked for last; no push is lost track of or outlives its stop |
| **Frame exchange** | latest frame, number and time, JPEG ring, snapshot file; `_frame_cond` | frame reader, JPEG reader, poll loop, statistics | a frame is described with its own picture and time; nothing of a stopped pull stays |
| **Line crossing events** | per track: last center, crossings and the event of each line | cross, close, resume; lines change | a line event that was entered is left, and over when it is; the crossings add up |
| **Leave delivery** | pending leaves, snapshot file names, timers, the connection | multi-tracker leave, fallback after 4 s, `GetRequest`, upload | an event Protect asked about is left once; a name brings its own camera's picture |
| **Status watch** | last status sent per camera | check every few seconds; clear on connect | Protect knows the latest health |
| **Classic connection** (`run`, `main`, `handle_function`) | connection, used tokens, settings | connect, receive, dispatch, un-adopt | the console's picture of the cameras is the port's; a token is spent once |
| **ucp4 connection** (`ucp4_client.py`) | used tokens | wait for adoption, connect, answer, watch the file | as above |
| **HTTP API** (`http_api.py`) | `adopt_state.json` | info, adopt, snapshot, status; threaded | an adoption is never lost or torn |
| **Discovery** (`discovery.py`) | none | answer broadcasts | - |
| **Process supervision** (`run_all.py`) | four children | poll, stop all, signals | all run or none |
| **Instance manager, web UI** (`instance_manager.py`, `sysinfo_server.py`) | registry file, units, state directories; no lock | create, register, refresh, destroy, each step of which may fail or be killed | registry and units agree; destroyed is gone |
| **Detection pipeline** (`regions.py`, `_detect_regions`, matchers, `stationary.py`, zones) | per track: box history, parked spot and its anchor; caches; three zone tables | where to look, which box is whose, did a parked car move, which zones is an object in | nothing trackable is missed, no box is shown for long without a look, a track keeps its object, a zone is looked up whole |
| **Enrichment** (`enrich.py`, `apple_fm.py`, `facedb.py`) | job queue, worker, helper process, face database, votes | ask, wait, give up; download, load, match; vote | an answer belongs to its question; a name rests on pictures; the database is one that was sent |
| **Camera clock**, FLV rewriting, replay | numeric or pure | - | - |

How they interact: the receiver thread runs `handle_function` for each command
of Protect; it starts and stops pulls, poll loops and pushes. A pull's reader
threads publish frames and JPEGs and wake the camera's poll loop, which runs the
ticks; a tick asks the detector where to look, matches what it finds with the
tracks, enriches and reports it on the connection its loop was started with.
The status watch kills hung pulls. Leaves are followed by `GetRequest`s for
snapshots that other threads upload. Only `_motion_lock`, `_frame_lock`, the
helper's and the push manager's locks exist: pulls, points, status, zones and
snapshot names are shared without one, as are the files.

What is hard: steps of the receiver, reader, poll, timer and HTTP threads in any
order (a start, a stop or a restart takes seconds and is not atomic); tracks that
park, close, resume, join and leave in one tick; caches that stand in for a look;
answers that come late; failures and ends in the middle of a handler; what must
still happen after every failure. `PROJECT.json` lists each hazard at its line,
with the properties that cover it or the reason none does.

## 2. Modules

| Module | Models | Extends |
|---|---|---|
| `EventProtocol` | what the messages of a camera's events promise Protect (abstract) | |
| `CameraEvent` | the motion tick | |
| `CameraControl` | the threads that run and stop the ticks | `CameraEvent` |
| `StreamSupervisor` | the pulls of one camera | |
| `OnvifPush` | the pushes of one ONVIF camera | |
| `RunAll`, `Session` | the processes of an instance; its connection to the console | |
| `Adoption`, `Instances` | the adoption state and its three users; the instances of a box | |
| `Delivery`, `LineEvents` | leaves and their pictures; line crossings | |
| `FrameExchange` | a camera's pictures, from pull to tick | |
| `Regions`, `Matching`, `Parking`, `Zones` | the state-keeping parts of detection | |
| `VehicleAnswers`, `VehicleHelper`, `Plates` | what is asked and told of vehicles | |
| `FaceNames`, `KnownFaces`, `FaceLinks` | whose face it is | |
| `MC...` | small instances for TLC | each its modules |
| `CameraEventProofs`, `CameraControlProofs`, `StreamSupervisorProofs`, `OnvifPushProofs` | theorems | each its module |
| `SessionProofs` | theorems | `MCSession` with `RunAll`, `Session`; `StreamSupervisorProofs`, `OnvifPushProofs` |
| `PortProofs` | theorems | `MCPort` with `Adoption`, `Instances`, `Delivery`, `LineEvents`, `FrameExchange` |
| `VisionProofs` | theorems | `VehicleHelper`, `VehicleAnswers`, `Parking`, `FaceNames`, `KnownFaces` |
| `DetectionProofs` | theorems | `MCVision` with `Matching`, `Zones`, `FaceLinks`, `Regions`; `VisionProofs`, `CameraEventProofs` |

Operators named in a comment that begins with "Mistake" are variants of the
operator below them with a plausible bug. No specification uses them: put in
place of the operator they show that a property can fail.

`MCPort` and `MCVision` put parts that share no state into one run: a behaviour is one of
one part, its `focus`, and each part's constants are its own, so its
state space is that of the part alone. `MCSession` does the same for the four parts whose
liveness is checked (`RunAll`, `Session`, `StreamSupervisor`, `OnvifPush`), each with its own
fairness. What interacts is composed: `CameraControl` with the ticks it
runs; a pull's threads, the poll loop and the stop in `FrameExchange`;
HTTP threads and both clients in `Adoption`; receiver, status watch and
console in `Session`.

### CameraEvent

A tick runs under `_motion_lock` and is one action, `MotionTick`. Its input is an
observation `o`: which tracks a detection matched, which ids are new, which
parked objects moved off their spot, which tracks are ready to confirm, still,
in a zone, held or expired. Detector, matcher (either one), scores, zones and
clocks decide these numerically; here they are anything the code could
find for the tracks there are (`Matching`, `Parking` and `Zones` look into some). What
the tick does with them is the code's, one operator per numbered stage of
`_motion_tick`:

| Stage | Operator |
|---|---|
| 1 follow, miss, drop, close, rejoin | `Follow` |
| 2 resume or start a track | `Reappear` |
| 2b confirm | `Confirm` |
| 3 park stopped cars | `Park` |
| 3b confirm faces and plates with their parent | `ConfirmWithParent` |
| 3c wait for a zone | `HoldForZones`, `Zoned` |
| 4 the event | `OpenEvent`, `NoEventYet`, `CloseEvent`, `ContinueEvent` |

`dev` is the camera's `_motion_state` entry reduced to what decides events; the
finished list is kept as a count per track, so a double entry is seen. `edge`
and `leaves` record what was sent; `took` and `named` are history.
Track ids return to use once nothing refers to them.

Which tracks may get ready to confirm, and which may be held, is `MayGetReady` and `MayBeHeld`: a
car or person needs more than its first frame (`MIN_HITS` is 2), but a face whose first read is
large enough is nameable at once (2928) and confirms with its person in that very tick (3b); a
face is held while its person is tracked and not parked, as the loop has them by then: a person
that rejoined earlier in the same loop holds it too.

Assumed: `awaiting_zone` is left only through a zone. A message
that cannot be sent changes nothing of this state: `_send_event_message` catches
what a send raises (2235-2247), so the tick goes on as if it was sent and `edge`
says what was attempted.

Properties: `EventFollowsActive` (an event is open exactly while an object takes part
in it), `LeavesNameEach` (a leave names every participant, and each once), and
`ImplementsProtocol`: the ticks refine `EventProtocol`, with its liveness (an
event that was entered is left). The fairness is that the poll loop goes on
ticking while an event is open; it does, on each frame and every
`DETECT_INTERVAL_S` without one. The event's age then reaches the limit, which is
why an event ends even when its objects stay. Only the age and the end are asked
for, never a detection.

### CameraControl

The poll loop (`Wake`, `PollTick`, `PollExit`), a tick that outlives its join
(`OrphanTick`), and the receiver thread through the steps of a start
(`StartCommand`; `StartFails` when the pull raises), a reset or a stop:
`TakeTracks` under the lock, `SendLeave` for each event after it, `SetStop`,
`Joined` or `JoinTimeout`. The pull's own restarts reset the startup window
(`PullRestart`). A tick given up on is assumed to have ended before the next stop
command. OnvifStreamControl takes the same steps.

`StoppedIsLeft`, `OneInProgress` and `QuietAfterLeave` say what ticks over fresh
state in the middle of a stop cannot do. They rest on a small fact: a stop
switches off the frames first and the state it discards starts a new startup
window, in which nothing opens an event.

### StreamSupervisor

One camera's pulls: `proc`, `seen` and `reader` per pull, the registry `active`,
whether the camera's points are booked (`points`), the restart `count`. A start
is three steps (stop; probe, run and register; book the points), a restart five,
and all interleave: there is no lock. `Die` and `Hang` come at any time.

Two things the code does not ensure are in section 4.
Both need a command in the middle of a restart, which the history variable
`crossing` records; `OnePullUncrossed` and `StoppedStaysUncrossed` say that
nothing else breaks them. A start crosses a restart at any stage of it, a stop
only one that is past its check that the stream is wanted. `Supervised` and
`BackoffGrows` hold whatever crosses.

`Recovers` is liveness: a camera that is streamed, whose pull ends or hangs, is
pulled again. Fair are the receiver's own steps, each reader thread's next step
(`WF_pullVars(ReaderStep(p))`: reads, waits and the probe have timeouts) and the
status watch (it looks every few seconds). Nothing is asked of the source or of
Protect. A restart that raises ends its thread, which the property excludes. A start that fails
does so before the new pull is registered (`StartFails`); what may still fail afterwards (the
reader threads or the poll loop cannot be started) is not modelled. Of several free identities a
new pull gets a fixed one: they are alike.

### OnvifPush

`PushManager` holds its lock over each operation, so `SetSource`, `StopDevice`,
`Configure` and `StopAllPushes` are one action each, with the `_sync` that ends them
(`Sync`). A push thread is between attempts (`Loop`), in `create_connection`
(`Connect`, `ConnectFails`) or pushing (`SourceEnds`, `PushEnds`). `FlvPush.stop`
sets the event and terminates the ffmpeg there is, which is none while the thread
connects. `clear_device` is not modelled: nothing calls it.

`PushesAreOwned`: the threads that go on trying are exactly those in the table.
`ResumesAsAsked`: a camera with a source is pushed to what Protect asked for
last, over stops, repeats and configurations without a usable destination.
`StoppedEnds`: a push stopped while it waits or pushes ends; fair are the
thread's steps, and that connecting ends within its timeout.

### RunAll and Session

`RunAll` is the parent of an instance's processes. A child may end at any time and
ignore TERM; a signal raises `KeyboardInterrupt` wherever the parent is, also in
the middle of the stopping (`Ask`, `Wait` per child) that a child's end began.
`NoOrphans` says that no child is left unasked or unkilled, `AllOrNone` that an instance never
runs on in part. A second signal while the first is handled ends the parent on the
spot, with children unasked: `NoOrphans` excepts it.

`Session` is the connection loop (`Dials`, `Hello`, `Break`, `Noticed`), the commands
that change what the console thinks of a camera, and `_send_status_event` by the
receiver and the status watch: both book in `_last_status_sent` (`ReceiverBooks`,
`LooksAt`) and send afterwards. `SpeaksWhereTold`: a camera the console was told is
streamed sends its events over this connection, although a poll loop keeps the one
it was started with. `HealthBecomesKnown` is liveness: over a connection that lasts the
console is not misled for ever. Fair are the watch (a loop with a sleep) and
the receiver's steps once it has begun a command; nothing is asked of the network.

### Adoption, Instances

`Adoption`: the HTTP threads write `adopt_state.json` step by step (`Open`,
`Write`, `Replace`; one temporary file name for all threads of the process, hence
`fd`, which follows a file that is renamed), the two clients read it (`ClassicDial` and
again in `ClassicHeaders`, `Ucp4Dial`, `Watch`), `ResetToDefaults` empties it, and
`Restart` is a crash at any of these steps. `AdoptionIsHonest`: what a reader sees is
whole, a token is presented once, and adoption is claimed only while it is on disk.

`Instances`: create, register, refresh and destroy as the steps between which they
may fail or be killed, two processes at a time over a registry without a lock.
`AgreeAtRest` (registry, units and state directories agree when nothing disturbed an
operation), `DestroyedIsGone`. All write one `registry.json.tmp`: two that write at once may leave
what cannot be read, which counts as no registry (`Replaced`). What systemd answers to a disable is
ignored (`instance_manager.py:303`, `DisableFails`): the unit may stay enabled, and run, without a
file or an entry; `DestroyedIsGone` asks only of a disable that worked.

### Delivery, LineEvents

`Delivery`: a leave's names are recorded in the bounded map one by one (`RecordsName`; another
camera's leave may come in between), waited for, and sent; the timer, the console's requests and
the uploads (`Upload`, by `Resolve`) come in any order, sends fail, streams stop. No lock keeps the
threads apart, so what the receiver and a timer do to `_pending_leaves` comes one statement at a
time: the receiver pops the entry a request is for (`Ask`, 4233) and marks it (`Marks`, 4235); the
timer pops the leave's names one after the other (`Unawaits`, 2479-2480) and then reads the mark
(`Checks`, 2481). The leaves of two cameras share the map, and may have names in common: tracker
ids are counted per camera.

`AnsweredIsLeftOnce` is what the docstring of `_send_multi_leave` says, and is violated (section
4): the timer may look between the pop and the mark. `NoticedIsLeftOnce` says that this is the only
way: whatever else interleaves, an event asked about in time is left once. `RightCamera`: what
is uploaded for a name is of a camera that announced it, while the name is remembered. Times are left out: a
request in time is one before the timer begins, and the window of recent announcements is open.

`LineEvents`: the side of a line is computed from the coordinates, a crossing enters,
continues or (when the track closes) leaves the line's event, and sends may fail. A closed track is
kept for a while and may resume (`Resumes`, 2887-2911), with its counts, at any place: `prev_center`
is set there and no line on the way is compared. `LinesAddUp` joins three: what was entered is left
(`LineEventsAreLeft`), what was left is over also for a track that resumes (`LeftIsOver`), and the
crossings counted since the track was confirmed or last resumed add up to where it went since
(`CrossingsAddUp`).

### FrameExchange

`ReadsFrame`/`StoresFrame` and `StoresJpeg`/`WritesSnapshot` are the two reader
threads of each pull, `Wakes`, `Begins`, `Classifies`, `AsksJpeg` and `Notes` the poll
loop's pass, `StopStream` and `StartStream` the receiver. A thread of a replaced pull may still store
what it holds (`late`). `OnePicture`: a pass works with one picture throughout, a stop
leaves nothing behind unless a thread was late, and no more passes are counted than frames.

### Regions, Matching, Parking, Zones

`Regions` computes what a pass looks at: regions around motion and tracks (with
clustering), parked spots repeated without a look (`seeded`), cut-off boxes looked at again
or reused, overlapping boxes merged. It is geometry on small rectangles, with the code's
fractions; an object is found where a region shows enough of it. `RegionsAreBacked` joins
`SeenWhole` (whatever fits a region and is tracked, moves, or is there in the startup window comes
out of a pass whole) and `BoxesAreBacked` (no box is shown for long without a look). Both except
objects that were last looked for in a region that ends short of the boxes it was made for
(`cutShort`). The frames of the run include such a one, and `RegionsCover`, which has
no exception, is violated by it (section 4).

`Matching` is `_norfair_match` with its two fallbacks (`Match`) and what the tick does with
the result (`Update`). Norfair itself is external: it associates detections with its objects in
any way that is one to one, and their order (`Followed`) is left open; what is opened is gone
through in order (`Opened`). `MatchesAreSound`, `FollowedKeepsTrack`.

`Parking` is a parked vehicle's moved ticks, its pixel anchor and `still_there` with
its history of looks. `RejoinsOnEvidence`: a vehicle is only reported as moving again when
its spot was seen changed twice, or drifting, or when there was nothing to compare.

`Zones`: the receiver's three assignments and the tick's three reads interleave;
polygons are looked up with the code's even-odd rule. `ZonesAreAsDrawn`: a look-up that no
change of the tables crossed says what the last message drew. `BordersAreOwned`: a point on the
border of two zones belongs to one of them.

### VehicleAnswers, VehicleHelper, Plates

`VehicleAnswers` is the queue of the vehicle model (bounded, a full one drops), the worker,
and the close that waits for an answer (`FmHold`). `AnswersAreAwaited`: an answer that is owed
was asked for, and a track closes only without one, or after its wait.

`VehicleHelper` is the helper process behind it: pipes, a helper that dies or hangs at any
time, a call that gives up (`GivesUp`) and kills it. `HelperAnswersItsCall`: an answer is
the one to the picture of this call, never a late one to the call before.

`Plates` computes the vote: Jaro-Winkler similarity on short texts, groups, the
majority length, each place by confidence. `NoMisreadSticks`: where
all reads of a track but one are the same, that is the plate reported, or none yet. The misread gets
through only if it is at least as sure as all the others together, and never so that the vote counts
as settled (`PLATE_CONFIDENT`), after which the vehicle is read no more. What is measured rather than kept is
joined in `PicturesAreRead`: it, `RegionsAreBacked` and `BordersAreOwned`.

### FaceNames, KnownFaces, FaceLinks

`FaceNames`: a snapshot file replaced by one thread, its time and its bytes read one after
the other by another, a vote per subject, the embedding held back. `KnownFaces`: several downloads over one temporary
name, a lazy load, a crash. `FaceLinks`: which person a face is given to, how tracks find each
other again, and what a leave says of them. Their properties are joined in `FacesAreKnown`;
`AnswersAreAwaited` and `HelperAnswersItsCall` in `VehiclesAreKnown`.

## 3. Runs

| Run | Instance | Checks |
|---|---|---|
| `camera_event` | a person and a car, an event limit of 2 ticks, one event | type, `EventFollowsActive`, `LeavesNameEach`, `ImplementsProtocol` |
| `camera_event_zone` | a person and a car, two events | violation of `FinishedWereZoned` |
| `camera_control` | two people, 2 events | type, `StoppedIsLeft`, `OneInProgress`, `QuietAfterLeave` |
| `camera_control_again` | the same | violation of `OneLeavePerEvent` |
| `stream_stop` | three pulls, counts to 3 | violation of `StoppedStays` |
| `onvif_stop` | one channel, three push threads, two sources, two good destinations and a bad one | violation of `StoppedPushesNothing` |
| `session` | the first four parts below | type and each part's properties |
| `port` | the next five parts | type and each part's properties |
| `delivery_race` | as `delivery` in `port` | violation of `AnsweredIsLeftOnce` |
| `vision` | the other parts below, among them a person with a face before a `CameraEvent` | type and each part's properties |
| `parking_anchor` | as `parking` in `vision` | violation of `SameSpotStays` |
| `regions_cover` | as `regions` in `vision` | violation of `RegionsCover` |

| Part | Instance | Properties |
|---|---|---|
| processes | three processes, two signals | `NoOrphans`, `AllOrNone` |
| session | two cameras, one of them ONVIF | `SpeaksWhereTold`, `HealthBecomesKnown` |
| pulls | three pulls, counts to 2 | `OnePullUncrossed`, `StoppedStaysUncrossed`, `Supervised`, `BackoffGrows`, `Recovers` |
| pushes | one channel, two push threads, two sources, two good destinations and a bad one | `PushesAreOwned`, `ResumesAsAsked`, `StoppedEnds` |
| adoption | two HTTP threads, a token, adoptions with and without it | `AdoptionIsHonest` |
| instances | two names, two processes, one kill, refusal or overlap | `AgreeAtRest`, `DestroyedIsGone` |
| delivery | two leaves of two cameras, three names, a map of two, one request | `NoticedIsLeftOnce`, `RightCamera` |
| lines | two lines that span the picture, three places, one of them on a line, two crossings | `LinesAddUp` |
| frames | two pulls of two and one pictures, a JPEG each or every other | `OnePicture` |
| matching | scenes of two overlapping objects, two tracks, both matchers | `MatchesAreSound`, `FollowedKeepsTrack` |
| regions | frames of one and two cars, near, at edges, far apart, and too far apart for the region they share | `PicturesAreRead` |
| answers, helper | two vehicles at a spot and a queue of one; three calls | `VehiclesAreKnown` |
| plates | four texts, two confidences (0.40 and 0.95), four reads | `PicturesAreRead` |
| parking | one vehicle | `RejoinsOnEvidence` |
| zones | three zones and two that are none, three feet, five messages | `ZonesAreAsDrawn`, `PicturesAreRead` |
| names, database, links | two subjects, three snapshots; two downloads; two people, two faces | `FacesAreKnown` |
| face | a person and a face, two events | `FaceInStep` |

Bounds, and why they are enough. Two tracks show every relation between a track
that keeps an event open and one that parks, closes, waits or resumes; the
proofs hold for any number. Tolerances and windows of one tick keep their order
(the parked tolerance is at least the other); the limit of two lets an event both go on
and time out. `MaxEvents` bounds the events; when they are used up, no tick that
would open another is possible. `camera_event` has one, as its ticks have many
observations; what a track keeps from one event to the next is met by the person
and face of `vision` and by `camera_event_zone`, which have two. Three pulls are the registered one, a second
that a crossing makes, and one that is just ending; a start or restart that finds no free
identity waits for one. `MaxCount` lets the counter grow, stay and be reset. Two slots are a push
that runs and one that is ending, three one more of those; an operation that finds no free slot waits. `CameraControl.cfg` uses the symmetry of the two people and a `VIEW` that
leaves out history and whether an event in progress was last sent as enter or moving: no
property of the run tells these apart (safety and action properties only).

In `port` and `vision`, two of everything that races (writers, operations, leaves, downloads,
pulls, messages) is what each race needs; every identity an operation could draw is
there; the map is smaller than the names so that some fall out; the queue holds one job
so that it is full; a scene has the objects whose boxes overlap, touch and differ in
size; the numeric thresholds of `Parking` appear as the classes the code compares
(`low`, `keep`; shifts around each limit). `MaxCrossings`, `MaxNames`, `MaxAsks`, `MaxShots`, `MaxOffers`, `MaxCalls`,
`MaxCrops`, `MaxSeen`, `MaxFound`, `MaxDisturbances`, `MaxSignals` only bound how often something happens.

Deadlock is checked in every run but `port`, `vision`, `parking_anchor`, `delivery_race` and
`regions_cover`: those count what happens
(pictures, calls, crossings) up to a bound and stop there.

## 4. What the code does not ensure

Each of these is a run that TLC must find violated:

* **A leave names a track that was never in a zone** (`FinishedWereZoned`). Stage
  1 files every confirmed track it closes in the open event's finished list
  (2871), also one that still waits for its zone.
* **An event is left twice** (`OneLeavePerEvent`). Tracks keep their `event_id`
  after their event; a stop leaves every event it finds there (3091).
* **A stopped camera is pulled** (`StoppedStays`). A restart asks whether the
  stream is wanted, then probes for seconds and registers a pull (816, 745).
* **A stopped push pushes** (`StoppedPushesNothing`). A stop during
  `create_connection` (`onvif_push.py:238`).
* **A parked car found on its very spot loses its anchor** (`SameSpotStays`). When the
  anchor is due for a refresh, a box that is nearly on the spot drops it (2803) just before the
  same tick asks whether the vehicle moved; with nothing to compare, jittering boxes let it
  rejoin, although its pixels never changed (2811 says that it stays where it parked).
* **A leave Protect asked about is sent again** (`AnsweredIsLeftOnce`). The receiver pops the
  pending entry (4233) and sets its `seen` in the next statement (4235); a timer that pops the names and
  reads `seen` (2479-2481) between the two sends the single-tracker leave as well.
  The docstring has the fallback run only if Protect "requests none of its snapshots" (2429).
* **A region misses what it is for** (`RegionsCover`). `cluster_candidates` does not ask whether a
  cluster still fits a region (it is to "group boxes that fit one region", `regions.py:84`; `regions_for`
  to cover "every box", 108): the shared region ends at the frame's short side (58). In 1920 by 1080, the
  boxes (0, 60, 324, 1032) and (1432, 60, 1756, 1032) get (338, 0, 1418, 1080), which shows neither.
  What is cut off is looked at again; what is wholly outside is missed until it moves, or repeated
  unseen if it is parked. `RegionsCoverClusters` has the condition under which all is covered.

Others are in the models as exceptions the properties name, because no statement
of the repository is as precise as the behaviour:

* A start during a restart makes two pulls: both register, and the ffmpeg that is overwritten
  in the registry runs on (745). `OnePullUncrossed` excepts it (`crossing`).
* A status booked for a connection that has ended, or by both threads at
  once, leaves the console with the wrong health (`crossed` in `Session`), although
  a new connection forgets what was reported (4389).
* Two overlapping adopt posts share `{path}.{pid}.tmp`: the state may be torn, or one
  post fails (`overlapped`). A token is spent even if its dial fails (`lost`). A state with
  hosts but no token is an adoption to the classic client and none to ucp4.
* The instance registry has no lock: two operations at once may leave an enabled unit
  that is not registered, or, writing its one temporary file together, a registry that cannot be read
  and counts as empty. A refused disable goes unnoticed (`instance_manager.py:303`). A second signal to `run_all.py` leaves children unasked.
* A multi-tracker leave whose send raises leaves its names in `_pending_leaves` (2476).
* A track that resumes jumps to where it is seen: what lines lie between is not asked (2897), so its
  counts, which it keeps, need not add up to where it is. (4094 keeps the tracks over a repeated
  start for fear of just that.)
* A center exactly on a line that then leaves for its positive side counts as
  "B2A" (`touched`); a line removed from the settings leaves its event open
  (`altered`), and so does a stop.
* A frame that arrives between the wake-up and the look is analysed twice; a thread of
  a replaced pull may store a frame or a snapshot after a stop (`late`).
* A zone that is not an object makes `_parse_zone_types` raise after the polygons were
  assigned, so the types of the old message apply to the polygons of the new.
* At a recheck a reused second look may stand in for the real one, so a box is shown for
  up to twice `PARKED_RECHECK_S` without a look.
* A vehicle resumed as parked keeps the anchor of its former spot (`former`).
* A face whose person's track has ended may be linked with another person while the first one
  still names it: a leave then gives two people one face (`strayed`).
* Two face database downloads share `known.db.tmp`; one may write into the file the other
  has put in place, and a crash may leave it torn. A load before the first download
  finishes keeps matching off until the next one.
* One very confident misread can outvote weaker reads of a plate; only when the vote
  is settled (mean 0.85, three voters) is one misread excluded. `AIPORT_LPR_AGREE_READS=2` is not enough.
* A helper that once worked and fails to restart is not tried again
  (`apple_fm.py:111`).
* A comment is stale: 4254 says that matching faces against the database "isn't implemented yet"; it
  is (1605-1611).

## 5. Proofs

The theorems hold for all values of the constants that satisfy the named
assumptions of each module (types and ranges only).

* **`CameraEventProofs`**: `EventFollowsActive` and `LeavesNameEach` are not
  inductive. `StepsKeepInv` adds: a track that
  waits for its zone is confirmed and not in one, and every other confirmed,
  un-parked track in view is in the open event (`Waits`); an event's number is below
  the counter and has its first message but no leave (`EventInv`); where the finished
  list may have a track (`Filed`, `ListedOnce`); and where a track that took part can
  be (`Took`). Each stage has lemmas saying what it keeps and what holds between it
  and the next; `LifecycleInv` closes the tick. `FollowsProtocol` is the
  refinement: initial states and steps map to those of `EventProtocol`.
* **`StreamSupervisorProofs`**: the invariant `OneParty` says that, as long as
  nothing crossed, at most one party is about to pull: the receiver in a start,
  one reader in a restart, or the registered pull. `OnePullUncrossed` and
  `StoppedStaysUncrossed` follow. `Supervised` and the action property
  `BackoffGrows` are proved without that condition.
* **`OnvifPushProofs`**: the table, the threads and the wanted destinations
  agree; `SyncInv` proves it of `_sync` once, for all operations that end in it.
* **`CameraControlProofs`**: the invariant `ControlInv` is about a stop, which takes
  the tracks under the lock and sends their leaves afterwards while ticks go on over
  fresh state. `Stages` says where the threads can be; `Quiet` what such a tick can
  see: no frame, or one that falls into a new startup window, so that it opens
  nothing; `Numbered` and `Shown` which events are in progress: the open one and
  those whose leave is due. `StoppedIsLeft`, `OneInProgress` and `QuietAfterLeave`
  follow. It extends `CameraEventProofs`: what a tick keeps of events and parked
  tracks is proved from the same lemmas about its stages.
* **`SessionProofs`** (with the invariants of the pulls and pushes: the types of the whole run): of
  `RunAll`, that the parent stops children in order and a signal
  only begins the stopping anew, so a parent that has ended has asked and, if need be, killed all
  (`NobodyIsLeft`). Of `Session`, `SessionInv`: the state of the receiver and the watch says what each
  holds (`Sending`); for each camera without a crossing the booked status is the one heard
  or the one in a hand (`Accounts`); a poll loop of a told camera has the current connection, and
  there is no told camera while none is up. `EventsGoWhereTold` and `BooksAreTrue` follow; the
  second is the part of `HealthBecomesKnown` that needs no fairness.
* **`PortProofs`**: of `Adoption`, that without an overlap at most one thread has the
  temporary file, and what it has there is its own (`Alone`); that for each client a token on its
  way, presented or lost is counted once and among the used ones (`Spent`). Of `Instances`,
  `InstInv`: undisturbed, there is one operation under way, its copy is the registry, every other
  name agrees with systemd and its own is as far as its step (`Underway`), from which the next step,
  or its failure, goes on or leaves agreement; and an operation that had the box to
  itself still has (`ToItself`), so that what a destroy removed stays away until it is done.
  Of `Delivery`, that each entry of the map is a name a leave of that camera
  announced, or a forgotten one (`MapIsTrue`, `Recorded`), and how many leaves an event had at each
  step of closing it (`LeftSoFar`), where a leave that was asked about in time is seen, or the
  receiver has its request in hand, until its timer looked (`Awaited`). `NoticedIsLeftOnce` follows;
  the timer that looks at that very request is the race of `AnsweredIsLeftOnce`. Of `LineEvents`,
  that the counts of an unaltered line add up to the sides after each step, from where the track was
  confirmed or last resumed (`Followed`). Of `FrameExchange`, `ExchangeInv`: which frame a pull's
  threads hold (`Threads`), that tables and file belong to the pull that runs unless a thread was
  late (`OfThisPull`), what the loop's pass has of its frame (`Tick`), and that the number it noted
  last bounds what was counted (`Seen`, `Counted`). A JPEG's own number is its frame's because both
  pipes are counted alike.
  A step of `MCPort` is a step of one part and leaves the others alone (the lemma `PortHasItsParts`),
  from which its type invariant follows.
* **`VisionProofs`**: five modules that share no state, each with an invariant of its own. The pipes of
  the vehicle helper in use hold at most one line, the greeting or the present call's, and a call that
  gives up forgets its helper (`AnswersBelong`). What a track waits for is the number of its jobs
  in the queue and the worker's hands (`Settled`), so no answer is owed that nobody asked for, and none
  is asked for that nobody counts (`AnswersCome`). A parked vehicle's record has at most one changed look
  at its end (`Wavering`), so the second ends the parking with both (`RejoinsAreBacked`). Snapshots
  are looked at in order (`InTurn`), so a hit is of one that none was counted for (`Backed`), and a
  face's first reads are remembered until enough were made (`Remembers`, `HeldBack`): `NamesAreEarned`.
  Downloads that do not mix write one file, under the one name, and leave the other's alone
  (`Apart`, `OneByOne`, `Whole`), and who loads has read the file that is there (`InMemory`):
  `SavedFacesAreKnown`, over restarts at any step.

* **`DetectionProofs`**: what computes. `MatchInv` is the type of the tables and that an object's track
  is of its type as long as there is one (`TracksTyped`), whoever the object is bound to next. From it
  `MatchesSound`: each of the three passes over the detections (repeated boxes, Norfair's objects, the
  rest) adds pairs of free tracks and free detections only. `FollowedStays` is about a step: the first
  pass binds only parked tracks, so a moving track's object is still its own in the second.
  `ZoneInv` says which of the three tables are of the message in hand (`InMessage`, `TablesAsTold`) and
  what a look-up that nothing crossed has read (`ReadAsIs`). `FacesToTheirPeople`: a tick goes
  through the faces found one by one; `Dealt` says, after the first `k`, who has which (`OneTaker`,
  `Placed`), which people have a face (`Claimed`) and that the first of each is on their own track
  (`OwnFirst`), where no later one gets: two people have different face tracks unless a face strayed
  (`FacesOwned`). `RegionHoldsItsBox` is the arithmetic of `calculate_region`: rounding, the
  minimum, the short side and the two clamps never cut off a box that fits. `ClustersPartition` goes
  through the two loops of `cluster_candidates`: what is gathered about a box has it and otherwise
  only boxes no cluster has (`GatheredFacts`), so each box is in one cluster. With both,
  `RegionsCoverClusters`: `regions_for` covers every box if the clusters fit (`HullHolds`). Section 4 says
  what happens when one does not. Last, by
  the lemma `VisionHasItsParts`, the properties of `MCVision` that follow from those of its parts.

  Three of these modules go through lists by a recursive function. That it has a value at each place
  is `StepsExist`; what the values have in common is shown by `AllNumbers`, induction stated of a set
  of numbers, which rests on the library's well-foundedness of `<` (a least counterexample,
  `LeastOf`). The library's own induction theorems take an operator as a parameter.

Assumptions of these on constants, beyond types: there are more identities than processes could hold
(`EnoughAssumption`; the code draws 48 random bits); a spanning line is one that whoever changes
side of it crosses (`SpanningAssumption`, evaluated by TLC for the lines of the run). The theorem about
regions asks for a `MinRegion` of at least 9, at which rounding down to a multiple of four
costs less than the margin adds; `MIN_REGION` is 320, the run's is 12.

Only model-checked:

* Liveness: `Recovers`, `StoppedEnds`, `AllOrNone`, `HealthBecomesKnown` and the liveness part of
  `ImplementsProtocol`. The prover handles neither fairness nor ENABLED.
* `PicturesAreRead`. Its three parts are measurements, true of the code's numbers and not of any
  numbers: clustering, suppression and reuse keep an object whole at the code's fractions and its
  minimum region (that the regions cover the boxes in the first place is `RegionsCoverClusters`);
  neighbouring zones own their border if they are drawn from the same points; a vote of
  three outweighs one misread at the code's thresholds.
* `VisionTypeOK` as one formula. The types of its parts are theorems, but for `Regions` and
  `Plates`, which fold over sequences of detections and reads (`FoldLeft`, and a table built with
  `@@`): the prover has no facts about either. What the type invariant of `Regions` says of its
  regions is `RegionHoldsItsBox`, for the boxes that fit.
* The runs in which TLC must find a violation.

## 6. Plan

In the order of the first plan: the ticks, the threads around them, pulls and pushes, each
with proofs; then adoption, delivery, frames, session; then detection and enrichment; then the
compositions. All are modelled, and every safety property of the runs but `PicturesAreRead` and
`VisionTypeOK` is a theorem. What is left, most useful first:

1. `ResetToDefaults` in `CameraControl`: leaves that fail because the connection is gone.
2. The rest of a pass of `Regions` (merging and second looks) written as recursive functions, as the
   clusters are: with `RegionsCoverClusters` that is what `SeenWhole` needs.
3. The settings commands of `handle_function` that only store a value.

## 7. Not modelled

* **FLV rewriting** turns one byte stream into another; only its end matters to the push, where it is
  an event. Its state lives in one call.
* **Discovery** answers datagrams from fixed data and keeps no state.
* **Camera clock** is numeric, and read only for time stamps. **Replay** feeds a file to the same
  ticks and has no state of its own.
* **Configuration** is read once from the environment; install scripts and unit files are
  templates. What writes shared state files is in `Adoption` and `Instances`.
* **`handle_function`**: commands that only answer with stored values, or store a
  setting that is read once per tick. Those that start, stop or change something another
  thread uses are modelled.
* **Detectors, the motion mask, Norfair's filter, the face and plate models** are numeric; what they
  find is any observation the code around them could get.
* Message formats and logging. No property is about them.
