---------------------------- MODULE VehicleAnswers ----------------------------
(***************************************************************************)
(* Asking a slow model what a vehicle is (avclient.py): the tick queues    *)
(* the best frames of a vehicle's track, one worker of the whole process   *)
(* answers them in its own time, and a track that would close waits for    *)
(* an answer on its way, but not for ever.  Answers are kept with the      *)
(* place, for a vehicle seen there again.                                  *)
(*                                                                         *)
(* The tick and the worker's bookkeeping hold _motion_lock: each is one    *)
(* step.  What the model answers is left out, how many answers a track has *)
(* is kept.                                                                *)
(***************************************************************************)
EXTENDS Integers, Sequences, SequencesExt

CONSTANTS
  Vehicle,   \* tracks of vehicles, ever (the dictionary a job refers to)
  Spot,      \* bound of the model: places apart from each other (VEHICLE_FM_REUSE_IOU)
  QueueMax,  \* _fm_queue's maxsize
  MaxCrops,  \* VEHICLE_FM_MAX_CROPS
  HoldFor    \* VEHICLE_FM_HOLD_MS, in steps of the clock

ASSUME VehicleAssumption == {QueueMax, MaxCrops, HoldFor} \subseteq Nat \ {0}

VARIABLES
  available, \* _fm_active(): the model could be started, so far as is known
  fm,        \* the tracks and what they hold of answers (see Unasked)
  fmQueue,   \* _fm_queue: jobs, the track and its place
  working,   \* the job the worker has, if any
  fmCache    \* _fm_cache: how many answers are kept with a place

answersVars == <<available, fm, fmQueue, working, fmCache>>

\* sent, pending, votes: as in the code (the last counted); paced: VEHICLE_FM_GAP_MS is not over;
\* hold: how long ago fm_hold_ms was set, 0 when it never was.
Unasked == [at |-> "new", sent |-> 0, pending |-> 0, votes |-> 0, paced |-> FALSE, hold |-> 0]

AnswersInit ==
  /\ available = TRUE
  /\ fm = [c \in Vehicle |-> Unasked]
  /\ fmQueue = <<>> /\ working = <<>>
  /\ fmCache = [s \in Spot |-> 0]

-----------------------------------------------------------------------------
(* The tick                                                                *)

\* The job is queued and waited for, unless the queue is full; it counts as sent either way.
Queued(c, s) ==
  LET fits == Len(fmQueue) < QueueMax IN
  /\ fmQueue' = IF fits THEN Append(fmQueue, <<c, s>>) ELSE fmQueue
  /\ fm' = [fm EXCEPT ![c].at = "here", ![c].sent = @ + 1, ![c].paced = TRUE,
                       ![c].pending = IF fits THEN @ + 1 ELSE @]

Recalled(c, s) == fm[c].sent = 0 /\ fm[c].votes = 0 /\ fmCache[s] > 0

\* A new best frame at s: the answers kept with the place are taken over and no more are asked
\* for, or the frame is queued; or it comes too soon after the last or is too small.
RequestFm(c, s) ==
  /\ available /\ fm[c].sent < MaxCrops
  /\ \/ /\ Recalled(c, s)
        /\ fm' = [fm EXCEPT ![c].at = "here", ![c].votes = fmCache[s], ![c].sent = MaxCrops]
        /\ UNCHANGED fmQueue
     \/ ~Recalled(c, s) /\ ~fm[c].paced /\ Queued(c, s)

\* A track begins, is followed or resumes (_capture_best): with a frame better than its best.
Sees(c, s) ==
  /\ fm[c].at \in {"new", "here", "recent"}
  /\ RequestFm(c, s)
  /\ UNCHANGED <<available, working, fmCache>>

\* Or without, or with one that asks for nothing.
SeesNoBetter(c) ==
  /\ fm[c].at \in {"new", "recent"} /\ fm' = [fm EXCEPT ![c].at = "here"]
  /\ UNCHANGED <<available, fmQueue, working, fmCache>>

\* The hold is over: it was set, once, at the first tick that would have closed the track.
OnHold(c) == fm[c].pending > 0 /\ fm[c].hold <= HoldFor

FmHold(c) ==
  /\ fm[c].at = "here" /\ OnHold(c) /\ fm[c].hold = 0
  /\ fm' = [fm EXCEPT ![c].hold = 1]
  /\ UNCHANGED <<available, fmQueue, working, fmCache>>

\* A track missed for long enough closes, unless held.
Lost(c) ==
  /\ fm[c].at = "here" /\ ~OnHold(c)
  /\ fm' = [fm EXCEPT ![c].at = "recent"]
  /\ UNCHANGED <<available, fmQueue, working, fmCache>>

\* A closed track is forgotten; a stop forgets any.  (Its times mean nothing from then on; its
\* answers still come.)
Forgets(c) ==
  /\ fm[c].at \in {"here", "recent"}
  /\ fm' = [fm EXCEPT ![c].at = "gone", ![c].paced = FALSE, ![c].hold = 0]
  /\ UNCHANGED <<available, fmQueue, working, fmCache>>

Clock ==
  /\ fm' = [c \in Vehicle |-> [fm[c] EXCEPT
       !.paced = FALSE, !.hold = IF @ \in 1..HoldFor THEN @ + 1 ELSE @]]
  /\ fm' # fm
  /\ UNCHANGED <<available, fmQueue, working, fmCache>>

-----------------------------------------------------------------------------
(* The worker                                                              *)

FmWorker ==
  /\ working = <<>> /\ fmQueue # <<>>
  /\ working' = Head(fmQueue) /\ fmQueue' = Tail(fmQueue)
  /\ UNCHANGED <<available, fm, fmCache>>

\* The helper answers; or not, or fails, or turns out not to start, for good.
FmJob ==
  /\ working # <<>>
  /\ LET c == working[1] IN
     \/ /\ available
        /\ fm' = [fm EXCEPT ![c].pending = IF @ = 0 THEN 0 ELSE @ - 1, ![c].votes = @ + 1]
        /\ fmCache' = [fmCache EXCEPT ![working[2]] = fm[c].votes + 1]
        /\ UNCHANGED available
     \/ /\ fm' = [fm EXCEPT ![c].pending = IF @ = 0 THEN 0 ELSE @ - 1]
        /\ available' \in {available, FALSE}
        /\ UNCHANGED fmCache
  /\ working' = <<>>
  /\ UNCHANGED fmQueue

\* Half an hour is over, or later places pushed it out.
FmAges == \E s \in Spot :
  /\ fmCache[s] > 0 /\ fmCache' = [fmCache EXCEPT ![s] = 0]
  /\ UNCHANGED <<available, fm, fmQueue, working>>

-----------------------------------------------------------------------------
AnswersNext ==
  \/ \E c \in Vehicle : SeesNoBetter(c) \/ FmHold(c) \/ Lost(c) \/ Forgets(c)
                        \/ \E s \in Spot : Sees(c, s)
  \/ Clock \/ FmWorker \/ FmJob \/ FmAges

AnswersSpec == AnswersInit /\ [][AnswersNext]_answersVars

-----------------------------------------------------------------------------
(* Properties                                                              *)

QueuedOf(c) == {k \in DOMAIN fmQueue : fmQueue[k][1] = c}
Jobs(c) == Cardinality(QueuedOf(c)) + IF working # <<>> /\ working[1] = c THEN 1 ELSE 0

AnswersTypeOK ==
  /\ available \in BOOLEAN
  /\ fm \in [Vehicle -> [at : {"new", "here", "recent", "gone"}, sent : 0..MaxCrops,
                         pending : 0..MaxCrops, votes : 0..MaxCrops, paced : BOOLEAN,
                         hold : 0..(HoldFor + 1)]]
  /\ Len(fmQueue) <= QueueMax /\ Range(fmQueue) \subseteq Vehicle \X Spot
  /\ working \in {<<>>} \cup Vehicle \X Spot
  /\ fmCache \in [Spot -> 0..MaxCrops]

\* What a track waits for is really on its way: the answers it counts on are those queued or in
\* work, a dropped or failed job is counted on by nobody, and no track ever has more answers and
\* questions than MaxCrops, whoever's they were first.
OwedIsAsked ==
  \A c \in Vehicle : /\ fm[c].pending = Jobs(c)
                     /\ fm[c].votes + fm[c].pending <= fm[c].sent

\* "a vehicle track waits this long to close for a pending answer" (VEHICLE_FM_HOLD_MS): closed
\* with an answer on its way, it had waited, some time since it began.
ClosedAfterWaiting ==
  \A c \in Vehicle : fm[c].at = "recent" /\ fm[c].pending > 0 => fm[c].hold > HoldFor

AnswersAreAwaited == OwedIsAsked /\ ClosedAfterWaiting
=============================================================================
