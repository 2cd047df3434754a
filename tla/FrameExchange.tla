---------------------------- MODULE FrameExchange ----------------------------
(***************************************************************************)
(* The pictures of one camera, from its pull to its poll loop              *)
(* (avclient.py).  A pull's ffmpeg decodes each picture once and sends it  *)
(* down two pipes: as a detection frame, and, every Nth one, as a JPEG.    *)
(* Two threads per pull number what they read and put it in tables under   *)
(* _frame_lock; the JPEG one also replaces the camera's snapshot file.     *)
(* The poll loop takes the latest frame, and waits for the JPEG with its   *)
(* number.  Stopping a pull empties the tables but joins no thread: a      *)
(* thread may still store what it holds.                                   *)
(*                                                                         *)
(* A picture is named by its pull and its number in it; that is also its   *)
(* stamp, as no two frames leave ffmpeg in the same millisecond.           *)
(***************************************************************************)
EXTENDS Integers, Sequences, SequencesExt

CONSTANTS
  JpegEvery,  \* FRAME_JPEG_EVERY: of how many frames one is encoded
  JpegKeep,   \* maxlen of a pull's deque of JPEGs
  Pictures,   \* bound of the model: the pictures of each pull of the camera
  NoPicture

ASSUME ExchangeAssumption ==
  /\ JpegEvery \subseteq Nat \ {0} /\ JpegKeep \in Nat \ {0}
  /\ Pictures \in Seq(Nat) /\ NoPicture \notin [pull : Nat, n : Nat]

Pulls == DOMAIN Pictures
Picture == UNION {[pull : {p}, n : 1..Pictures[p]] : p \in Pulls}

VARIABLES
  every,    \* _frame_jpeg_every, the same for every pull of a process
  started,  \* the pulls there have been
  current,  \* _active_streams: the pull that runs, 0 without one
  table,    \* _frame_jpegs: the pull whose deque is asked, 0 without one
  frame,    \* frame[p]: the frame pull p's _reader holds; it read those before it
  jpeg,     \* jpeg[p]: the last JPEG its _jpeg_reader stored, its number, whether the file is next
  jpegs,    \* jpegs[p]: pull p's deque of [seq, of]
  latest, latestSeq, latestTime, \* _latest_frame, _latest_frame_seq, _latest_frame_time
  snapshot, \* the camera's snapshot file, <deviceID>.jpg: of which pull, 0 without one
  loop,     \* the poll loop: where it is, its last_stamp, the seq it noted, frame and JPEG of the tick
  analysed, \* _analysed_frame_time
  tally,    \* _frame_stats: first_seq, last_seq and analysed, and of which pull
  late      \* history: a thread of a pull that is over stored what it held

exchangeVars == <<every, started, current, table, frame, jpeg, jpegs, latest, latestSeq, latestTime,
                  snapshot, loop, analysed, tally, late>>
tables == <<latest, latestSeq, latestTime>>
threads == <<frame, jpeg, jpegs>>

NoTick == [at |-> "wait", last |-> NoPicture, seq |-> NoPicture, frame |-> NoPicture,
         jpeg |-> NoPicture]
NoTally == [pull |-> 0, first |-> 0, last |-> 0, analysed |-> 0, empty |-> TRUE]

ExchangeInit ==
  /\ every \in JpegEvery /\ started = 0 /\ current = 0 /\ table = 0
  /\ frame = [p \in Pulls |-> [n |-> 0, held |-> FALSE]]
  /\ jpeg = [p \in Pulls |-> [of |-> 0, seq |-> 0, writing |-> FALSE]]
  /\ jpegs = [p \in Pulls |-> <<>>]
  /\ latest = NoPicture /\ latestSeq = NoPicture /\ latestTime = NoPicture
  /\ snapshot = 0 /\ loop = NoTick /\ analysed = NoPicture
  /\ tally = NoTally /\ late = FALSE

-----------------------------------------------------------------------------
(* The pull                                                                *)

\* The pull ends, and what it stored goes.
StopStream ==
  /\ current' = 0 /\ table' = 0
  /\ latest' = NoPicture /\ latestSeq' = NoPicture /\ latestTime' = NoPicture
  /\ analysed' = NoPicture /\ snapshot' = 0
  /\ UNCHANGED <<every, started, threads, loop, tally, late>>

\* The probe is done: the next pull runs, and its deque is the one asked.
StartStream ==
  /\ current = 0 /\ started < Len(Pictures)
  /\ started' = started + 1 /\ current' = started + 1 /\ table' = started + 1
  /\ latestSeq' = NoPicture
  /\ UNCHANGED <<every, threads, latest, latestTime, snapshot, loop, analysed, tally, late>>

\* _reader has a frame of the pull; it is not in the tables yet.
ReadsFrame(p) ==
  /\ p = current /\ ~frame[p].held /\ frame[p].n < Pictures[p]
  /\ frame' = [frame EXCEPT ![p] = [n |-> @.n + 1, held |-> TRUE]]
  /\ UNCHANGED <<every, started, current, table, jpeg, jpegs, tables, snapshot, loop, analysed, tally,
                 late>>

StoresFrame(p) ==
  /\ frame[p].held
  /\ LET f == [pull |-> p, n |-> frame[p].n] IN
     latest' = f /\ latestSeq' = f /\ latestTime' = f
  /\ frame' = [frame EXCEPT ![p].held = FALSE]
  /\ late' = (late \/ p # current)
  /\ UNCHANGED <<every, started, current, table, jpeg, jpegs, snapshot, loop, analysed, tally>>

\* The picture after of in the JPEG pipe: select=not(mod(n,every)), n from 0.
Encoded(of) == IF of = 0 THEN 1 ELSE of + every

Numbered(seq) == IF seq = 0 THEN seq + 1 ELSE seq + every

\* _jpeg_frames yields the next JPEG, which goes into the deque of its own pull (of which no one
\* would be asked once the pull is over).
StoresJpeg(p) ==
  /\ p = current /\ ~jpeg[p].writing /\ Encoded(jpeg[p].of) <= Pictures[p]
  /\ jpeg' = [jpeg EXCEPT ![p] = [of |-> Encoded(@.of), seq |-> Numbered(@.seq), writing |-> TRUE]]
  /\ LET q == Append(jpegs[p], [seq |-> Numbered(jpeg[p].seq), of |-> Encoded(jpeg[p].of)])
     IN jpegs' = [jpegs EXCEPT ![p] = IF Len(q) > JpegKeep THEN Tail(q) ELSE q]
  /\ UNCHANGED <<every, started, current, table, frame, tables, snapshot, loop, analysed, tally, late>>

\* The snapshot is replaced in one step, once its interval is over.
WritesSnapshot(p) ==
  /\ jpeg[p].writing /\ jpeg' = [jpeg EXCEPT ![p].writing = FALSE]
  /\ \/ UNCHANGED <<snapshot, late>>
     \/ snapshot' = p /\ late' = (late \/ p # current)
  /\ UNCHANGED <<every, started, current, table, frame, jpegs, tables, loop, analysed, tally>>

-----------------------------------------------------------------------------
(* The poll loop                                                           *)

loopOnly == <<every, started, current, table, threads, tables, snapshot, late>>

\* A new frame, or the time-out of the wait on a camera that has none.
Wakes ==
  /\ loop.at = "wait" /\ (latestTime = NoPicture \/ latestTime # loop.last)
  /\ loop' = [loop EXCEPT !.at = "begin", !.last = latestTime]
  /\ UNCHANGED <<loopOnly, analysed, tally>>

\* The number noted for the statistics is read, and the tick begins; the motion gate lets it
\* classify or not.  (Two looks under the lock; what comes between them the next look sees.)
Begins ==
  /\ loop.at = "begin"
  /\ analysed' = IF latestTime = NoPicture THEN analysed ELSE latestTime
  /\ \E at \in {"classify", "note"} : loop' = [loop EXCEPT !.at = at, !.seq = latestSeq]
  /\ UNCHANGED <<loopOnly, tally>>

\* Mistake: the frame classified is stamped as the one the tick began with.
ClassifiesAsBegun ==
  /\ loop.at = "classify"
  /\ loop' = [loop EXCEPT !.at = IF latest = NoPicture \/ latestSeq = NoPicture THEN "note" ELSE "ask",
                          !.frame = latest]
  /\ UNCHANGED <<loopOnly, analysed, tally>>

\* The frame, its number and its stamp, in one hold of the lock.
Classifies ==
  /\ loop.at = "classify"
  /\ loop' = [loop EXCEPT !.at = IF latest = NoPicture \/ latestSeq = NoPicture THEN "note" ELSE "ask",
                          !.frame = latest]
  /\ analysed' = IF latest = NoPicture THEN analysed ELSE latestTime
  /\ UNCHANGED <<loopOnly, tally>>

Asked == {i \in 1..Len(jpegs[table]) : jpegs[table][i].seq = loop.frame.n}

\* _frame_jpeg: the JPEG with the frame's number, once it is there; none if no JPEG is made of
\* it, a later one is there already, or the wait is over.
AsksJpeg ==
  /\ loop.at = "ask"
  /\ \/ /\ (loop.frame.n - 1) % every = 0 /\ table # 0
        /\ \E i \in Asked :
             loop' = [loop EXCEPT !.at = "note", !.jpeg = [pull |-> table, n |-> jpegs[table][i].of]]
     \/ loop' = [loop EXCEPT !.at = "note"]
  /\ UNCHANGED <<loopOnly, analysed, tally>>

\* _note_frame: the statistics of a minute, begun anew when the numbers start again.
Notes ==
  /\ loop.at = "note"
  /\ loop' = [NoTick EXCEPT !.last = loop.last]
  /\ LET s == loop.seq
         new == [pull |-> s.pull, first |-> s.n, last |-> s.n, analysed |-> 0, empty |-> FALSE]
     IN IF s = NoPicture THEN UNCHANGED tally
        ELSE IF tally.empty \/ s.n < tally.last THEN tally' = new
        ELSE tally' \in {new, [tally EXCEPT !.last = s.n, !.analysed = @ + 1,
                                            !.pull = IF @ = s.pull THEN @ ELSE 0]}
  /\ UNCHANGED <<loopOnly, analysed>>

-----------------------------------------------------------------------------
ExchangeNext ==
  \/ StopStream \/ StartStream \/ Wakes \/ Begins \/ Classifies \/ AsksJpeg \/ Notes
  \/ \E p \in Pulls : ReadsFrame(p) \/ StoresFrame(p) \/ StoresJpeg(p) \/ WritesSnapshot(p)

ExchangeSpec == ExchangeInit /\ [][ExchangeNext]_exchangeVars

-----------------------------------------------------------------------------
(* Properties                                                              *)

MaybePicture == Picture \cup {NoPicture}

ExchangeTypeOK ==
  /\ current \in 0..started /\ {table, snapshot} \subseteq 0..started /\ started \in 0..Len(Pictures)
  /\ {latest, latestSeq, latestTime, analysed, loop.last, loop.seq, loop.frame, loop.jpeg}
       \subseteq MaybePicture
  /\ \A p \in Pulls : p > started => ~frame[p].held /\ jpegs[p] = <<>>

\* What a tick works with is one picture: while it has its frame, events are stamped with that
\* frame's time (unless a stop took the time away), and a JPEG it got is of the very same frame,
\* if the pull that made the frame still runs.  Threads that number and store on their own,
\* with frames that arrive at every moment, meet nowhere but here.
TickHasOnePicture ==
  loop.frame # NoPicture =>
    /\ analysed \in {NoPicture, loop.frame}
    /\ loop.jpeg # NoPicture /\ loop.frame.pull = current => loop.jpeg = loop.frame

\* A stop leaves nothing of the pull in the tables or in the file, unless one of its threads
\* stored what it held after the stop: no table is forgotten.
StoppedLeavesNothing ==
  ~late => /\ snapshot \in {0, current}
           /\ \A x \in {latest, latestSeq, latestTime, analysed} :
                x # NoPicture => x.pull = current
\* "Analyse each frame once" (avclient.py:3180): over the statistics of one pull no more passes
\* are counted than frames arrived.  One frame may still be looked at twice, when it arrives
\* between the wake-up and the look.
AnalysedAddsUp ==
  ~late /\ ~tally.empty /\ tally.pull # 0 => tally.analysed <= tally.last - tally.first + 1

\* All three: a tick works with one picture, none is worked with twice or left behind.
OnePicture == TickHasOnePicture /\ StoppedLeavesNothing /\ AnalysedAddsUp
=============================================================================
