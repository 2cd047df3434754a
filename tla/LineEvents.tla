------------------------------ MODULE LineEvents ------------------------------
(***************************************************************************)
(* Line crossing (avclient.py): each movement of a confirmed track is      *)
(* compared with the camera's lines; the first crossing of a line enters   *)
(* an event of its own, which later ones continue, and which is left when  *)
(* the track closes.  A track that closed may resume for a while, with its *)
(* counts, from wherever it is seen then.                                  *)
(*                                                                         *)
(* One track at a time, and its lines; the lines change when Protect says  *)
(* so (ChangeSmartDetectSettings).                                         *)
(***************************************************************************)
EXTENDS Integers, FiniteSets

CONSTANTS
  Line, Ends,  \* lines, and the two ends of each
  Spanning,    \* lines that go across the frame: no way leads around them
  Place,       \* bound of the model: centers of the boxes
  MaxCrossings \* bound of the model: crossings counted of one line

ASSUME PlaceAssumption ==
  /\ Place \subseteq Int \X Int /\ Ends \in [Line -> (Int \X Int) \X (Int \X Int)]
  /\ MaxCrossings \in Nat

\* A closed track is in dev["recent"].
Track == {"none", "unconfirmed", "confirmed", "closed"}
Tracked == {"unconfirmed", "confirmed"}

VARIABLES
  lines,    \* _lines: the ids of the lines the camera has
  state,    \* the track
  center,   \* prev_center, after the tick: the center of its last box
  crossings, \* crossed_lines[k]: how often k was crossed each way, and whether it has an event_id
  lineEdge, \* lineEdge[k]: what the console heard of that event: "nothing", "progress" or "left"
  began,    \* history: the center at the confirmation, or where the track last resumed
  base,     \* history: base[k]: crossings of k from A to B less those back, then
  touched,  \* history: lines on which a center lay exactly since then
  unsent,   \* history: lines of which a message could not be sent
  altered   \* history: lines the camera got or lost while the track was there, or that were
            \* discarded with it

lineVars == <<lines, state, center, crossings, lineEdge, began, base, touched, unsent, altered>>

Uncrossed == [a2b |-> 0, b2a |-> 0, event |-> FALSE]

LineInit ==
  /\ lines = {} /\ state = "none"
  /\ center \in Place /\ began = center
  /\ crossings = [k \in Line |-> Uncrossed] /\ lineEdge = [k \in Line |-> "nothing"]
  /\ base = [k \in Line |-> 0]
  /\ touched = {} /\ unsent = {} /\ altered = {}

-----------------------------------------------------------------------------
(* Geometry                                                                *)

\* Negative on the A side of the directed line p -> q, positive on the B side.
LineSide(p, q, pt) == (q[1] - p[1]) * (pt[2] - p[2]) - (q[2] - p[2]) * (pt[1] - p[1])

Side(k, pt) == LineSide(Ends[k][1], Ends[k][2], pt)

SegmentCrosses(prev, cur, k) ==
  /\ (Side(k, prev) > 0) # (Side(k, cur) > 0)
  /\ (LineSide(prev, cur, Ends[k][1]) > 0) # (LineSide(prev, cur, Ends[k][2]) > 0)

\* Who goes from one side of a spanning line to the other crosses it.
ASSUME SpanningAssumption ==
  /\ Spanning \subseteq Line
  /\ \A k \in Spanning : \A a, b \in Place :
       (Side(k, a) > 0) # (Side(k, b) > 0) => SegmentCrosses(a, b, k)

Direction(k, prev) == IF Side(k, prev) < 0 THEN "a2b" ELSE "b2a"

-----------------------------------------------------------------------------
(* The track                                                               *)

\* The lines a movement crosses, when they count.
CrossedBy(pt) == IF state = "confirmed" THEN {k \in lines : SegmentCrosses(center, pt, k)} ELSE {}

\* The message about k is sent, or raises, which is only logged.
Messages(ks, edge) == \E raising \in SUBSET ks :
  /\ lineEdge' = [k \in Line |-> IF k \in ks \ raising THEN edge ELSE lineEdge[k]]
  /\ unsent' = unsent \cup raising

\* A tick that finds the track at pt: every line crossed on the way is counted, with a message.
Moves(pt) ==
  /\ state \in Tracked /\ pt # center
  /\ LET ks == CrossedBy(pt) IN
     /\ \A k \in ks : crossings[k].a2b + crossings[k].b2a < MaxCrossings
     /\ crossings' = [k \in Line |->
          IF k \in ks THEN [crossings[k] EXCEPT ![Direction(k, center)] = @ + 1, !.event = TRUE]
          ELSE crossings[k]]
     /\ Messages(ks, "progress")
  /\ center' = pt
  /\ touched' = touched \cup {k \in Line : Side(k, pt) = 0}
  /\ UNCHANGED <<lines, state, began, base, altered>>

IsConfirmed == /\ state = "unconfirmed"
               /\ state' = "confirmed" /\ began' = center
               /\ UNCHANGED <<lines, center, crossings, lineEdge, base, touched, unsent, altered>>

\* In the startup window a new track is confirmed at once.
Appears(pt) == /\ state = "none"
               /\ state' \in Tracked
               /\ center' = pt /\ began' = pt
               /\ crossings' = [k \in Line |-> Uncrossed] /\ base' = [k \in Line |-> 0]
               /\ lineEdge' = [k \in Line |-> "nothing"]
               /\ touched' = {k \in Line : Side(k, pt) = 0}
               /\ unsent' = {} /\ altered' = {}
               /\ UNCHANGED lines

\* Nothing is left of the track but what the console heard of it.
Forgotten == /\ state' = "none"
             /\ crossings' = [k \in Line |-> Uncrossed] /\ base' = [k \in Line |-> 0]
             /\ began' = center /\ touched' = {}
             /\ UNCHANGED <<lines, center, lineEdge, unsent>>

\* An unconfirmed track is dropped when it is missed for too long.
IsLost == state = "unconfirmed" /\ Forgotten /\ UNCHANGED altered

\* The lines whose event _close_line_events leaves: of those there are by now.
LeftWith == {k \in lines : crossings[k].event}

\* Mistake: the event's id is kept, for a track that may come back.
IsGoneKeeping ==
  /\ state = "confirmed"
  /\ state' = "closed"
  /\ Messages(LeftWith, "left")
  /\ base' = [k \in Line |-> crossings[k].a2b - crossings[k].b2a]
  /\ began' = center /\ touched' = {}
  /\ UNCHANGED <<lines, center, crossings, altered>>

\* A confirmed track is missed for too long: its events are left, also if the message raises,
\* and it is kept for RESUME_S.
IsGone ==
  /\ state = "confirmed"
  /\ state' = "closed"
  /\ Messages(LeftWith, "left")
  /\ crossings' = [k \in Line |-> IF k \in LeftWith THEN [crossings[k] EXCEPT !.event = FALSE]
                                ELSE crossings[k]]
  /\ base' = [k \in Line |-> crossings[k].a2b - crossings[k].b2a]
  /\ began' = center /\ touched' = {}
  /\ UNCHANGED <<lines, center, altered>>

\* It is seen again, where it was or where it began: prev_center is set there, and no line on
\* the way is compared.
Resumes(pt) ==
  /\ state = "closed"
  /\ state' = "confirmed"
  /\ center' = pt /\ began' = pt
  /\ touched' = {k \in Line : Side(k, pt) = 0}
  /\ UNCHANGED <<lines, crossings, lineEdge, base, unsent, altered>>

\* RESUME_S passes, newer ones take its place, or the stream is stopped.
Expires == state = "closed" /\ Forgotten /\ UNCHANGED altered

\* The stream is stopped: the tracks are discarded, and with them what they crossed.
Discards == state \in Tracked /\ Forgotten /\ altered' = Line

\* Protect sets the lines; a line the camera loses while it was crossed has no one to leave it.
SetsLines == \E new \in SUBSET Line :
  /\ new # lines
  /\ lines' = new
  /\ altered' = IF state \notin Tracked THEN altered
                ELSE altered \cup {k \in Line : (k \in new) # (k \in lines)}
  /\ UNCHANGED <<state, center, crossings, lineEdge, began, base, touched, unsent>>

LineNext == \/ \E pt \in Place : Moves(pt) \/ Appears(pt) \/ Resumes(pt)
            \/ IsConfirmed \/ IsLost \/ IsGone \/ Expires \/ Discards \/ SetsLines

LineSpec == LineInit /\ [][LineNext]_lineVars

-----------------------------------------------------------------------------
(* Properties                                                              *)

\* Every variable has its type.
LineTypeOK ==
  /\ lines \subseteq Line /\ touched \subseteq Line
  /\ unsent \subseteq Line /\ altered \subseteq Line
  /\ state \in Track /\ center \in Place /\ began \in Place
  /\ crossings \in [Line -> [a2b : 0..MaxCrossings, b2a : 0..MaxCrossings, event : BOOLEAN]]
  /\ lineEdge \in [Line -> {"nothing", "progress", "left"}]
  /\ base \in [Line -> Int]

\* When a track is gone, the console holds no line event of it for one in progress, unless the
\* camera lost the line meanwhile, a message could not be sent or the stream was stopped.
LineEventsAreLeft ==
  state \notin Tracked => \A k \in Line : lineEdge[k] = "progress" => k \in unsent \cup altered

\* An event the console was told is over is over: a track that resumes enters a new one at its
\* next crossing of the line, unless the message of that one could not be sent.
LeftIsOver == \A k \in Line : lineEdge[k] = "left" /\ crossings[k].event => k \in unsent

\* The crossings counted of a line that goes across the frame since the track was confirmed, or
\* last resumed, add up to where it went since: once more from A to B than back if it is now on
\* B and was on A, and so on, unless a center lay exactly on the line: leaving it for B is then
\* counted as B to A.  Over a resumption they need not: a track that resumes on another side
\* than it closed on is not compared with the lines between.
OnB(k, pt) == IF Side(k, pt) > 0 THEN 1 ELSE 0
CrossingsAddUp ==
  state = "confirmed" =>
    \A k \in Spanning \cap lines :
      k \notin touched \cup altered =>
        crossings[k].a2b - crossings[k].b2a = base[k] + OnB(k, center) - OnB(k, began)

\* All three: what the console is told of crossings begins, adds up and ends.
LinesAddUp == LineEventsAreLeft /\ LeftIsOver /\ CrossingsAddUp
=============================================================================
