---------------------------- MODULE VehicleHelper ----------------------------
(***************************************************************************)
(* The helper process with the slow model (apple_fm.py).  It says "ready"  *)
(* once, then answers the lines it reads with a line each, in its order    *)
(* and its time.  classify asks it for one picture at a time, under a      *)
(* lock, and gives up after REQUEST_TIMEOUT_S; a helper that was given up  *)
(* is killed and the next call starts another.                             *)
(*                                                                         *)
(* Lines are the numbers of the calls they were asked in, or what a helper *)
(* says at first.                                                          *)
(***************************************************************************)
EXTENDS Integers, Sequences

CONSTANTS MaxCalls \* bound of the model: calls of classify

ASSUME CallsAssumption == MaxCalls \in Nat

Call == 1..MaxCalls
Helper == Call      \* a call starts one at most
NoHelper == 0
Ready == 0
Unavailable == -1

VARIABLES
  usable,  \* VehicleClassifier.available: "unknown" (None), "yes", "no"
  proc, \* _proc
  helpers, \* the helpers: runs, what they still have to read (stdin), what they said (stdout)
  calls,   \* calls so far
  asking,  \* where the last call is: "over", "first" (waits for "ready"), "ask", "wait"
  replies  \* history: what calls returned, but None

helperVars == <<usable, proc, helpers, calls, asking, replies>>

NotStarted == [runs |-> FALSE, stdin |-> <<>>, stdout |-> <<>>]

HelperInit ==
  /\ usable = "unknown" /\ proc = NoHelper
  /\ helpers = [h \in Helper |-> NotStarted]
  /\ calls = 0 /\ asking = "over" /\ replies = {}

Ended == proc = NoHelper \/ ~helpers[proc].runs

-----------------------------------------------------------------------------
(* The helper (vehicle_attrs.swift)                                        *)

Says(h, line) == helpers' = [helpers EXCEPT ![h].stdout = Append(@, line)]

\* At first: that it is ready, or not available.
Greets(h) ==
  /\ h = proc /\ asking = "first" /\ helpers[h] = [NotStarted EXCEPT !.runs = TRUE]
  /\ \/ Says(h, Ready)
     \/ helpers' = [helpers EXCEPT ![h].runs = FALSE, ![h].stdout = <<Unavailable>>]
  /\ UNCHANGED <<usable, proc, calls, asking, replies>>

Answers(h) ==
  /\ helpers[h].runs /\ helpers[h].stdin # <<>>
  /\ helpers' = [helpers EXCEPT ![h].stdin = Tail(@), ![h].stdout = Append(@, Head(helpers[h].stdin))]
  /\ UNCHANGED <<usable, proc, calls, asking, replies>>

\* It ends of itself; or its process was killed.
Dies(h) ==
  /\ helpers[h].runs
  /\ helpers' = [helpers EXCEPT ![h].runs = FALSE, ![h].stdin = <<>>]
  /\ UNCHANGED <<usable, proc, calls, asking, replies>>

-----------------------------------------------------------------------------
(* A call (classify)                                                       *)

\* The helper that was asked is no longer listened to.  (What it still says is in a pipe nobody
\* reads; as root it is started by way of sudo, whose end need not be its own.)
Stop == proc' = NoHelper

\* Without a helper one is built and started, which may fail, for good.
Starts ==
  \/ /\ proc' = calls' /\ helpers' = [helpers EXCEPT ![calls'].runs = TRUE]
     /\ asking' = "first" /\ UNCHANGED usable
  \/ /\ usable' = "no" /\ asking' = "over"
     /\ proc' \in {proc, NoHelper} /\ UNCHANGED helpers

Classify ==
  /\ asking = "over" /\ calls < MaxCalls /\ calls' = calls + 1
  /\ IF usable = "no" THEN UNCHANGED <<usable, proc, helpers, asking>>
     ELSE IF Ended THEN Starts
     ELSE asking' = "ask" /\ UNCHANGED <<usable, proc, helpers>>
  /\ UNCHANGED replies

ReadsFirst ==
  /\ asking = "first" /\ helpers[proc].stdout # <<>>
  /\ IF Head(helpers[proc].stdout) = Ready
     THEN /\ usable' = "yes" /\ asking' = "ask"
          /\ helpers' = [helpers EXCEPT ![proc].stdout = Tail(@)]
          /\ UNCHANGED proc
     ELSE /\ usable' = "no" /\ asking' = "over" /\ Stop
          /\ UNCHANGED helpers
  /\ UNCHANGED <<calls, replies>>

\* Nothing read in REQUEST_TIMEOUT_S, or the end of the pipe.
NotReady ==
  /\ asking = "first"
  /\ usable' = "no" /\ asking' = "over" /\ Stop
  /\ UNCHANGED <<helpers, calls, replies>>

\* The picture is written to it, which fails when it ended.
AsksHelper ==
  /\ asking = "ask"
  /\ IF Ended THEN asking' = "over" /\ Stop /\ UNCHANGED helpers
     ELSE /\ helpers' = [helpers EXCEPT ![proc].stdin = Append(@, calls)]
          /\ asking' = "wait" /\ UNCHANGED proc
  /\ UNCHANGED <<usable, calls, replies>>

\* A line is the answer, or an error, or no JSON: then the call returns None.
ReadsAnswer ==
  /\ asking = "wait" /\ helpers[proc].stdout # <<>>
  /\ helpers' = [helpers EXCEPT ![proc].stdout = Tail(@)]
  /\ replies' \in {replies, replies \cup {[asked |-> calls, answers |-> Head(helpers[proc].stdout)]}}
  /\ asking' = "over"
  /\ UNCHANGED <<usable, proc, calls>>

\* Mistake: the helper is kept for the next call.
GivesUpWaiting ==
  /\ asking = "wait" /\ asking' = "over"
  /\ UNCHANGED <<usable, proc, helpers, calls, replies>>

GivesUp ==
  /\ asking = "wait" /\ asking' = "over" /\ Stop
  /\ UNCHANGED <<usable, helpers, calls, replies>>

-----------------------------------------------------------------------------
HelperNext ==
  \/ \E h \in Helper : Greets(h) \/ Answers(h) \/ Dies(h)
  \/ Classify \/ ReadsFirst \/ NotReady \/ AsksHelper \/ ReadsAnswer \/ GivesUp

HelperSpec == HelperInit /\ [][HelperNext]_helperVars

-----------------------------------------------------------------------------
(* Properties                                                              *)

HelperTypeOK ==
  /\ usable \in {"unknown", "yes", "no"} /\ asking \in {"over", "first", "ask", "wait"}
  /\ proc \in Helper \cup {NoHelper} /\ calls \in 0..MaxCalls
  /\ helpers \in [Helper -> [runs : BOOLEAN, stdin : Seq(Call), stdout : Seq(Call \cup {Ready, Unavailable})]]
  /\ replies \subseteq [asked : Call, answers : Call \cup {Ready, Unavailable}]

\* A call returns the answer to its own picture, never a late one to a picture before: what a
\* helper has not yet read or not yet been heard of saying is for the call that waits.
OwnAnswers ==
  /\ \A r \in replies : r.answers = r.asked
  /\ asking \in {"over", "ask"} /\ ~Ended => helpers[proc].stdin = <<>> /\ helpers[proc].stdout = <<>>

\* Who is asked has said it is ready; once it is known not to be usable nothing is asked.
AskedWhenReady == asking \in {"ask", "wait"} => usable = "yes" /\ proc # NoHelper

HelperAnswersItsCall == OwnAnswers /\ AskedWhenReady
=============================================================================
