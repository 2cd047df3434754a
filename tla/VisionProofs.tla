------------------------------ MODULE VisionProofs ------------------------------
(***************************************************************************)
(* Proofs about the parts that look at pictures: what a vehicle is asked   *)
(* of a slow model and told by it, whether a parked vehicle moved, whose   *)
(* face it is, and the faces that are known.  They share no state; each    *)
(* has an inductive invariant of its own.                                  *)
(***************************************************************************)
EXTENDS VehicleHelper, VehicleAnswers, Parking, FaceNames, KnownFaces,
        SequenceTheorems, FiniteSetTheorems, TLAPS

-----------------------------------------------------------------------------
(***************************************************************************)
(* The vehicle helper: an answer is the one that was asked for.  What is in *)
(* the two pipes of the helper in use decides it.  Between calls they are  *)
(* empty; during a call they hold at most one line, which is the greeting or *)
(* this call's.  A call that gives up forgets the helper, so that a late line *)
(* stays with it.                                                          *)
(***************************************************************************)

Empty(h) == helpers[h].stdin = <<>> /\ helpers[h].stdout = <<>>

\* The pipes of the helper in use, by where the call is.
Greeting ==
  asking = "first" =>
    /\ proc # NoHelper /\ helpers[proc].stdin = <<>>
    /\ helpers[proc].stdout \in {<<>>, <<Ready>>, <<Unavailable>>}
Quiet == asking \in {"over", "ask"} /\ proc # NoHelper => Empty(proc)
OneLine ==
  asking = "wait" =>
    /\ proc # NoHelper /\ calls \in Call
    /\ \/ helpers[proc].stdin \in {<<>>, <<calls>>} /\ helpers[proc].stdout = <<>>
       \/ helpers[proc].stdin = <<>> /\ helpers[proc].stdout = <<calls>>

\* Helpers that are not yet started, and what is known of the one in use.
Unstarted == \A h \in Helper : h > calls => helpers[h] = NotStarted
Known == /\ asking = "over" /\ proc # NoHelper => usable # "unknown"
         /\ asking = "first" => calls \in Call
         /\ asking \in {"ask", "wait"} => usable = "yes" /\ proc # NoHelper /\ calls \in Call

HelperInv ==
  /\ HelperTypeOK /\ Greeting /\ Quiet /\ OneLine /\ Unstarted /\ Known
  /\ \A r \in replies : r.answers = r.asked

LEMMA HelperInitInv == HelperInit => HelperInv
PROOF
<1> SUFFICES ASSUME HelperInit PROVE HelperInv OBVIOUS
<1>1. NotStarted \in [runs : BOOLEAN, stdin : Seq(Call), stdout : Seq(Call \cup {Ready, Unavailable})]
  BY DEF NotStarted
<1>2. HelperTypeOK BY <1>1, CallsAssumption DEF HelperInit, HelperTypeOK
<1>3. QED
  BY <1>2 DEF HelperInit, HelperInv, Greeting, Quiet, OneLine, Unstarted, Known, NoHelper

Line == Call \cup {Ready, Unavailable}
Pipes == [runs : BOOLEAN, stdin : Seq(Call), stdout : Seq(Line)]

\* What the pipes of the helper in use may hold, by where the call is.
Awaited(r) ==
  /\ asking = "first" => r.stdin = <<>> /\ r.stdout \in {<<>>, <<Ready>>, <<Unavailable>>}
  /\ asking \in {"over", "ask"} => r.stdin = <<>> /\ r.stdout = <<>>
  /\ asking = "wait" => \/ r.stdin \in {<<>>, <<calls>>} /\ r.stdout = <<>>
                        \/ r.stdin = <<>> /\ r.stdout = <<calls>>

LEMMA InUseAwaited == ASSUME HelperInv, proc # NoHelper PROVE Awaited(helpers[proc])
BY DEF HelperInv, Greeting, Quiet, Empty, OneLine, Awaited

\* A helper does something of itself; if it is in use its pipes hold what is awaited.
LEMMA HelperStepInv ==
  ASSUME HelperInv, NEW h \in Helper, NEW r \in Pipes, helpers[h] # NotStarted,
         helpers' = [helpers EXCEPT ![h] = r], UNCHANGED <<usable, proc, calls, asking, replies>>,
         h = proc => Awaited(r)
  PROVE  HelperInv'
PROOF
<1>1. /\ HelperTypeOK /\ Greeting /\ Quiet /\ OneLine /\ Unstarted /\ Known
      /\ \A a \in replies : a.answers = a.asked
  BY DEF HelperInv
<1>2. helpers \in [Helper -> Pipes] BY <1>1 DEF HelperTypeOK, Pipes, Line
<1>3. helpers' \in [Helper -> Pipes] BY <1>2
<1>4. HelperTypeOK' BY <1>1, <1>3 DEF HelperTypeOK, Pipes, Line
<1>5. \A g \in Helper : helpers'[g] = IF g = h THEN r ELSE helpers[g] BY <1>2
<1>6. proc # NoHelper => proc \in Helper BY <1>1 DEF HelperTypeOK
<1>7. Greeting' /\ Quiet' /\ OneLine'
  <2>1. CASE proc = h
    BY <1>1, <1>5, <1>6, <2>1 DEF Greeting, Quiet, OneLine, Empty, Awaited
  <2>2. CASE proc # h
    BY <1>1, <1>5, <1>6, <2>2 DEF Greeting, Quiet, OneLine, Empty
  <2>3. QED BY <2>1, <2>2
<1>8. Unstarted' BY <1>1, <1>5 DEF Unstarted
<1>9. Known' BY <1>1 DEF Known
<1>10. QED BY <1>1, <1>4, <1>7, <1>8, <1>9 DEF HelperInv

LEMMA GreetsInv == ASSUME HelperInv, NEW h \in Helper, Greets(h) PROVE HelperInv'
PROOF
<1> DEFINE old == helpers[h]
           r == [old EXCEPT !.stdout = Append(old.stdout, Ready)]
           n == [[old EXCEPT !.runs = FALSE] EXCEPT !.stdout = <<Unavailable>>]
<1>1. /\ asking = "first" /\ UNCHANGED <<usable, proc, calls, asking, replies>>
      /\ old \in Pipes
  BY DEF Greets, HelperInv, HelperTypeOK, Pipes, Line
<1>2. old.runs /\ old.stdin = <<>> /\ old.stdout = <<>> BY DEF Greets, NotStarted
<1>3. Ready \in Line /\ Unavailable \in Line BY DEF Line
<1>4. Append(old.stdout, Ready) = <<Ready>> /\ <<Ready>> \in Seq(Line) /\ <<Unavailable>> \in Seq(Line)
  BY <1>2, <1>3
<1>5. r \in Pipes /\ n \in Pipes BY <1>1, <1>4 DEF Pipes
<1>6. r.stdin = <<>> /\ r.stdout = <<Ready>> /\ n.stdin = <<>> /\ n.stdout = <<Unavailable>>
  BY <1>1, <1>2, <1>4 DEF Pipes
<1>7. old # NotStarted BY <1>2 DEF NotStarted
<1>8. Awaited(r) /\ Awaited(n) BY <1>1, <1>6 DEF Awaited
<1>9. CASE Says(h, Ready)
  <2>1. helpers' = [helpers EXCEPT ![h] = r] BY <1>9 DEF Says
  <2>2. QED BY <1>1, <1>5, <1>7, <1>8, <2>1, HelperStepInv
<1>10. CASE helpers' = [helpers EXCEPT ![h].runs = FALSE, ![h].stdout = <<Unavailable>>]
  <2>1. helpers' = [helpers EXCEPT ![h] = n]
    BY <1>10 DEF HelperInv, HelperTypeOK
  <2>2. QED BY <1>1, <1>5, <1>7, <1>8, <2>1, HelperStepInv
<1>11. QED BY <1>9, <1>10 DEF Greets

LEMMA HelperAnswersInv == ASSUME HelperInv, NEW h \in Helper, Answers(h) PROVE HelperInv'
PROOF
<1> DEFINE old == helpers[h]
           r == [old EXCEPT !.stdin = Tail(old.stdin), !.stdout = Append(old.stdout, Head(old.stdin))]
<1>1. /\ old \in Pipes /\ old.stdin # <<>> /\ calls \in Nat
      /\ UNCHANGED <<usable, proc, calls, asking, replies>>
  BY CallsAssumption DEF Answers, HelperInv, HelperTypeOK, Pipes, Line
<1>2. helpers' = [helpers EXCEPT ![h] = r] BY DEF Answers
<1>3. /\ Tail(old.stdin) \in Seq(Call) /\ Head(old.stdin) \in Line
      /\ Append(old.stdout, Head(old.stdin)) \in Seq(Line)
  BY <1>1 DEF Pipes, Line
<1>4. /\ r \in Pipes /\ r.stdin = Tail(old.stdin)
      /\ r.stdout = Append(old.stdout, Head(old.stdin))
  BY <1>1, <1>3 DEF Pipes
<1>5. old # NotStarted BY <1>1 DEF NotStarted
<1>6. h = proc => Awaited(r)
  <2>1. SUFFICES ASSUME h = proc PROVE Awaited(r) OBVIOUS
  <2>2. Awaited(old) BY <2>1, InUseAwaited DEF Helper, Call, NoHelper
  <2>3. asking = "wait" /\ old.stdin = <<calls>> /\ old.stdout = <<>>
    BY <1>1, <2>2 DEF Awaited, HelperInv, HelperTypeOK
  <2>4. Tail(<<calls>>) = <<>> /\ Append(<<>>, Head(<<calls>>)) = <<calls>> BY <1>1
  <2>5. r.stdin = <<>> /\ r.stdout = <<calls>> BY <1>4, <2>3, <2>4
  <2>6. QED BY <2>3, <2>5 DEF Awaited
<1>7. QED BY <1>1, <1>2, <1>4, <1>5, <1>6, HelperStepInv

LEMMA DiesInv == ASSUME HelperInv, NEW h \in Helper, Dies(h) PROVE HelperInv'
PROOF
<1> DEFINE old == helpers[h]
           r == [[old EXCEPT !.runs = FALSE] EXCEPT !.stdin = <<>>]
<1>1. /\ old \in Pipes /\ old.runs /\ UNCHANGED <<usable, proc, calls, asking, replies>>
  BY DEF Dies, HelperInv, HelperTypeOK, Pipes, Line
<1>2. helpers' = [helpers EXCEPT ![h] = r] BY DEF Dies
<1>3. r \in Pipes /\ r.stdin = <<>> /\ r.stdout = old.stdout
  <2>1. <<>> \in Seq(Call) OBVIOUS
  <2>2. QED BY <1>1, <2>1 DEF Pipes
<1>4. old # NotStarted BY <1>1 DEF NotStarted
<1>5. h = proc => Awaited(r)
  <2>1. SUFFICES ASSUME h = proc PROVE Awaited(r) OBVIOUS
  <2>2. Awaited(old) BY <2>1, InUseAwaited DEF Helper, Call, NoHelper
  <2>3. QED BY <1>3, <2>2 DEF Awaited
<1>6. QED BY <1>1, <1>2, <1>3, <1>4, <1>5, HelperStepInv

LEMMA ClassifyInv == ASSUME HelperInv, Classify PROVE HelperInv'
PROOF
<1> USE CallsAssumption
<1>1. /\ HelperTypeOK /\ Quiet /\ Unstarted /\ Known
      /\ \A a \in replies : a.answers = a.asked
  BY DEF HelperInv
<1>2. /\ asking = "over" /\ calls \in 0..MaxCalls /\ calls' = calls + 1
      /\ calls' \in Helper /\ UNCHANGED replies
  BY <1>1 DEF Classify, HelperTypeOK, Helper, Call
<1>3. /\ helpers \in [Helper -> Pipes] /\ proc \in Helper \cup {NoHelper}
  BY <1>1 DEF HelperTypeOK, Pipes, Line
<1>4. CASE UNCHANGED <<usable, proc, helpers, asking>>
  BY <1>1, <1>2, <1>4 DEF HelperInv, HelperTypeOK, Greeting, Quiet, Empty, OneLine, Unstarted, Known,
                          Helper, Call
<1>5. CASE ~Ended /\ asking' = "ask" /\ usable # "no" /\ UNCHANGED <<usable, proc, helpers>>
  <2>1. usable = "yes" /\ proc # NoHelper BY <1>1, <1>2, <1>5 DEF Known, HelperTypeOK, Ended
  <2>2. QED
    BY <1>1, <1>2, <1>5, <2>1 DEF HelperInv, HelperTypeOK, Greeting, Quiet, Empty, OneLine,
                                  Unstarted, Known, Helper, Call
<1>6. CASE /\ proc' = calls' /\ helpers' = [helpers EXCEPT ![calls'].runs = TRUE]
           /\ asking' = "first" /\ UNCHANGED usable
  <2> DEFINE r == [helpers[calls'] EXCEPT !.runs = TRUE]
  <2>1. helpers[calls'] = NotStarted BY <1>1, <1>2 DEF Unstarted, Helper, Call
  <2>2. helpers[calls'] \in Pipes /\ helpers[calls'].stdin = <<>> /\ helpers[calls'].stdout = <<>>
    BY <1>2, <1>3, <2>1 DEF NotStarted
  <2>3. r \in Pipes /\ r.stdin = <<>> /\ r.stdout = <<>>
    BY <2>2 DEF Pipes
  <2>4. helpers' = [helpers EXCEPT ![calls'] = r] BY <1>6
  <2>5. /\ helpers' \in [Helper -> Pipes] /\ helpers'[calls'] = r
        /\ \A g \in Helper : g # calls' => helpers'[g] = helpers[g]
    BY <1>2, <1>3, <2>3, <2>4
  <2>6. HelperTypeOK' BY <1>1, <1>2, <1>6, <2>5 DEF HelperTypeOK, Pipes, Line, Helper, Call
  <2>7. Greeting' /\ Quiet' /\ OneLine' /\ Known'
    BY <1>2, <1>6, <2>3, <2>5 DEF Greeting, Quiet, OneLine, Known, Helper, Call, NoHelper
  <2>8. Unstarted' BY <1>1, <1>2, <2>5 DEF Unstarted, Helper, Call
  <2>9. QED BY <1>1, <1>2, <2>6, <2>7, <2>8 DEF HelperInv
<1>7. CASE /\ usable' = "no" /\ asking' = "over"
           /\ proc' \in {proc, NoHelper} /\ UNCHANGED helpers
  <2>1. HelperTypeOK' /\ Greeting' /\ OneLine' /\ Known'
    BY <1>1, <1>2, <1>7 DEF HelperTypeOK, Greeting, OneLine, Known, Helper, Call
  <2>2. Quiet' BY <1>1, <1>2, <1>7 DEF Quiet, Empty
  <2>3. Unstarted' BY <1>1, <1>2, <1>7 DEF Unstarted, Helper, Call
  <2>4. QED BY <1>1, <1>2, <2>1, <2>2, <2>3 DEF HelperInv
<1>8. QED BY <1>4, <1>5, <1>6, <1>7 DEF Classify, Starts

LEMMA ReadsFirstInv == ASSUME HelperInv, ReadsFirst PROVE HelperInv'
PROOF
<1> DEFINE old == helpers[proc]
           r == [old EXCEPT !.stdout = Tail(old.stdout)]
<1>1. /\ HelperTypeOK /\ Greeting /\ Unstarted /\ Known /\ asking = "first"
      /\ old.stdout # <<>> /\ UNCHANGED <<calls, replies>>
      /\ \A a \in replies : a.answers = a.asked
  BY DEF HelperInv, ReadsFirst
<1>2. /\ helpers \in [Helper -> Pipes] /\ proc \in Helper /\ old \in Pipes /\ proc # NoHelper
      /\ old.stdin = <<>> /\ old.stdout \in {<<Ready>>, <<Unavailable>>} /\ calls \in Call
  BY <1>1 DEF HelperTypeOK, Greeting, Known, Pipes, Line
<1>3. CASE /\ usable' = "yes" /\ asking' = "ask" /\ UNCHANGED proc
           /\ helpers' = [helpers EXCEPT ![proc].stdout = Tail(@)]
  <2>1. Tail(old.stdout) = <<>> /\ <<>> \in Seq(Line)
    <3>1. \A line : Tail(<<line>>) = <<>> OBVIOUS
    <3>2. <<>> \in Seq(Line) OBVIOUS
    <3>3. QED BY <1>2, <3>1, <3>2
  <2>2. r \in Pipes /\ r.stdin = <<>> /\ r.stdout = <<>> BY <1>2, <2>1 DEF Pipes
  <2>3. helpers' = [helpers EXCEPT ![proc] = r] BY <1>3
  <2>4. /\ helpers' \in [Helper -> Pipes] /\ helpers'[proc] = r
        /\ \A g \in Helper : g # proc => helpers'[g] = helpers[g]
    BY <1>2, <2>2, <2>3
  <2>5. HelperTypeOK' BY <1>1, <1>3, <2>4 DEF HelperTypeOK, Pipes, Line
  <2>6. Greeting' /\ Quiet' /\ OneLine' /\ Known'
    BY <1>1, <1>2, <1>3, <2>2, <2>4 DEF Greeting, Quiet, Empty, OneLine, Known
  <2>7. helpers[proc] # NotStarted BY <1>1 DEF NotStarted
  <2>8. Unstarted' BY <1>1, <1>2, <1>3, <2>4, <2>7 DEF Unstarted
  <2>9. QED BY <1>1, <2>5, <2>6, <2>8 DEF HelperInv
<1>4. CASE usable' = "no" /\ asking' = "over" /\ proc' = NoHelper /\ UNCHANGED helpers
  BY <1>1, <1>4 DEF HelperInv, HelperTypeOK, Greeting, Quiet, Empty, OneLine, Unstarted, Known
<1>5. QED BY <1>3, <1>4 DEF ReadsFirst, Stop

LEMMA AsksHelperInv == ASSUME HelperInv, AsksHelper PROVE HelperInv'
PROOF
<1> DEFINE old == helpers[proc]
           r == [old EXCEPT !.stdin = Append(old.stdin, calls)]
<1>1. /\ HelperTypeOK /\ Quiet /\ Unstarted /\ Known /\ asking = "ask"
      /\ UNCHANGED <<usable, calls, replies>> /\ \A a \in replies : a.answers = a.asked
  BY DEF HelperInv, AsksHelper
<1>2. /\ helpers \in [Helper -> Pipes] /\ proc \in Helper /\ old \in Pipes /\ proc # NoHelper
      /\ old.stdin = <<>> /\ old.stdout = <<>> /\ usable = "yes" /\ calls \in Call
  BY <1>1 DEF HelperTypeOK, Quiet, Empty, Known, Pipes, Line
<1>3. CASE asking' = "over" /\ proc' = NoHelper /\ UNCHANGED helpers
  BY <1>1, <1>3 DEF HelperInv, HelperTypeOK, Greeting, Quiet, Empty, OneLine, Unstarted, Known
<1>4. CASE /\ helpers[proc].runs /\ asking' = "wait" /\ UNCHANGED proc
           /\ helpers' = [helpers EXCEPT ![proc].stdin = Append(@, calls)]
  <2>1. Append(old.stdin, calls) = <<calls>> /\ <<calls>> \in Seq(Call) BY <1>2
  <2>2. r \in Pipes /\ r.stdin = <<calls>> /\ r.stdout = <<>> BY <1>2, <2>1 DEF Pipes
  <2>3. helpers' = [helpers EXCEPT ![proc] = r] BY <1>4
  <2>4. /\ helpers' \in [Helper -> Pipes] /\ helpers'[proc] = r
        /\ \A g \in Helper : g # proc => helpers'[g] = helpers[g]
    BY <1>2, <2>2, <2>3
  <2>5. HelperTypeOK' BY <1>1, <1>4, <2>4 DEF HelperTypeOK, Pipes, Line
  <2>6. Greeting' /\ Quiet' /\ OneLine' /\ Known'
    BY <1>1, <1>2, <1>4, <2>2, <2>4 DEF Greeting, Quiet, Empty, OneLine, Known
  <2>7. helpers[proc] # NotStarted BY <1>4 DEF NotStarted
  <2>8. Unstarted' BY <1>1, <1>2, <1>4, <2>4, <2>7 DEF Unstarted
  <2>9. QED BY <1>1, <2>5, <2>6, <2>8 DEF HelperInv
<1>5. QED BY <1>2, <1>3, <1>4 DEF AsksHelper, Stop, Ended

LEMMA ReadsAnswerInv == ASSUME HelperInv, ReadsAnswer PROVE HelperInv'
PROOF
<1> DEFINE old == helpers[proc]
           r == [old EXCEPT !.stdout = Tail(old.stdout)]
<1>1. /\ HelperTypeOK /\ OneLine /\ Unstarted /\ Known /\ asking = "wait" /\ asking' = "over"
      /\ UNCHANGED <<usable, proc, calls>> /\ \A a \in replies : a.answers = a.asked
      /\ old.stdout # <<>>
  BY DEF HelperInv, ReadsAnswer
<1>2. /\ helpers \in [Helper -> Pipes] /\ proc \in Helper /\ old \in Pipes /\ proc # NoHelper
      /\ old.stdin = <<>> /\ old.stdout = <<calls>> /\ usable = "yes" /\ calls \in Call
  BY <1>1 DEF HelperTypeOK, OneLine, Known, Pipes, Line
<1>3. Tail(old.stdout) = <<>> /\ Head(old.stdout) = calls BY <1>2
<1>4. r \in Pipes /\ r.stdin = <<>> /\ r.stdout = <<>> BY <1>2, <1>3 DEF Pipes
<1>5. helpers' = [helpers EXCEPT ![proc] = r] BY DEF ReadsAnswer
<1>6. /\ helpers' \in [Helper -> Pipes] /\ helpers'[proc] = r
      /\ \A g \in Helper : g # proc => helpers'[g] = helpers[g]
  BY <1>2, <1>4, <1>5
<1>7. replies' \in {replies, replies \cup {[asked |-> calls, answers |-> calls]}}
  BY <1>3 DEF ReadsAnswer
<1>8. \A a \in replies' : a.answers = a.asked BY <1>1, <1>7
<1>9. HelperTypeOK' BY <1>1, <1>2, <1>6, <1>7 DEF HelperTypeOK, Pipes, Line
<1>10. Greeting' /\ Quiet' /\ OneLine' /\ Known'
  BY <1>1, <1>2, <1>4, <1>6 DEF Greeting, Quiet, Empty, OneLine, Known
<1>11. helpers[proc] # NotStarted BY <1>1 DEF NotStarted
<1>12. Unstarted' BY <1>1, <1>2, <1>6, <1>11 DEF Unstarted
<1>13. QED BY <1>8, <1>9, <1>10, <1>12 DEF HelperInv

LEMMA HelperNextInv == HelperInv /\ [HelperNext]_helperVars => HelperInv'
PROOF
<1> SUFFICES ASSUME HelperInv, [HelperNext]_helperVars PROVE HelperInv' OBVIOUS
<1> USE CallsAssumption DEF NoHelper, Ready, Unavailable, Call, Helper
<1>1. HelperTypeOK BY DEF HelperInv
<1>2. ASSUME NEW h \in Helper, Greets(h) PROVE HelperInv' BY <1>2, GreetsInv
<1>3. ASSUME NEW h \in Helper, Answers(h) PROVE HelperInv' BY <1>3, HelperAnswersInv
<1>4. ASSUME NEW h \in Helper, Dies(h) PROVE HelperInv' BY <1>4, DiesInv
<1>5. CASE Classify BY <1>5, ClassifyInv
<1>6. CASE ReadsFirst BY <1>6, ReadsFirstInv
<1>7. CASE NotReady
  BY <1>1, <1>7 DEF NotReady, Stop, HelperInv, HelperTypeOK, Greeting, Quiet, Empty,
                    OneLine, Unstarted, Known
<1>8. CASE AsksHelper BY <1>8, AsksHelperInv
<1>9. CASE ReadsAnswer BY <1>9, ReadsAnswerInv
<1>10. CASE GivesUp
  BY <1>1, <1>10 DEF GivesUp, Stop, HelperInv, HelperTypeOK, Greeting, Quiet, Empty,
                     OneLine, Unstarted, Known
<1>11. CASE UNCHANGED helperVars
  BY <1>1, <1>11 DEF helperVars, HelperInv, HelperTypeOK, Greeting, Quiet, Empty,
                     OneLine, Unstarted, Known
<1>12. QED
  BY <1>2, <1>3, <1>4, <1>5, <1>6, <1>7, <1>8, <1>9, <1>10, <1>11 DEF HelperNext

\* Every variable of the vehicle helper has its type.
THEOREM HelperTypeCorrect == HelperSpec => []HelperTypeOK
PROOF
<1>1. HelperInv => HelperTypeOK BY DEF HelperInv
<1>2. QED BY <1>1, HelperInitInv, HelperNextInv, PTL DEF HelperSpec

\* A call of classify returns the answer to its own picture, however many calls before it gave
\* up on a helper and whenever helpers died; and only a helper that said it is ready is asked.
THEOREM AnswersBelong == HelperSpec => []HelperAnswersItsCall
PROOF
<1>1. HelperInv => HelperAnswersItsCall
  BY DEF HelperInv, HelperAnswersItsCall, OwnAnswers, AskedWhenReady, Quiet, Empty, Ended, Known
<1>2. QED BY <1>1, HelperInitInv, HelperNextInv, PTL DEF HelperSpec

-----------------------------------------------------------------------------
(***************************************************************************)
(* The questions to the slow model: what a track waits for is as many jobs as *)
(* are queued or in work for it.  The queue is told apart by position: a job *)
(* put at its end is one more, the one taken from its head one less.       *)
(***************************************************************************)

Job == Vehicle \X Spot
Asked == [at : {"new", "here", "recent", "gone"}, sent : 0..MaxCrops, pending : 0..MaxCrops,
          votes : 0..MaxCrops, paced : BOOLEAN, hold : 0..(HoldFor + 1)]

AnswersTyped ==
  /\ available \in BOOLEAN /\ fm \in [Vehicle -> Asked]
  /\ fmQueue \in Seq(Job) /\ Len(fmQueue) <= QueueMax /\ working \in {<<>>} \cup Job
  /\ fmCache \in [Spot -> 0..MaxCrops]

\* What holds of a track, with n jobs of it queued or in work.
Settled(a, n) ==
  /\ a.pending = n /\ a.votes + a.pending <= a.sent
  /\ a.at = "recent" /\ a.pending > 0 => a.hold > HoldFor

AnswersInv == AnswersTyped /\ \A c \in Vehicle : Settled(fm[c], Jobs(c))

\* The jobs of a track: how many positions of the queue, and whether the worker has one.
OfTrack(q, c) == {k \in DOMAIN q : q[k][1] = c}
InWork(w, c) == IF w # <<>> /\ w[1] = c THEN 1 ELSE 0

LEMMA QueuedFinite ==
  ASSUME NEW q \in Seq(Job), NEW c
  PROVE  IsFiniteSet(OfTrack(q, c)) /\ Cardinality(OfTrack(q, c)) \in Nat
PROOF
<1>1. DOMAIN q = 1..Len(q) /\ Len(q) \in Nat OBVIOUS
<1>2. IsFiniteSet(1..Len(q)) BY <1>1, FS_Interval
<1>3. OfTrack(q, c) \subseteq 1..Len(q) BY <1>1 DEF OfTrack
<1>4. QED BY <1>2, <1>3, FS_Subset, FS_CardinalityType

LEMMA QueuedMore ==
  ASSUME NEW q \in Seq(Job), NEW j \in Job, NEW c
  PROVE  Cardinality(OfTrack(Append(q, j), c)) = Cardinality(OfTrack(q, c)) + IF j[1] = c THEN 1 ELSE 0
PROOF
<1> DEFINE l == Len(q) + 1 a == Append(q, j)
<1>1. DOMAIN q = 1..Len(q) /\ Len(q) \in Nat /\ DOMAIN a = 1..l /\ a[l] = j
      /\ \A k \in DOMAIN q : a[k] = q[k]
  OBVIOUS
<1>2. l \notin OfTrack(q, c) BY <1>1 DEF OfTrack
<1>3. IsFiniteSet(OfTrack(q, c)) /\ Cardinality(OfTrack(q, c)) \in Nat BY QueuedFinite
<1> HIDE DEF a
<1>4. CASE j[1] = c
  <2>1. OfTrack(a, c) = OfTrack(q, c) \cup {l} BY <1>1, <1>4 DEF OfTrack
  <2>2. Cardinality(OfTrack(a, c)) = Cardinality(OfTrack(q, c)) + 1 BY <1>2, <1>3, <2>1, FS_AddElement
  <2>3. QED BY <1>4, <2>2 DEF a
<1>5. CASE j[1] # c
  <2>1. OfTrack(a, c) = OfTrack(q, c) BY <1>1, <1>5 DEF OfTrack
  <2>2. QED BY <1>3, <1>5, <2>1 DEF a
<1>6. QED BY <1>4, <1>5

LEMMA QueuedLess ==
  ASSUME NEW q \in Seq(Job), q # <<>>, NEW c
  PROVE  Cardinality(OfTrack(q, c)) = Cardinality(OfTrack(Tail(q), c)) + IF Head(q)[1] = c THEN 1 ELSE 0
PROOF
<1> DEFINE t == Tail(q)
           rest == {k \in DOMAIN q : k # 1 /\ q[k][1] = c}
           f == [k \in OfTrack(t, c) |-> k + 1]
<1>1. /\ DOMAIN q = 1..Len(q) /\ Len(q) \in Nat \ {0} /\ DOMAIN t = 1..(Len(q) - 1) /\ Head(q) = q[1]
      /\ t \in Seq(Job) /\ \A k \in DOMAIN t : t[k] = q[k + 1]
  OBVIOUS
<1> HIDE DEF t
<1>2. f \in Bijection(OfTrack(t, c), rest)
  <2>1. \A k \in OfTrack(t, c) : k \in Nat /\ k + 1 \in rest BY <1>1 DEF OfTrack
  <2>2. \A k \in rest : k - 1 \in OfTrack(t, c) /\ f[k - 1] = k BY <1>1 DEF OfTrack
  <2>3. f \in [OfTrack(t, c) -> rest] BY <2>1
  <2>4. \A k, m \in OfTrack(t, c) : f[k] = f[m] => k = m BY <2>1
  <2>5. f \in Surjection(OfTrack(t, c), rest) BY <2>2, <2>3 DEF Surjection
  <2>6. f \in Injection(OfTrack(t, c), rest) BY <2>3, <2>4 DEF Injection, IsInjective
  <2>7. QED BY <2>5, <2>6 DEF Bijection
<1>3. ExistsBijection(OfTrack(t, c), rest) BY <1>2 DEF ExistsBijection
<1>4. IsFiniteSet(OfTrack(t, c)) /\ Cardinality(OfTrack(t, c)) \in Nat BY <1>1, QueuedFinite
<1>5. IsFiniteSet(rest) /\ Cardinality(rest) = Cardinality(OfTrack(t, c)) BY <1>3, <1>4, FS_Bijection
<1> HIDE DEF rest
<1>6. CASE q[1][1] = c
  <2>1. OfTrack(q, c) = rest \cup {1} /\ 1 \notin rest BY <1>1, <1>6 DEF OfTrack, rest
  <2>2. QED BY <1>1, <1>5, <1>6, <2>1, FS_AddElement DEF t
<1>7. CASE q[1][1] # c
  <2>1. OfTrack(q, c) = rest BY <1>1, <1>7 DEF OfTrack, rest
  <2>2. QED BY <1>1, <1>4, <1>5, <1>7, <2>1 DEF t
<1>8. QED BY <1>6, <1>7

LEMMA JobsFacts ==
  /\ \A c \in Vehicle : Jobs(c) = Cardinality(OfTrack(fmQueue, c)) + InWork(working, c)
  /\ \A c \in Vehicle : Jobs(c)' = Cardinality(OfTrack(fmQueue', c)) + InWork(working', c)
BY DEF Jobs, QueuedOf, OfTrack, InWork

\* What a track is, by its fields.
LEMMA AskedFacts ==
  ASSUME NEW a \in Asked
  PROVE  /\ a = [at |-> a.at, sent |-> a.sent, pending |-> a.pending, votes |-> a.votes,
                 paced |-> a.paced, hold |-> a.hold]
         /\ a.at \in {"new", "here", "recent", "gone"} /\ a.paced \in BOOLEAN
         /\ a.sent \in Nat /\ a.sent <= MaxCrops /\ a.pending \in Nat /\ a.pending <= MaxCrops
         /\ a.votes \in Nat /\ a.votes <= MaxCrops /\ a.hold \in Nat /\ a.hold <= HoldFor + 1
BY VehicleAssumption DEF Asked

LEMMA IsAsked ==
  ASSUME NEW at \in {"new", "here", "recent", "gone"}, NEW sent \in Nat, NEW pending \in Nat,
         NEW votes \in Nat, NEW paced \in BOOLEAN, NEW hold \in Nat,
         sent <= MaxCrops, votes + pending <= sent, hold <= HoldFor + 1
  PROVE  [at |-> at, sent |-> sent, pending |-> pending, votes |-> votes, paced |-> paced, hold |-> hold] \in Asked
PROOF
<1>1. sent \in 0..MaxCrops /\ pending \in 0..MaxCrops /\ votes \in 0..MaxCrops /\ hold \in 0..(HoldFor + 1)
  BY VehicleAssumption
<1>2. QED BY <1>1 DEF Asked

\* One track changes, and no other's jobs do.
LEMMA TrackChanges ==
  ASSUME AnswersInv, NEW c \in Vehicle, NEW r \in Asked, fm' = [fm EXCEPT ![c] = r],
         available' \in BOOLEAN, fmQueue' \in Seq(Job), Len(fmQueue') <= QueueMax,
         working' \in {<<>>} \cup Job, fmCache' \in [Spot -> 0..MaxCrops],
         \A b \in Vehicle \ {c} : Jobs(b)' = Jobs(b),
         r.pending = Jobs(c)', r.votes + r.pending <= r.sent,
         r.at = "recent" /\ r.pending > 0 => r.hold > HoldFor
  PROVE  AnswersInv'
PROOF
<1>1. AnswersTyped /\ \A b \in Vehicle : Settled(fm[b], Jobs(b)) BY DEF AnswersInv
<1>2. fm' \in [Vehicle -> Asked] /\ fm'[c] = r /\ \A b \in Vehicle \ {c} : fm'[b] = fm[b]
  BY <1>1 DEF AnswersTyped
<1>3. AnswersTyped' BY <1>2 DEF AnswersTyped
<1>4. ASSUME NEW b \in Vehicle PROVE Settled(fm[b], Jobs(b))'
  <2>1. CASE b = c BY <1>2, <2>1 DEF Settled
  <2>2. CASE b # c
    <3>1. fm'[b] = fm[b] /\ Jobs(b)' = Jobs(b) /\ Settled(fm[b], Jobs(b)) BY <1>1, <1>2, <2>2
    <3>2. QED BY <3>1 DEF Settled
  <2>3. QED BY <2>1, <2>2
<1>5. QED BY <1>3, <1>4 DEF AnswersInv

\* What is known of a track before a step.
LEMMA Before ==
  ASSUME AnswersInv, NEW c \in Vehicle
  PROVE  /\ fm \in [Vehicle -> Asked] /\ fm[c] \in Asked /\ fm[c].pending = Jobs(c)
         /\ fm[c].votes + fm[c].pending <= fm[c].sent
         /\ fm[c].at = "recent" /\ fm[c].pending > 0 => fm[c].hold > HoldFor
BY DEF AnswersInv, AnswersTyped, Settled

\* A step of the tick that queues nothing.
LEMMA OnlyTrack ==
  ASSUME AnswersInv, NEW c \in Vehicle, NEW r \in Asked, fm' = [fm EXCEPT ![c] = r],
         UNCHANGED <<available, fmQueue, working, fmCache>>,
         r.pending = fm[c].pending, r.votes + r.pending <= r.sent,
         r.at = "recent" /\ r.pending > 0 => r.hold > HoldFor
  PROVE  AnswersInv'
PROOF
<1>1. \A b \in Vehicle : Jobs(b)' = Jobs(b) BY DEF Jobs, QueuedOf
<1>2. AnswersTyped BY DEF AnswersInv
<1>3. QED BY <1>1, <1>2, Before, TrackChanges DEF AnswersTyped

LEMMA SeesInv == ASSUME AnswersInv, NEW c \in Vehicle, NEW s \in Spot, Sees(c, s) PROVE AnswersInv'
PROOF
<1> DEFINE a == fm[c]
<1>1. /\ fm \in [Vehicle -> Asked] /\ a \in Asked /\ a.pending = Jobs(c)
      /\ a.votes + a.pending <= a.sent
  BY Before
<1>2. /\ a = [at |-> a.at, sent |-> a.sent, pending |-> a.pending, votes |-> a.votes,
              paced |-> a.paced, hold |-> a.hold]
      /\ a.sent \in Nat /\ a.sent <= MaxCrops /\ a.pending \in Nat /\ a.votes \in Nat
      /\ a.paced \in BOOLEAN /\ a.hold \in Nat /\ a.hold <= HoldFor + 1
  BY <1>1, AskedFacts
<1>3. AnswersTyped /\ MaxCrops \in Nat /\ QueueMax \in Nat BY VehicleAssumption DEF AnswersInv
<1>4. a.sent < MaxCrops /\ UNCHANGED <<available, working, fmCache>> BY DEF Sees, RequestFm
<1>5. CASE /\ Recalled(c, s) /\ UNCHANGED fmQueue
           /\ fm' = [fm EXCEPT ![c].at = "here", ![c].votes = fmCache[s], ![c].sent = MaxCrops]
  <2> DEFINE v == fmCache[s]
             r == [at |-> "here", sent |-> MaxCrops, pending |-> a.pending, votes |-> v,
                   paced |-> a.paced, hold |-> a.hold]
  <2>1. v \in Nat /\ v <= MaxCrops BY <1>3 DEF AnswersTyped
  <2>2. a.pending = 0 BY <1>1, <1>2, <1>5 DEF Recalled
  <2>3. fm' = [fm EXCEPT ![c] = [[[a EXCEPT !.at = "here"] EXCEPT !.votes = v] EXCEPT !.sent = MaxCrops]]
    BY <1>1, <1>5
  <2> HIDE DEF a, v
  <2>4. [[[a EXCEPT !.at = "here"] EXCEPT !.votes = v] EXCEPT !.sent = MaxCrops] = r
    <3> DEFINE a1 == [a EXCEPT !.at = "here"]
               a2 == [a1 EXCEPT !.votes = v]
    <3>1. a1 = [at |-> "here", sent |-> a.sent, pending |-> a.pending, votes |-> a.votes,
                paced |-> a.paced, hold |-> a.hold]
      BY <1>2
    <3> HIDE DEF a1
    <3>2. a2 = [at |-> "here", sent |-> a.sent, pending |-> a.pending, votes |-> v,
                paced |-> a.paced, hold |-> a.hold]
      BY <3>1
    <3> HIDE DEF a2
    <3>3. [a2 EXCEPT !.sent = MaxCrops] = r BY <3>2
    <3>4. QED BY <3>3 DEF a2, a1
  <2>5. r \in Asked BY <1>2, <1>3, <2>1, <2>2, IsAsked
  <2>6. fm' = [fm EXCEPT ![c] = r] BY <2>3, <2>4
  <2>7. /\ r.pending = a.pending /\ r.votes + r.pending <= r.sent /\ r.at = "here"
    BY <1>2, <1>3, <2>1, <2>2
  <2> HIDE DEF r
  <2>8. QED BY <1>4, <1>5, <2>5, <2>6, <2>7, OnlyTrack DEF a
<1>6. CASE Queued(c, s)
  <2> DEFINE fits == Len(fmQueue) < QueueMax
             n == IF fits THEN a.pending + 1 ELSE a.pending
             yes == TRUE
             r == [at |-> "here", sent |-> a.sent + 1, pending |-> n, votes |-> a.votes,
                   paced |-> yes, hold |-> a.hold]
  <2>1. /\ fmQueue' = IF fits THEN Append(fmQueue, <<c, s>>) ELSE fmQueue
        /\ fm' = [fm EXCEPT ![c].at = "here", ![c].sent = @ + 1, ![c].paced = TRUE,
                            ![c].pending = IF fits THEN @ + 1 ELSE @]
    BY <1>6 DEF Queued
  <2>2. n \in Nat /\ n <= a.pending + 1 BY <1>2
  <2>3. fm' = [fm EXCEPT ![c] = [[[[a EXCEPT !.at = "here"] EXCEPT !.sent = a.sent + 1]
                                    EXCEPT !.paced = yes] EXCEPT !.pending = n]]
    BY <1>1, <2>1
  <2>4. <<c, s>> \in Job /\ fmQueue \in Seq(Job) /\ Len(fmQueue) <= QueueMax /\ Len(fmQueue) \in Nat
    BY <1>3 DEF AnswersTyped, Job
  <2>5. fmQueue' \in Seq(Job) /\ Len(fmQueue') <= QueueMax BY <1>3, <2>1, <2>4
  <2>6. ASSUME NEW b \in Vehicle PROVE Jobs(b)' = Jobs(b) + IF fits /\ b = c THEN 1 ELSE 0
    <3>1. Jobs(b) = Cardinality(OfTrack(fmQueue, b)) + InWork(working, b)
          /\ Jobs(b)' = Cardinality(OfTrack(fmQueue', b)) + InWork(working, b)
      BY <1>4, JobsFacts
    <3>2. Cardinality(OfTrack(fmQueue, b)) \in Nat /\ InWork(working, b) \in Nat
      BY <2>4, QueuedFinite DEF InWork
    <3>3. CASE fits
      <4>1. Cardinality(OfTrack(fmQueue', b)) = Cardinality(OfTrack(fmQueue, b)) + IF <<c, s>>[1] = b THEN 1 ELSE 0
        BY <2>1, <2>4, <3>3, QueuedMore
      <4>2. QED BY <3>1, <3>2, <3>3, <4>1
    <3>4. CASE ~fits BY <2>1, <3>1, <3>2, <3>4
    <3>5. QED BY <3>3, <3>4
  <2>7. Jobs(c) \in Nat /\ \A b \in Vehicle : Jobs(b) \in Nat BY <1>1, Before, AskedFacts
  <2> HIDE DEF fits
  <2>8. \A b \in Vehicle \ {c} : Jobs(b)' = Jobs(b) BY <2>6, <2>7
  <2>9. Jobs(c)' = n BY <1>1, <2>6, <2>7
  <2>10a. yes \in BOOLEAN OBVIOUS
  <2> HIDE DEF a, n, yes
  <2>10. [[[[a EXCEPT !.at = "here"] EXCEPT !.sent = a.sent + 1] EXCEPT !.paced = yes] EXCEPT !.pending = n] = r
    <3> DEFINE a1 == [a EXCEPT !.at = "here"]
               a2 == [a1 EXCEPT !.sent = a.sent + 1]
               a3 == [a2 EXCEPT !.paced = yes]
    <3>1. a1 = [at |-> "here", sent |-> a.sent, pending |-> a.pending, votes |-> a.votes,
                paced |-> a.paced, hold |-> a.hold]
      BY <1>2
    <3> HIDE DEF a1
    <3>2. a2 = [at |-> "here", sent |-> a.sent + 1, pending |-> a.pending, votes |-> a.votes,
                paced |-> a.paced, hold |-> a.hold]
      BY <3>1
    <3> HIDE DEF a2
    <3>3. a3 = [at |-> "here", sent |-> a.sent + 1, pending |-> a.pending, votes |-> a.votes,
                paced |-> yes, hold |-> a.hold]
      BY <3>2
    <3> HIDE DEF a3
    <3>4. [a3 EXCEPT !.pending = n] = r BY <3>3
    <3>5. QED BY <3>4 DEF a3, a2, a1
  <2>11. a.sent + 1 \in Nat /\ a.sent + 1 <= MaxCrops /\ a.votes + n <= a.sent + 1
    BY <1>1, <1>2, <1>3, <1>4, <2>2 DEF a
  <2>12. r \in Asked BY <1>2, <2>2, <2>10a, <2>11, IsAsked
  <2>13. fm' = [fm EXCEPT ![c] = r] BY <2>3, <2>10
  <2>14. r.pending = n /\ r.votes + r.pending <= r.sent /\ r.at = "here" BY <2>11
  <2> HIDE DEF r
  <2>15. QED BY <1>3, <1>4, <2>5, <2>8, <2>9, <2>12, <2>13, <2>14, TrackChanges DEF AnswersTyped
<1>7. QED BY <1>4, <1>5, <1>6 DEF Sees, RequestFm

\* The tick's other steps of a track: its place among the tracks, or its hold.
LEMMA TickInv ==
  ASSUME AnswersInv, NEW c \in Vehicle, SeesNoBetter(c) \/ FmHold(c) \/ Lost(c) \/ Forgets(c) PROVE AnswersInv'
PROOF
<1> DEFINE a == fm[c]
<1>1. /\ fm \in [Vehicle -> Asked] /\ a \in Asked /\ a.votes + a.pending <= a.sent
      /\ a.at = "recent" /\ a.pending > 0 => a.hold > HoldFor
  BY Before
<1>2. /\ a = [at |-> a.at, sent |-> a.sent, pending |-> a.pending, votes |-> a.votes,
              paced |-> a.paced, hold |-> a.hold]
      /\ a.sent \in Nat /\ a.sent <= MaxCrops /\ a.pending \in Nat /\ a.votes \in Nat
      /\ a.paced \in BOOLEAN /\ a.hold \in Nat /\ a.hold <= HoldFor + 1
  BY <1>1, AskedFacts
<1>3. HoldFor \in Nat \ {0} BY VehicleAssumption
<1>4. UNCHANGED <<available, fmQueue, working, fmCache>> BY DEF SeesNoBetter, FmHold, Lost, Forgets
<1>5. ASSUME NEW at \in {"here", "recent", "gone"}, NEW paced \in BOOLEAN, NEW hold \in Nat, hold <= HoldFor + 1,
             fm' = [fm EXCEPT ![c] = [at |-> at, sent |-> a.sent, pending |-> a.pending,
                                      votes |-> a.votes, paced |-> paced, hold |-> hold]],
             at = "recent" /\ a.pending > 0 => hold > HoldFor
      PROVE  AnswersInv'
  <2> DEFINE r == [at |-> at, sent |-> a.sent, pending |-> a.pending, votes |-> a.votes,
                   paced |-> paced, hold |-> hold]
  <2> HIDE DEF a
  <2>1. r \in Asked BY <1>1, <1>2, <1>5, IsAsked
  <2>2. fm' = [fm EXCEPT ![c] = r] BY <1>5
  <2>3. r.pending = a.pending /\ r.votes = a.votes /\ r.sent = a.sent /\ r.at = at /\ r.hold = hold OBVIOUS
  <2> HIDE DEF r
  <2>4. r.votes + r.pending <= r.sent /\ (r.at = "recent" /\ r.pending > 0 => r.hold > HoldFor)
    BY <1>1, <1>5, <2>3
  <2>5. QED BY <1>4, <2>1, <2>2, <2>3, <2>4, OnlyTrack DEF a
<1>6. CASE SeesNoBetter(c)
  <2>1. fm' = [fm EXCEPT ![c] = [a EXCEPT !.at = "here"]] BY <1>6 DEF SeesNoBetter
  <2> HIDE DEF a
  <2>2. [a EXCEPT !.at = "here"] = [at |-> "here", sent |-> a.sent, pending |-> a.pending,
                                    votes |-> a.votes, paced |-> a.paced, hold |-> a.hold]
    BY <1>2
  <2>3. QED BY <1>2, <1>5, <2>1, <2>2
<1>7. CASE FmHold(c)
  <2>1. fm' = [fm EXCEPT ![c] = [a EXCEPT !.hold = 1]] /\ a.at = "here" BY <1>7 DEF FmHold
  <2> HIDE DEF a
  <2>2. [a EXCEPT !.hold = 1] = [at |-> "here", sent |-> a.sent, pending |-> a.pending,
                                 votes |-> a.votes, paced |-> a.paced, hold |-> 1]
    BY <1>2, <2>1
  <2>3. 1 \in Nat /\ 1 <= HoldFor + 1 BY <1>3
  <2>4. QED BY <1>2, <1>5, <2>1, <2>2, <2>3
<1>8. CASE Lost(c)
  <2>1. fm' = [fm EXCEPT ![c] = [a EXCEPT !.at = "recent"]] /\ (a.pending > 0 => a.hold > HoldFor)
    BY <1>2, <1>3, <1>8 DEF Lost, OnHold
  <2> HIDE DEF a
  <2>2. [a EXCEPT !.at = "recent"] = [at |-> "recent", sent |-> a.sent, pending |-> a.pending,
                                      votes |-> a.votes, paced |-> a.paced, hold |-> a.hold]
    BY <1>2
  <2>3. QED BY <1>2, <1>5, <2>1, <2>2
<1>9. CASE Forgets(c)
  <2> DEFINE a1 == [a EXCEPT !.at = "gone"]
             no == FALSE
             a2 == [a1 EXCEPT !.paced = no]
  <2>1. fm' = [fm EXCEPT ![c] = [a2 EXCEPT !.hold = 0]] BY <1>1, <1>9 DEF Forgets
  <2>1a. no \in BOOLEAN OBVIOUS
  <2> HIDE DEF a, no
  <2>2. a1 = [at |-> "gone", sent |-> a.sent, pending |-> a.pending, votes |-> a.votes,
              paced |-> a.paced, hold |-> a.hold]
    BY <1>2
  <2> HIDE DEF a1
  <2>3. a2 = [at |-> "gone", sent |-> a.sent, pending |-> a.pending, votes |-> a.votes,
              paced |-> no, hold |-> a.hold]
    BY <2>2
  <2> HIDE DEF a2
  <2>4. [a2 EXCEPT !.hold = 0] = [at |-> "gone", sent |-> a.sent, pending |-> a.pending,
                                  votes |-> a.votes, paced |-> no, hold |-> 0]
    BY <2>3
  <2>5. 0 \in Nat /\ 0 <= HoldFor + 1 BY <1>3
  <2>6. QED BY <1>5, <2>1, <2>1a, <2>4, <2>5
<1>10. QED BY <1>6, <1>7, <1>8, <1>9

LEMMA ClockInv == ASSUME AnswersInv, Clock PROVE AnswersInv'
PROOF
<1> DEFINE r(c) == [fm[c] EXCEPT !.paced = FALSE, !.hold = IF @ \in 1..HoldFor THEN @ + 1 ELSE @]
<1>1. fm' = [c \in Vehicle |-> r(c)] /\ UNCHANGED <<available, fmQueue, working, fmCache>> BY DEF Clock
<1>2. \A c \in Vehicle : Jobs(c)' = Jobs(c) BY <1>1 DEF Jobs, QueuedOf
<1>3. ASSUME NEW c \in Vehicle PROVE r(c) \in Asked /\ Settled(r(c), Jobs(c))
  <2> DEFINE a == fm[c]
             h == IF a.hold \in 1..HoldFor THEN a.hold + 1 ELSE a.hold
             no == FALSE
             b == [a EXCEPT !.paced = no]
             n == [at |-> a.at, sent |-> a.sent, pending |-> a.pending, votes |-> a.votes,
                   paced |-> no, hold |-> h]
  <2>1. /\ a \in Asked /\ a.pending = Jobs(c) /\ a.votes + a.pending <= a.sent
        /\ a.at = "recent" /\ a.pending > 0 => a.hold > HoldFor
    BY Before
  <2>2. /\ a = [at |-> a.at, sent |-> a.sent, pending |-> a.pending, votes |-> a.votes,
                paced |-> a.paced, hold |-> a.hold]
        /\ a.at \in {"new", "here", "recent", "gone"}
        /\ a.sent \in Nat /\ a.sent <= MaxCrops /\ a.pending \in Nat /\ a.votes \in Nat
        /\ a.hold \in Nat /\ a.hold <= HoldFor + 1
    BY <2>1, AskedFacts
  <2>3. HoldFor \in Nat BY VehicleAssumption
  <2>4. h \in Nat /\ h <= HoldFor + 1 /\ h >= a.hold BY <2>2, <2>3
  <2>5. r(c) = [b EXCEPT !.hold = h] BY <2>2
  <2>5a. no \in BOOLEAN OBVIOUS
  <2> HIDE DEF a, h, no
  <2>6. b = [at |-> a.at, sent |-> a.sent, pending |-> a.pending, votes |-> a.votes,
             paced |-> no, hold |-> a.hold]
    BY <2>2
  <2> HIDE DEF b
  <2>7. [b EXCEPT !.hold = h] = n BY <2>6
  <2>8. n \in Asked BY <2>1, <2>2, <2>4, <2>5a, IsAsked
  <2>9. n.pending = a.pending /\ n.votes = a.votes /\ n.sent = a.sent /\ n.at = a.at /\ n.hold = h OBVIOUS
  <2> HIDE DEF n, r
  <2>10. Settled(n, Jobs(c)) BY <2>1, <2>2, <2>3, <2>4, <2>9 DEF Settled
  <2>11. QED BY <2>5, <2>7, <2>8, <2>10
<1> HIDE DEF r
<1>4. fm' \in [Vehicle -> Asked] /\ \A c \in Vehicle : fm'[c] = r(c) BY <1>1, <1>3
<1>5. AnswersTyped' BY <1>1, <1>4 DEF AnswersInv, AnswersTyped
<1>6. \A c \in Vehicle : Settled(fm[c], Jobs(c))' BY <1>2, <1>3, <1>4 DEF Settled
<1>7. QED BY <1>5, <1>6 DEF AnswersInv

LEMMA FmWorkerInv == ASSUME AnswersInv, FmWorker PROVE AnswersInv'
PROOF
<1>1. /\ working = <<>> /\ fmQueue # <<>> /\ working' = Head(fmQueue) /\ fmQueue' = Tail(fmQueue)
      /\ UNCHANGED <<available, fm, fmCache>>
  BY DEF FmWorker
<1>2. AnswersTyped /\ \A c \in Vehicle : Settled(fm[c], Jobs(c)) BY DEF AnswersInv
<1>3. fmQueue \in Seq(Job) /\ Len(fmQueue) <= QueueMax /\ QueueMax \in Nat BY <1>2, VehicleAssumption DEF AnswersTyped
<1>4. Head(fmQueue) \in Job /\ Tail(fmQueue) \in Seq(Job) /\ Len(Tail(fmQueue)) <= QueueMax BY <1>1, <1>3
<1>5. ASSUME NEW c \in Vehicle PROVE Jobs(c)' = Jobs(c)
  <2>1. Head(fmQueue) # <<>>
    <3>1. PICK b \in Vehicle, s \in Spot : Head(fmQueue) = <<b, s>> BY <1>4 DEF Job
    <3>2. QED BY <3>1
  <2>2. InWork(working, c) = 0 /\ InWork(working', c) = IF Head(fmQueue)[1] = c THEN 1 ELSE 0
    BY <1>1, <2>1 DEF InWork
  <2>3. /\ Jobs(c) = Cardinality(OfTrack(fmQueue, c)) + InWork(working, c)
        /\ Jobs(c)' = Cardinality(OfTrack(fmQueue', c)) + InWork(working', c)
    BY JobsFacts
  <2>4. Cardinality(OfTrack(fmQueue, c)) =
          Cardinality(OfTrack(fmQueue', c)) + IF Head(fmQueue)[1] = c THEN 1 ELSE 0
    BY <1>1, <1>3, QueuedLess
  <2>5. Cardinality(OfTrack(fmQueue, c)) \in Nat BY <1>3, QueuedFinite
  <2>6. QED BY <2>2, <2>3, <2>4, <2>5
<1>6. AnswersTyped' BY <1>1, <1>2, <1>4 DEF AnswersTyped
<1>7. QED BY <1>1, <1>2, <1>5, <1>6 DEF AnswersInv, Settled

LEMMA FmJobInv == ASSUME AnswersInv, FmJob PROVE AnswersInv'
PROOF
<1>1. AnswersTyped /\ working # <<>> /\ working' = <<>> /\ UNCHANGED fmQueue BY DEF AnswersInv, FmJob
<1>2. PICK c \in Vehicle, s \in Spot : working = <<c, s>> BY <1>1 DEF AnswersTyped, Job
<1> DEFINE a == fm[c]
<1>3. /\ fm \in [Vehicle -> Asked] /\ a \in Asked /\ a.pending = Jobs(c) /\ a.votes + a.pending <= a.sent
      /\ a.at = "recent" /\ a.pending > 0 => a.hold > HoldFor
  BY <1>2, Before
<1>4. /\ a = [at |-> a.at, sent |-> a.sent, pending |-> a.pending, votes |-> a.votes,
              paced |-> a.paced, hold |-> a.hold]
      /\ a.at \in {"new", "here", "recent", "gone"} /\ a.paced \in BOOLEAN
      /\ a.sent \in Nat /\ a.sent <= MaxCrops /\ a.pending \in Nat /\ a.votes \in Nat
      /\ a.hold \in Nat /\ a.hold <= HoldFor + 1
  BY <1>3, AskedFacts
<1>5. ASSUME NEW b \in Vehicle PROVE Jobs(b) = Jobs(b)' + (IF b = c THEN 1 ELSE 0) /\ Jobs(b)' \in Nat
  <2>1. fmQueue \in Seq(Job) BY <1>1 DEF AnswersTyped
  <2>2. Cardinality(OfTrack(fmQueue, b)) \in Nat BY <2>1, QueuedFinite
  <2>3. /\ Jobs(b) = Cardinality(OfTrack(fmQueue, b)) + InWork(working, b)
        /\ Jobs(b)' = Cardinality(OfTrack(fmQueue, b)) + InWork(working', b)
    BY <1>1, JobsFacts
  <2>4. InWork(working, b) = (IF b = c THEN 1 ELSE 0) /\ InWork(working', b) = 0 BY <1>1, <1>2 DEF InWork
  <2>5. QED BY <2>2, <2>3, <2>4
<1> DEFINE left == Jobs(c)'
<1>6. a.pending = left + 1 /\ left \in Nat BY <1>2, <1>3, <1>5
<1>7. \A b \in Vehicle \ {c} : Jobs(b)' = Jobs(b)
  <2>1. SUFFICES ASSUME NEW b \in Vehicle \ {c} PROVE Jobs(b)' = Jobs(b) OBVIOUS
  <2>2. Jobs(b) = Jobs(b)' + 0 /\ Jobs(b)' \in Nat BY <1>5, <2>1
  <2>3. QED BY <2>2
<1>8. PICK v \in {a.votes, a.votes + 1} :
        /\ fm' = [fm EXCEPT ![c].pending = IF @ = 0 THEN 0 ELSE @ - 1, ![c].votes = v]
        /\ available' \in {available, FALSE}
        /\ fmCache' = fmCache \/ fmCache' = [fmCache EXCEPT ![s] = a.votes + 1]
  <2>1. CASE /\ fm' = [fm EXCEPT ![c].pending = IF @ = 0 THEN 0 ELSE @ - 1, ![c].votes = @ + 1]
             /\ fmCache' = [fmCache EXCEPT ![s] = fm[c].votes + 1]
             /\ UNCHANGED available
    <3>1. fm' = [fm EXCEPT ![c].pending = IF @ = 0 THEN 0 ELSE @ - 1, ![c].votes = a.votes + 1]
      BY <1>2, <1>3, <2>1
    <3>2. QED BY <2>1, <3>1
  <2>2. CASE /\ fm' = [fm EXCEPT ![c].pending = IF @ = 0 THEN 0 ELSE @ - 1]
             /\ available' \in {available, FALSE} /\ UNCHANGED fmCache
    <3>1. fm' = [fm EXCEPT ![c].pending = IF @ = 0 THEN 0 ELSE @ - 1, ![c].votes = a.votes]
      BY <1>2, <1>3, <1>4, <2>2
    <3>2. QED BY <2>2, <3>1
  <2>3. QED BY <1>2, <2>1, <2>2 DEF FmJob
<1> DEFINE b == [a EXCEPT !.pending = left]
           r == [at |-> a.at, sent |-> a.sent, pending |-> left, votes |-> v,
                 paced |-> a.paced, hold |-> a.hold]
<1>9. fm' = [fm EXCEPT ![c] = [b EXCEPT !.votes = v]]
  <2>1. (IF a.pending = 0 THEN 0 ELSE a.pending - 1) = left BY <1>6
  <2>2. QED BY <1>2, <1>3, <1>8, <2>1
<1>10. v \in Nat /\ v + left <= a.sent /\ a.votes + 1 \in 0..MaxCrops
  BY <1>3, <1>4, <1>6, <1>8, VehicleAssumption
<1>11. available' \in BOOLEAN /\ fmQueue' \in Seq(Job) /\ Len(fmQueue') <= QueueMax
       /\ fmCache' \in [Spot -> 0..MaxCrops]
  <2>1. fmCache' \in [Spot -> 0..MaxCrops] BY <1>1, <1>2, <1>8, <1>10 DEF AnswersTyped
  <2>2. QED BY <1>1, <1>8, <2>1 DEF AnswersTyped
<1> HIDE DEF left, a
<1>12. b = [at |-> a.at, sent |-> a.sent, pending |-> left, votes |-> a.votes,
            paced |-> a.paced, hold |-> a.hold]
  BY <1>4
<1> HIDE DEF b
<1>13. [b EXCEPT !.votes = v] = r BY <1>12
<1>14. r \in Asked BY <1>4, <1>6, <1>10, IsAsked
<1>15. r.pending = left /\ r.votes = v /\ r.sent = a.sent /\ r.at = a.at /\ r.hold = a.hold OBVIOUS
<1> HIDE DEF r
<1>16. fm' = [fm EXCEPT ![c] = r] BY <1>9, <1>13
<1>17. r.votes + r.pending <= r.sent /\ (r.at = "recent" /\ r.pending > 0 => r.hold > HoldFor)
  BY <1>3, <1>6, <1>10, <1>15
<1>18. r.pending = Jobs(c)' BY <1>15 DEF left
<1>19. QED BY <1>1, <1>2, <1>7, <1>11, <1>14, <1>16, <1>17, <1>18, TrackChanges

LEMMA AnswersInitInv == AnswersInit => AnswersInv
PROOF
<1> SUFFICES ASSUME AnswersInit PROVE AnswersInv OBVIOUS
<1>1. MaxCrops \in Nat /\ QueueMax \in Nat /\ HoldFor \in Nat BY VehicleAssumption
<1>2. Unasked \in Asked /\ Unasked.pending = 0 /\ Unasked.votes = 0 /\ Unasked.sent = 0
  BY <1>1 DEF Unasked, Asked
<1>3. AnswersTyped BY <1>1, <1>2 DEF AnswersInit, AnswersTyped
<1>4. ASSUME NEW c \in Vehicle PROVE Settled(fm[c], Jobs(c))
  <2>1. fm[c] = Unasked /\ fmQueue = <<>> /\ working = <<>> BY DEF AnswersInit
  <2>2. QueuedOf(c) = {} BY <2>1 DEF QueuedOf
  <2>3. Jobs(c) = 0 BY <2>1, <2>2, FS_EmptySet DEF Jobs
  <2>4. QED BY <1>2, <2>1, <2>3 DEF Settled
<1>5. QED BY <1>3, <1>4 DEF AnswersInv

LEMMA AnswersStepInv == AnswersInv /\ [AnswersNext]_answersVars => AnswersInv'
PROOF
<1> SUFFICES ASSUME AnswersInv, [AnswersNext]_answersVars PROVE AnswersInv' OBVIOUS
<1>1. ASSUME NEW c \in Vehicle, SeesNoBetter(c) \/ FmHold(c) \/ Lost(c) \/ Forgets(c) PROVE AnswersInv'
  BY <1>1, TickInv
<1>2. ASSUME NEW c \in Vehicle, NEW s \in Spot, Sees(c, s) PROVE AnswersInv' BY <1>2, SeesInv
<1>3. CASE Clock BY <1>3, ClockInv
<1>4. CASE FmWorker BY <1>4, FmWorkerInv
<1>5. CASE FmJob BY <1>5, FmJobInv
<1>6. ASSUME UNCHANGED <<available, fm, fmQueue, working>>, fmCache' \in [Spot -> 0..MaxCrops] PROVE AnswersInv'
  <2>1. \A c \in Vehicle : Jobs(c)' = Jobs(c) BY <1>6 DEF Jobs, QueuedOf
  <2>2. QED BY <1>6, <2>1 DEF AnswersInv, AnswersTyped, Settled
<1>7. CASE FmAges
  <2>1. 0 \in 0..MaxCrops BY VehicleAssumption
  <2>2. fmCache' \in [Spot -> 0..MaxCrops] BY <1>7, <2>1 DEF FmAges, AnswersInv, AnswersTyped
  <2>3. QED BY <1>6, <1>7, <2>2 DEF FmAges
<1>8. CASE UNCHANGED answersVars BY <1>6, <1>8 DEF answersVars, AnswersInv, AnswersTyped
<1>9. QED BY <1>1, <1>2, <1>3, <1>4, <1>5, <1>7, <1>8 DEF AnswersNext

LEMMA AnswersAlways == AnswersSpec => []AnswersInv
PROOF BY AnswersInitInv, AnswersStepInv, PTL DEF AnswersSpec

\* Every variable of the questions to the slow model keeps its type.
THEOREM AnswersTypeCorrect == AnswersSpec => []AnswersTypeOK
PROOF
<1>1. AnswersInv => AnswersTypeOK
  <2> SUFFICES ASSUME AnswersInv PROVE AnswersTypeOK OBVIOUS
  <2>1. Range(fmQueue) \subseteq Vehicle \X Spot
    BY DEF AnswersInv, AnswersTyped, Range, Job
  <2>2. QED BY <2>1 DEF AnswersInv, AnswersTyped, AnswersTypeOK, Job, Asked
<1>2. QED BY <1>1, AnswersAlways, PTL

\* What a track waits for is really on its way, a dropped or failed job is counted on by nobody,
\* and a track closed with an answer on its way has waited: for any number of tracks and places,
\* any size of the queue and any number of crops.
THEOREM AnswersCome == AnswersSpec => []AnswersAreAwaited
PROOF
<1>1. AnswersInv => AnswersAreAwaited
  BY DEF AnswersInv, Settled, AnswersAreAwaited, OwedIsAsked, ClosedAfterWaiting
<1>2. QED BY <1>1, AnswersAlways, PTL

-----------------------------------------------------------------------------
(***************************************************************************)
(* Parked vehicles: at most one look in a row is kept that found the spot  *)
(* changed, and it is the last; so a second ends the parking with both.    *)
(***************************************************************************)

Anchor == [changed : 0..1, looks : Seq(Sights), old : BOOLEAN]

ParkingTyped ==
  /\ vehicle \in {"here", "recent"} /\ parked \in BOOLEAN /\ former \in BOOLEAN /\ unchanged \in BOOLEAN
  /\ stillTicks \in 0..(StillTicks - 1) /\ movedTicks \in 0..(ResumeTicks - 1)
  /\ pixel \in Anchor \cup {NoAnchor}

\* A changed look counts as one only until the next: it was the last, and by itself, not by a drift
\* (which would have ended the parking).
Wavering(px) ==
  /\ Len(px.looks) <= 5
  /\ px.changed = 1 => px.looks # <<>> /\ Different(px.looks[Len(px.looks)])

ParkingInv == ParkingTyped /\ Wavering(pixel) /\ RejoinsOnEvidence

LEMMA AnchorFacts ==
  /\ NoAnchor \notin Anchor /\ NewAnchor \in Anchor /\ NoAnchor.changed = -1
  /\ Wavering(NoAnchor) /\ Wavering(NewAnchor)
  /\ \A px \in Anchor : px.changed \in {0, 1}
PROOF
<1>1. NoAnchor.changed = -1 /\ \A px \in Anchor : px.changed \in {0, 1} BY DEF NoAnchor, Anchor
<1>2. NewAnchor \in Anchor BY DEF NewAnchor, Anchor
<1>3. Wavering(NoAnchor) /\ Wavering(NewAnchor) BY DEF NoAnchor, NewAnchor, Wavering
<1>4. QED BY <1>1, <1>2, <1>3

\* The last looks kept end with this one, and before it is the one that was last.
LEMMA LooksKept ==
  ASSUME NEW looks \in Seq(Sights), Len(looks) <= 5, NEW look \in Sights
  PROVE  LET kept == LastFive(Append(looks, look)) n == Len(kept) IN
         /\ kept \in Seq(Sights) /\ n \in 1..5 /\ kept[n] = look
         /\ looks # <<>> => n > 1 /\ kept[n - 1] = looks[Len(looks)]
PROOF
<1> DEFINE all == Append(looks, look)
<1>0. Len(looks) \in Nat /\ Len(all) = Len(looks) + 1 OBVIOUS
<1>1. all \in Seq(Sights) /\ all[Len(looks) + 1] = look /\ \A i \in 1..Len(looks) : all[i] = looks[i]
  OBVIOUS
<1>2. looks # <<>> => Len(looks) >= 1 OBVIOUS
<1> HIDE DEF all
<1>3. CASE Len(all) > 5
  <2> DEFINE m == Len(looks) l == Len(all)
  <2>0. m \in Nat /\ m <= 5 /\ l = m + 1 /\ l > 5 BY <1>0, <1>3
  <2> HIDE DEF m, l
  <2>1a. m = 5 /\ l = 6 BY <2>0
  <2>1. Len(looks) = 5 /\ Len(all) = 6 BY <2>1a DEF m, l
  <2>2. all # <<>> BY <2>1
  <2>3. Tail(all) \in Seq(Sights) /\ Len(Tail(all)) = Len(all) - 1
        /\ \A i \in 1..Len(Tail(all)) : Tail(all)[i] = all[i + 1]
    BY <1>1, <2>2, HeadTailProperties
  <2>4. LastFive(all) = Tail(all) BY <1>3 DEF LastFive
  <2>5. QED BY <1>1, <2>1, <2>3, <2>4 DEF all
<1>4. CASE ~(Len(all) > 5)
  <2>1. LastFive(all) = all BY <1>4 DEF LastFive
  <2>2. Len(all) \in 1..5 BY <1>0, <1>4
  <2>3. QED BY <1>0, <1>1, <1>2, <2>1, <2>2 DEF all
<1>5. QED BY <1>3, <1>4

\* A look at an anchor: either the vehicle stays, with a record of the look, or there is evidence.
LEMMA Looked ==
  ASSUME NEW px \in Anchor, Wavering(px), NEW look \in Sights
  PROVE  LET after == AfterLook(px, look) n == Len(after.looks) IN
         /\ StillThere(after) => after \in Anchor /\ Wavering(after)
         /\ ~StillThere(after) =>
              /\ ~Keeps(after.looks[n]) /\ after.looks[n] = look
              /\ \/ Drift(after.looks) >= 12
                 \/ n > 1 /\ Different(after.looks[n]) /\ Different(after.looks[n - 1])
PROOF
<1> DEFINE looks == LastFive(Append(px.looks, look))
           n == Len(looks)
           changed == IF ~Keeps(look) /\ LooksChanged(look, Drift(looks)) THEN px.changed + 1 ELSE 0
<1>1. /\ px = [changed |-> px.changed, looks |-> px.looks, old |-> px.old]
      /\ px.changed \in {0, 1} /\ px.looks \in Seq(Sights) /\ px.old \in BOOLEAN
      /\ Len(px.looks) <= 5 /\ (px.changed = 1 => px.looks # <<>> /\ Different(px.looks[Len(px.looks)]))
  BY DEF Anchor, Wavering
<1>2. /\ looks \in Seq(Sights) /\ n \in 1..5 /\ looks[n] = look
      /\ px.looks # <<>> => n > 1 /\ looks[n - 1] = px.looks[Len(px.looks)]
  BY <1>1, LooksKept
<1>3. AfterLook(px, look) = [changed |-> changed, looks |-> looks, old |-> px.old]
  <2>1. AfterLook(px, look) = [px EXCEPT !.looks = looks, !.changed = changed] BY DEF AfterLook
  <2> HIDE DEF looks, changed
  <2> DEFINE looked == [px EXCEPT !.looks = looks]
  <2>2. [px EXCEPT !.looks = looks, !.changed = changed] = [looked EXCEPT !.changed = changed]
    BY <1>1
  <2>3. looked = [changed |-> px.changed, looks |-> looks, old |-> px.old] BY <1>1
  <2> HIDE DEF looked
  <2>4. [looked EXCEPT !.changed = changed] = [changed |-> changed, looks |-> looks, old |-> px.old]
    BY <2>3
  <2>5. QED BY <2>1, <2>2, <2>4
<1> DEFINE drifts == Drift(looks) >= 12
<1>4. LooksChanged(look, Drift(looks)) <=> Different(look) \/ drifts BY DEF LooksChanged, Different
<1>5. changed \in {0, 1, 2} /\ (changed # 0 => ~Keeps(look) /\ (Different(look) \/ drifts) /\ changed = px.changed + 1)
  BY <1>1, <1>4
<1> HIDE DEF looks, changed, n
<1>6. StillThere(AfterLook(px, look)) <=> (changed = 0 \/ ~(changed >= 2 \/ drifts))
  BY <1>3 DEF StillThere
<1>7. StillThere(AfterLook(px, look)) => AfterLook(px, look) \in Anchor /\ Wavering(AfterLook(px, look))
  <2> SUFFICES ASSUME changed = 0 \/ ~(changed >= 2 \/ drifts)
               PROVE  AfterLook(px, look) \in Anchor /\ Wavering(AfterLook(px, look))
    BY <1>6
  <2>1. changed \in {0, 1} BY <1>5
  <2>2. changed = 1 => Different(look) BY <1>5
  <2>3. looks # <<>> BY <1>2 DEF n
  <2>4. AfterLook(px, look) \in Anchor BY <1>1, <1>2, <1>3, <2>1 DEF Anchor
  <2>5. Wavering(AfterLook(px, look)) BY <1>2, <1>3, <2>2, <2>3 DEF Wavering, n
  <2>6. QED BY <2>4, <2>5
<1>8. ~StillThere(AfterLook(px, look)) =>
        ~Keeps(look) /\ (drifts \/ (n > 1 /\ Different(looks[n]) /\ Different(looks[n - 1])))
  <2> SUFFICES ASSUME changed # 0, changed >= 2 \/ drifts
               PROVE  ~Keeps(look) /\ (drifts \/ (n > 1 /\ Different(looks[n]) /\ Different(looks[n - 1])))
    BY <1>6
  <2>1. ~drifts => changed = 2 /\ px.changed = 1 BY <1>1, <1>5
  <2>2. ~drifts => n > 1 /\ Different(looks[n]) /\ Different(looks[n - 1]) BY <1>1, <1>2, <1>5, <2>1
  <2>3. ~Keeps(look) BY <1>5
  <2>4. drifts \/ ~drifts OBVIOUS
  <2> HIDE DEF drifts
  <2>5. QED BY <2>2, <2>3, <2>4
<1>9. QED BY <1>2, <1>3, <1>7, <1>8 DEF n, looks

LEMMA AnchoredKeeps ==
  ASSUME NEW px \in Anchor \cup {NoAnchor}, Wavering(px), NEW frame \in BOOLEAN
  PROVE  Anchored(px, frame) \in Anchor \cup {NoAnchor} /\ Wavering(Anchored(px, frame))
BY AnchorFacts DEF Anchored

LEMMA TickFacts == 0 \in 0..(StillTicks - 1) /\ 0 \in 0..(ResumeTicks - 1)
BY ParkingAssumption

LEMMA NotYetFacts == NotYet.how = ""
BY DEF NotYet

LEMMA ParkInv ==
  ASSUME ParkingInv, NEW frame \in BOOLEAN, Parks(frame), rejoined' = NotYet, vehicle' \in {"here", "recent"}
  PROVE  ParkingInv'
PROOF
<1> USE DEF ParkingInv
<1>1. parked' = TRUE /\ movedTicks' = 0 /\ stillTicks' = 0 /\ pixel' = Anchored(pixel, frame)
      /\ former' \in BOOLEAN /\ unchanged' = TRUE
  BY DEF Parks
<1>2. pixel' \in Anchor \cup {NoAnchor} /\ Wavering(pixel)' BY <1>1, AnchoredKeeps DEF ParkingTyped, Wavering
<1>3. 0 \in 0..(StillTicks - 1) /\ 0 \in 0..(ResumeTicks - 1) BY TickFacts
<1>4. ParkingTyped' BY <1>1, <1>2, <1>3 DEF ParkingTyped
<1>5. RejoinsOnEvidence' BY NotYetFacts DEF RejoinsOnEvidence
<1>6. QED BY <1>2, <1>4, <1>5

\* A step after which the track is not parked by the spot's looks, or that leaves the anchor.
LEMMA RejoinInv ==
  ASSUME ParkingInv, NEW how, NEW looks, Rejoin(how, looks), vehicle' = vehicle,
         \/ how \in {"no anchor", "no frame", "dropped"}
         \/ how = "compared" /\ LET n == Len(looks) IN
              /\ ~unchanged \/ former
              /\ ~Keeps(looks[n])
              /\ \/ Drift(looks) >= 12
                 \/ n > 1 /\ Different(looks[n]) /\ Different(looks[n - 1])
  PROVE  ParkingInv'
PROOF
<1> USE DEF ParkingInv
<1>1. /\ parked' = FALSE /\ movedTicks' = 0 /\ stillTicks' = 0
      /\ pixel' = NoAnchor /\ former' = FALSE /\ unchanged' = FALSE
      /\ rejoined' = [how |-> how, looks |-> looks, unchanged |-> unchanged, former |-> former]
  BY DEF Rejoin
<1>2. 0 \in 0..(StillTicks - 1) /\ 0 \in 0..(ResumeTicks - 1) BY TickFacts
<1>3. ParkingTyped' BY <1>1, <1>2 DEF ParkingTyped
<1>4. Wavering(pixel)' BY <1>1, AnchorFacts DEF Wavering
<1>5. /\ rejoined'.how = how /\ rejoined'.looks = looks
      /\ rejoined'.unchanged = unchanged /\ rejoined'.former = former
  BY <1>1
<1>6. RejoinsOnEvidence' BY <1>5 DEF RejoinsOnEvidence
<1>7. QED BY <1>3, <1>4, <1>6

LEMMA MatchedInv == ASSUME ParkingInv, NEW box \in Box, NEW frame \in BOOLEAN, Matched(box, frame) PROVE ParkingInv'
PROOF
<1> USE DEF ParkingInv
<1> DEFINE px == AnchorNow(box)
<1>1. px \in {NoAnchor, pixel} /\ vehicle' = vehicle BY DEF AnchorNow, Matched
<1>2. px \in Anchor \cup {NoAnchor} /\ Wavering(px) BY <1>1, AnchorFacts DEF ParkingTyped
<1>3. CASE ~MovedSince(box)
  <2>1. /\ movedTicks' = MovedTicks(box) /\ pixel' = Anchored(px, frame)
        /\ former' = (former /\ px # NoAnchor) /\ rejoined' = NotYet
        /\ UNCHANGED <<parked, stillTicks, unchanged>>
    BY <1>3 DEF Matched
  <2>2. pixel' \in Anchor \cup {NoAnchor} /\ Wavering(pixel)' BY <1>2, <2>1, AnchoredKeeps DEF Wavering
  <2>3. movedTicks' \in 0..(ResumeTicks - 1)
    BY <1>3, <2>1, ParkingAssumption DEF MovedSince, MovedTicks, ParkingTyped
  <2>4. ParkingTyped' BY <1>1, <2>1, <2>2, <2>3 DEF ParkingTyped
  <2>5. RejoinsOnEvidence' BY <2>1, NotYetFacts DEF RejoinsOnEvidence
  <2>6. QED BY <2>2, <2>4, <2>5
<1>4. CASE MovedSince(box) /\ px = NoAnchor
  <2>1. Rejoin(IF pixel = NoAnchor THEN "no anchor" ELSE "dropped", <<>>) BY <1>4 DEF Matched
  <2>2. QED BY <1>1, <2>1, RejoinInv
<1>5. CASE MovedSince(box) /\ px # NoAnchor /\ ~frame
  <2>1. Rejoin("no frame", <<>>) BY <1>5 DEF Matched
  <2>2. QED BY <1>1, <2>1, RejoinInv
<1>6. CASE MovedSince(box) /\ px # NoAnchor /\ frame
  <2>1. PICK look \in IF unchanged /\ ~former THEN {Same} ELSE Sights :
          LET after == AfterLook(px, look) IN
          IF StillThere(after)
          THEN /\ movedTicks' = 0 /\ pixel' = after /\ rejoined' = NotYet
               /\ UNCHANGED <<parked, stillTicks, former, unchanged>>
          ELSE Rejoin("compared", after.looks)
    BY <1>6 DEF Matched
  <2>2. px \in Anchor /\ look \in Sights /\ (unchanged /\ ~former => look = Same)
    BY <1>2, <1>6, <2>1, SightsAssumption
  <2> HIDE DEF px
  <2> DEFINE after == AfterLook(px, look)
  <2>3. /\ StillThere(after) => after \in Anchor /\ Wavering(after)
        /\ ~StillThere(after) =>
             /\ ~Keeps(after.looks[Len(after.looks)]) /\ after.looks[Len(after.looks)] = look
             /\ \/ Drift(after.looks) >= 12
                \/ /\ Len(after.looks) > 1 /\ Different(after.looks[Len(after.looks)])
                   /\ Different(after.looks[Len(after.looks) - 1])
    BY <1>2, <2>2, Looked
  <2> HIDE DEF after
  <2>4. CASE StillThere(after)
    <3>1. /\ movedTicks' = 0 /\ pixel' = after /\ rejoined' = NotYet
          /\ UNCHANGED <<parked, stillTicks, former, unchanged>>
      BY <2>1, <2>4 DEF after
    <3>2. 0 \in 0..(ResumeTicks - 1) BY ParkingAssumption
    <3>3. ParkingTyped' BY <1>1, <2>3, <2>4, <3>1, <3>2 DEF ParkingTyped
    <3>4. Wavering(pixel)' BY <2>3, <2>4, <3>1 DEF Wavering
    <3>5. RejoinsOnEvidence' BY <3>1, NotYetFacts DEF RejoinsOnEvidence
    <3>6. QED BY <3>3, <3>4, <3>5
  <2>5. CASE ~StillThere(after)
    <3>1. Rejoin("compared", after.looks) BY <2>1, <2>5 DEF after
    <3>2. ~unchanged \/ former
      <4>1. Keeps(Same) BY DEF Keeps, Same
      <4>2. QED BY <2>2, <2>3, <2>5, <4>1 DEF ParkingTyped
    <3>3. QED BY <1>1, <2>3, <2>5, <3>1, <3>2, RejoinInv
  <2>6. QED BY <2>4, <2>5
<1>7. QED BY <1>3, <1>4, <1>5, <1>6

LEMMA ParkingStepInv == ParkingInv /\ [ParkingNext]_parkingVars => ParkingInv'
PROOF
<1> SUFFICES ASSUME ParkingInv, [ParkingNext]_parkingVars PROVE ParkingInv' OBVIOUS
<1> USE DEF ParkingInv
<1>1. ASSUME NEW frame \in BOOLEAN, Still(frame) PROVE ParkingInv'
  <2>1. CASE Parks(frame) /\ rejoined' = NotYet /\ vehicle' = vehicle
    BY <2>1, ParkInv DEF ParkingTyped
  <2>2. CASE /\ stillTicks' \in {0, stillTicks + 1} /\ stillTicks' < StillTicks /\ rejoined' = NotYet
             /\ UNCHANGED <<parked, movedTicks, pixel, former, unchanged, vehicle>>
    <3>1. stillTicks' \in 0..(StillTicks - 1) BY <2>2, ParkingAssumption DEF ParkingTyped
    <3>2. ParkingTyped' /\ Wavering(pixel)' BY <2>2, <3>1 DEF ParkingTyped, Wavering
    <3>3. RejoinsOnEvidence' BY <2>2, NotYetFacts DEF RejoinsOnEvidence
    <3>4. QED BY <3>2, <3>3
  <2>3. QED BY <1>1, <2>1, <2>2 DEF Still
<1>2. ASSUME NEW frame \in BOOLEAN, TimesOut(frame) \/ Resumes(frame) PROVE ParkingInv'
  BY <1>2, ParkInv DEF TimesOut, Resumes, ParkingTyped
<1>3. ASSUME NEW frame \in BOOLEAN, NEW box \in Box, Matched(box, frame) PROVE ParkingInv'
  BY <1>3, MatchedInv
<1>4. CASE ClosesParked \/ SpotChanges \/ UNCHANGED parkingVars
  BY <1>4 DEF ClosesParked, SpotChanges, parkingVars, ParkingTyped, Wavering, RejoinsOnEvidence
<1>5. CASE Replaced
  <2>1. 0 \in 0..(StillTicks - 1) /\ 0 \in 0..(ResumeTicks - 1) BY TickFacts
  <2>2. ParkingTyped' BY <1>5, <2>1 DEF Replaced, ParkingTyped
  <2>3. Wavering(pixel)' BY <1>5, AnchorFacts DEF Replaced, Wavering
  <2>4. RejoinsOnEvidence' BY <1>5, NotYetFacts DEF Replaced, RejoinsOnEvidence
  <2>5. QED BY <2>2, <2>3, <2>4
<1>6. CASE AnchorAges
  <2>1. /\ pixel \in Anchor /\ pixel' = [pixel EXCEPT !.old = TRUE]
        /\ UNCHANGED <<vehicle, parked, stillTicks, movedTicks, former, unchanged, rejoined>>
    BY <1>6 DEF AnchorAges, ParkingTyped
  <2>2. pixel = [changed |-> pixel.changed, looks |-> pixel.looks, old |-> pixel.old]
        /\ pixel.changed \in 0..1 /\ pixel.looks \in Seq(Sights)
    BY <2>1 DEF Anchor
  <2>3. pixel' = [changed |-> pixel.changed, looks |-> pixel.looks, old |-> TRUE] BY <2>1, <2>2
  <2>4. pixel' \in Anchor /\ Wavering(pixel)' BY <2>2, <2>3 DEF Anchor, Wavering
  <2>5. QED BY <2>1, <2>4 DEF ParkingTyped, RejoinsOnEvidence
<1>7. QED BY <1>1, <1>2, <1>3, <1>4, <1>5, <1>6 DEF ParkingNext

LEMMA ParkingInitInv == ParkingInit => ParkingInv
PROOF
<1> SUFFICES ASSUME ParkingInit PROVE ParkingInv OBVIOUS
<1>1. 0 \in 0..(StillTicks - 1) /\ 0 \in 0..(ResumeTicks - 1) BY TickFacts
<1>2. ParkingTyped BY <1>1 DEF ParkingInit, ParkingTyped
<1>3. Wavering(pixel) BY AnchorFacts DEF ParkingInit
<1>4. RejoinsOnEvidence BY NotYetFacts DEF ParkingInit, RejoinsOnEvidence
<1>5. QED BY <1>2, <1>3, <1>4 DEF ParkingInv

LEMMA ParkingAlways == ParkingSpec => []ParkingInv
PROOF BY ParkingInitInv, ParkingStepInv, PTL DEF ParkingSpec

\* Every variable of the parked vehicle keeps its type.
THEOREM ParkingTypeCorrect == ParkingSpec => []ParkingTypeOK
PROOF
<1>1. ParkingInv => ParkingTypeOK
  BY AnchorFacts DEF ParkingInv, ParkingTyped, ParkingTypeOK, Wavering, NoAnchor
<1>2. QED BY <1>1, ParkingAlways, PTL

\* A parked vehicle that rejoins after a comparison was seen changed twice in a row or drifting, and
\* its last look was not as it was (still_there): for any looks, tolerances and order of ticks.
THEOREM RejoinsAreBacked == ParkingSpec => []RejoinsOnEvidence
PROOF BY ParkingAlways, PTL DEF ParkingInv

-----------------------------------------------------------------------------
(***************************************************************************)
(* Names of faces: snapshots are looked at in their order, each once, so that *)
(* a hit is of a snapshot none was counted for before; and a face's first  *)
(* reads are remembered until enough were made.                            *)
(***************************************************************************)

FoundIn == Subject \cup {NoSubject}
Named == [hits : [Subject -> Nat], from : [Subject -> SUBSET Shot], name : FoundIn]
FaceTrack == [there : BOOLEAN, names : Named, embed : BOOLEAN, reads : 0..HoldReads,
              first : Seq(FoundIn), shown : BOOLEAN]

FaceTyped ==
  /\ shot \in 0..MaxShots /\ mtime \in 0..MaxShots /\ read \in 0..MaxShots /\ enriched \in 0..MaxShots
  /\ bytes \in [mtime : 0..MaxShots, shot : 0..MaxShots] /\ swapped \in BOOLEAN
  /\ extra \in {"nothing", "face", "good"} /\ person \in Named /\ face \in FaceTrack

\* A snapshot is looked at after those before it, and is the one of its time unless swapped.
InTurn ==
  /\ enriched <= shot /\ mtime <= shot /\ (mtime # 0 => enriched <= mtime) /\ (read # 0 => mtime # 0)
  /\ ~swapped => bytes.shot = bytes.mtime /\ (read # 0 => read = mtime)

\* A track's hits are of as many snapshots, none later than last; so is its name.
Backed(tr, last) ==
  /\ \A s \in Subject : tr.hits[s] <= Cardinality(tr.from[s]) /\ \A k \in tr.from[s] : k <= last
  /\ Earned(tr)

\* The first reads of a face: what they matched is counted; shown without a name, they matched
\* nothing, or enough were made.
Nameless(f) == \A i \in DOMAIN f.first : f.first[i] = NoSubject
Remembers(f) ==
  /\ f.reads < Hits => Len(f.first) = f.reads
  /\ f.reads >= Hits => Len(f.first) = Hits
  /\ \A i \in DOMAIN f.first : f.first[i] # NoSubject => f.names.hits[f.first[i]] > 0
HeldBack(f) ==
  f.shown /\ f.names.name = NoSubject => f.reads >= HoldReads \/ (f.reads >= Hits /\ Nameless(f))

NamesInv ==
  /\ FaceTyped /\ InTurn
  /\ ~swapped => Backed(person, enriched) /\ Backed(face.names, enriched)
  /\ Remembers(face) /\ HeldBack(face)

LEMMA FromFinite == ASSUME NEW tr \in Named, NEW s \in Subject PROVE IsFiniteSet(tr.from[s])
PROOF
<1>1. tr.from[s] \in SUBSET Shot BY DEF Named
<1>2. IsFiniteSet(Shot) BY FaceAssumption, FS_Interval DEF Shot
<1>3. QED BY <1>1, <1>2, FS_Subset

\* What a match makes of a track: its subject has one hit more, of the snapshot read.
LEMMA CountedFacts ==
  ASSUME NEW tr \in Named, NEW s \in Subject, read \in Shot, NEW m \in Counted(tr, s)
  PROVE  /\ m \in Named
         /\ \A b \in Subject : m.hits[b] = IF b = s THEN tr.hits[b] + 1 ELSE tr.hits[b]
         /\ \A b \in Subject : m.from[b] = IF b = s THEN tr.from[b] \cup {read} ELSE tr.from[b]
         /\ m.name # tr.name => m.name \in Subject /\ m.hits[m.name] >= Hits
PROOF
<1> DEFINE h == [tr.hits EXCEPT ![s] = @ + 1]
           f == [tr.from EXCEPT ![s] = @ \cup {read}]
           n == [tr EXCEPT !.hits[s] = @ + 1, !.from[s] = @ \cup {read}]
<1>1. /\ tr = [hits |-> tr.hits, from |-> tr.from, name |-> tr.name]
      /\ tr.hits \in [Subject -> Nat] /\ tr.from \in [Subject -> SUBSET Shot] /\ tr.name \in FoundIn
  BY DEF Named
<1>2. h \in [Subject -> Nat] /\ f \in [Subject -> SUBSET Shot] BY <1>1
<1>3. \A b \in Subject : /\ h[b] = IF b = s THEN tr.hits[b] + 1 ELSE tr.hits[b]
                         /\ f[b] = IF b = s THEN tr.from[b] \cup {read} ELSE tr.from[b]
  BY <1>1
<1>4. n = [hits |-> h, from |-> f, name |-> tr.name]
  <2>1. [tr EXCEPT !.hits[s] = @ + 1] = [hits |-> h, from |-> tr.from, name |-> tr.name] BY <1>1
  <2>2. n = [[tr EXCEPT !.hits[s] = @ + 1] EXCEPT !.from[s] = @ \cup {read}] BY <1>1
  <2> DEFINE o == [hits |-> h, from |-> tr.from, name |-> tr.name]
  <2>3. o.from[s] = tr.from[s] /\ [o EXCEPT !.from[s] = @ \cup {read}] = [o EXCEPT !.from = f] OBVIOUS
  <2>4. n = [o EXCEPT !.from[s] = @ \cup {read}] BY <2>1, <2>2
  <2>5. o = [hits |-> h, from |-> tr.from, name |-> tr.name] OBVIOUS
  <2> HIDE DEF h, f, o
  <2>6. [o EXCEPT !.from = f] = [hits |-> h, from |-> f, name |-> tr.name] BY <2>5
  <2> QED BY <2>3, <2>4, <2>6
<1>5. PICK b \in Subject : m = IF n.hits[b] >= Hits THEN [n EXCEPT !.name = b] ELSE n
  BY DEF Counted
<1> HIDE DEF n, h, f
<1>6. CASE n.hits[b] >= Hits
  <2>1. m = [hits |-> h, from |-> f, name |-> b] BY <1>4, <1>5, <1>6
  <2>2. m \in Named BY <1>2, <2>1 DEF Named, FoundIn
  <2>3. m.hits = h /\ m.from = f /\ m.name = b /\ n.hits = h /\ b # NoSubject
    BY <1>4, <2>1, FaceAssumption
  <2>4. QED BY <1>3, <1>6, <2>2, <2>3
<1>7. CASE ~(n.hits[b] >= Hits)
  <2>1. m = [hits |-> h, from |-> f, name |-> tr.name] BY <1>4, <1>5, <1>7
  <2>2. m \in Named BY <1>1, <1>2, <2>1 DEF Named
  <2>3. m.hits = h /\ m.from = f /\ m.name = tr.name BY <2>1
  <2>4. QED BY <1>3, <2>2, <2>3
<1>8. QED BY <1>6, <1>7

\* A face or person that was matched, or not: what was counted stays, and a name stays a name.
LEMMA MergedFacts ==
  ASSUME NEW tr \in Named, NEW s \in FoundIn, read \in Shot, NEW m \in Merged(tr, s)
  PROVE  /\ m \in Named /\ (m.name = NoSubject => tr.name = NoSubject)
         /\ \A b \in Subject : m.hits[b] >= tr.hits[b]
         /\ s # NoSubject => m.hits[s] > 0
PROOF
<1>1. tr.hits \in [Subject -> Nat] BY DEF Named
<1>2. CASE s = NoSubject BY <1>1, <1>2 DEF Merged
<1>3. CASE s # NoSubject
  <2>1. s \in Subject /\ m \in Counted(tr, s) BY <1>3 DEF FoundIn, Merged
  <2>2. /\ m \in Named
        /\ m.name # tr.name => m.name \in Subject
        /\ \A b \in Subject : m.hits[b] = IF b = s THEN tr.hits[b] + 1 ELSE tr.hits[b]
    BY <2>1, CountedFacts
  <2>3. ASSUME NEW b \in Subject PROVE m.hits[b] >= tr.hits[b] /\ (b = s => m.hits[b] > 0)
    <3>1. tr.hits[b] \in Nat BY <1>1
    <3>2. QED BY <2>2, <3>1
  <2>4. m.name = NoSubject => tr.name = NoSubject BY <2>2, FaceAssumption
  <2>5. QED BY <2>1, <2>2, <2>3, <2>4
<1>4. QED BY <1>2, <1>3

LEMMA MergedBacked ==
  ASSUME NEW tr \in Named, NEW s \in FoundIn, read \in Shot, NEW m \in Merged(tr, s),
         NEW last \in Nat, Backed(tr, last), last < read
  PROVE  Backed(m, read)
PROOF
<1>1. tr.hits \in [Subject -> Nat] /\ read \in Nat /\ tr.from \in [Subject -> SUBSET Shot] /\ tr.name \in FoundIn
  BY DEF Named, Shot
<1>2. CASE s = NoSubject
  <2>1. m = tr BY <1>2 DEF Merged
  <2>2. \A b \in Subject : \A k \in tr.from[b] : k \in Nat /\ k <= last BY <1>1 DEF Backed, Shot
  <2>3. QED BY <1>1, <2>1, <2>2 DEF Backed
<1>3. CASE s # NoSubject
  <2>1. s \in Subject /\ m \in Counted(tr, s) BY <1>3 DEF FoundIn, Merged
  <2>2. /\ m \in Named
        /\ \A b \in Subject : m.hits[b] = IF b = s THEN tr.hits[b] + 1 ELSE tr.hits[b]
        /\ \A b \in Subject : m.from[b] = IF b = s THEN tr.from[b] \cup {read} ELSE tr.from[b]
        /\ m.name # tr.name => m.name \in Subject /\ m.hits[m.name] >= Hits
    BY <2>1, CountedFacts
  <2>3. \A b \in Subject : \A k \in tr.from[b] : k \in Nat /\ k <= last BY <1>1 DEF Backed, Shot
  <2>4. read \notin tr.from[s] BY <1>1, <2>1, <2>3
  <2>5. IsFiniteSet(tr.from[s]) BY <2>1, FromFinite
  <2>6. Cardinality(tr.from[s] \cup {read}) = Cardinality(tr.from[s]) + 1 BY <2>4, <2>5, FS_AddElement
  <2>7. \A b \in Subject : Cardinality(tr.from[b]) \in Nat BY FromFinite, FS_CardinalityType
  <2>8. ASSUME NEW b \in Subject
        PROVE  /\ m.hits[b] \in Nat /\ Cardinality(m.from[b]) \in Nat
               /\ m.hits[b] <= Cardinality(m.from[b]) /\ Cardinality(tr.from[b]) <= Cardinality(m.from[b])
               /\ \A k \in m.from[b] : k <= read
    <3>1. tr.hits[b] \in Nat /\ tr.hits[b] <= Cardinality(tr.from[b]) BY <1>1 DEF Backed
    <3>2. Cardinality(tr.from[b]) \in Nat BY <2>7
    <3>3. CASE b = s
      <4>1. m.hits[b] = tr.hits[b] + 1 /\ m.from[b] = tr.from[b] \cup {read} BY <2>2, <3>3
      <4>2. Cardinality(m.from[b]) = Cardinality(tr.from[b]) + 1 BY <2>6, <3>3, <4>1
      <4>3. \A k \in m.from[b] : k <= read BY <1>1, <2>3, <4>1
      <4>4. QED BY <3>1, <3>2, <4>1, <4>2, <4>3
    <3>4. CASE b # s
      <4>1. m.hits[b] = tr.hits[b] /\ m.from[b] = tr.from[b] BY <2>2, <3>4
      <4>2. \A k \in m.from[b] : k <= read BY <1>1, <2>3, <4>1
      <4>3. QED BY <3>1, <3>2, <4>1, <4>2
    <3>5. QED BY <3>3, <3>4
  <2>11. Earned(m)
    <3>1. SUFFICES ASSUME m.name # NoSubject PROVE Cardinality(m.from[m.name]) >= Hits BY DEF Earned
    <3>2. m.name \in Subject BY <2>2, <3>1 DEF Named, FoundIn
    <3>3. CASE m.name = tr.name
      <4>1. Cardinality(tr.from[m.name]) >= Hits BY <3>1, <3>3 DEF Backed, Earned
      <4>2. Cardinality(tr.from[m.name]) \in Nat /\ Cardinality(m.from[m.name]) \in Nat
            /\ Cardinality(tr.from[m.name]) <= Cardinality(m.from[m.name])
        BY <2>7, <2>8, <3>2
      <4>3. QED BY <4>1, <4>2, FaceAssumption
    <3>4. CASE m.name # tr.name BY <2>2, <2>8, <3>4, FaceAssumption
    <3>5. QED BY <3>3, <3>4
  <2>12. QED BY <2>8, <2>11 DEF Backed
<1>4. QED BY <1>2, <1>3

\* A face that takes its person's name has what it comes from; its own matches stay.
LEMMA LinkedFacts ==
  ASSUME NEW p \in Named, NEW n \in Named
  PROVE  /\ Linked(p, n) \in Named /\ Linked(p, n).hits = n.hits
         /\ Linked(p, n).name = NoSubject => n.name = NoSubject
         /\ n.name = NoSubject /\ p.name # NoSubject =>
              \A b \in Subject :
                Linked(p, n).from[b] = IF b = p.name THEN n.from[b] \cup p.from[b] ELSE n.from[b]
PROOF
<1>1. /\ n = [hits |-> n.hits, from |-> n.from, name |-> n.name]
      /\ n.hits \in [Subject -> Nat] /\ n.from \in [Subject -> SUBSET Shot]
      /\ p.from \in [Subject -> SUBSET Shot] /\ p.name \in FoundIn
  BY DEF Named
<1>2. CASE n.name = NoSubject /\ p.name # NoSubject
  <2> DEFINE f == [n.from EXCEPT ![p.name] = @ \cup p.from[p.name]]
             m == [n EXCEPT !.name = p.name]
  <2>1. p.name \in Subject BY <1>1, <1>2 DEF FoundIn
  <2>2. m = [hits |-> n.hits, from |-> n.from, name |-> p.name] BY <1>1
  <2>3. /\ f \in [Subject -> SUBSET Shot]
        /\ \A b \in Subject : f[b] = IF b = p.name THEN n.from[b] \cup p.from[b] ELSE n.from[b]
    BY <1>1, <2>1
  <2>4. Linked(p, n) = [hits |-> n.hits, from |-> f, name |-> p.name]
    <3>1. Linked(p, n) = [n EXCEPT !.name = p.name, !.from[p.name] = @ \cup p.from[p.name]] BY <1>2 DEF Linked
    <3>2. [n EXCEPT !.name = p.name, !.from[p.name] = @ \cup p.from[p.name]] = [m EXCEPT !.from = f]
      BY <1>1, <2>1
    <3> HIDE DEF f, m
    <3>3. [m EXCEPT !.from = f] = [hits |-> n.hits, from |-> f, name |-> p.name] BY <2>2
    <3>4. QED BY <3>1, <3>2, <3>3
  <2> HIDE DEF f
  <2>5. QED BY <1>1, <1>2, <2>3, <2>4 DEF Named
<1>3. CASE ~(n.name = NoSubject /\ p.name # NoSubject) BY <1>3 DEF Linked
<1>4. QED BY <1>2, <1>3

LEMMA LinkedBacked ==
  ASSUME NEW p \in Named, NEW n \in Named, NEW last \in Nat, Backed(p, last), Backed(n, last)
  PROVE  Backed(Linked(p, n), last)
PROOF
<1>1. /\ n = [hits |-> n.hits, from |-> n.from, name |-> n.name]
      /\ n.hits \in [Subject -> Nat] /\ n.from \in [Subject -> SUBSET Shot]
      /\ p.from \in [Subject -> SUBSET Shot] /\ p.name \in FoundIn
  BY DEF Named
<1>2. CASE n.name = NoSubject /\ p.name # NoSubject
  <2> DEFINE m == Linked(p, n)
  <2>1. p.name \in Subject BY <1>1, <1>2 DEF FoundIn
  <2>2. m = [n EXCEPT !.name = p.name, !.from[p.name] = @ \cup p.from[p.name]] BY <1>2 DEF Linked
  <2>3. m.hits = n.hits /\ m.name = p.name BY <1>1, <2>2
  <2>4. \A b \in Subject : m.from[b] = IF b = p.name THEN n.from[b] \cup p.from[b] ELSE n.from[b]
    BY <1>2, LinkedFacts
  <2>5. \A b \in Subject : IsFiniteSet(n.from[b]) /\ IsFiniteSet(p.from[b]) BY FromFinite
  <2> HIDE DEF m
  <2>6. ASSUME NEW b \in Subject
        PROVE  /\ m.hits[b] <= Cardinality(m.from[b]) /\ \A k \in m.from[b] : k <= last
               /\ b = p.name => Cardinality(m.from[b]) >= Hits
    <3>1. n.hits[b] \in Nat /\ n.hits[b] <= Cardinality(n.from[b]) BY <1>1 DEF Backed
    <3>2. CASE b = p.name
      <4>1. m.from[b] = n.from[b] \cup p.from[b] /\ m.hits[b] = n.hits[b] BY <2>3, <2>4, <3>2
      <4>2. IsFiniteSet(m.from[b]) BY <2>5, <4>1, FS_Union
      <4>3. Cardinality(n.from[b]) <= Cardinality(m.from[b]) /\ Cardinality(p.from[b]) <= Cardinality(m.from[b])
        BY <4>1, <4>2, FS_Subset
      <4>4. Cardinality(n.from[b]) \in Nat /\ Cardinality(p.from[b]) \in Nat /\ Cardinality(m.from[b]) \in Nat
        BY <2>5, <4>2, FS_CardinalityType
      <4>5. Cardinality(p.from[b]) >= Hits BY <1>2, <3>2 DEF Backed, Earned
      <4>6. \A k \in m.from[b] : k <= last BY <4>1 DEF Backed
      <4>7. m.hits[b] <= Cardinality(m.from[b]) BY <3>1, <4>1, <4>3, <4>4
      <4>8. Cardinality(m.from[b]) >= Hits BY <4>3, <4>4, <4>5, FaceAssumption
      <4>9. QED BY <4>6, <4>7, <4>8
    <3>3. CASE b # p.name
      <4>1. m.from[b] = n.from[b] /\ m.hits[b] = n.hits[b] BY <2>3, <2>4, <3>3
      <4>2. QED BY <3>1, <3>3, <4>1 DEF Backed
    <3>4. QED BY <3>2, <3>3
  <2>7. Earned(m) BY <2>1, <2>3, <2>6 DEF Earned
  <2>8. QED BY <2>6, <2>7 DEF Backed, m
<1>3. CASE ~(n.name = NoSubject /\ p.name # NoSubject) BY <1>3 DEF Linked
<1>4. QED BY <1>2, <1>3

LEMMA NewFacts ==
  /\ Unnamed \in Named /\ \A last \in Nat : Backed(Unnamed, last)
  /\ NoFace \in FaceTrack /\ NoFace.names = Unnamed /\ Remembers(NoFace) /\ HeldBack(NoFace)
  /\ NewFace \in FaceTrack /\ NewFace.names = Unnamed /\ Remembers(NewFace) /\ HeldBack(NewFace)
PROOF
<1>1. Unnamed \in Named BY DEF Unnamed, Named, FoundIn
<1>2. \A last \in Nat : Backed(Unnamed, last)
  BY FS_EmptySet DEF Unnamed, Backed, Earned
<1>3. 0 \in 0..HoldReads /\ <<>> \in Seq(FoundIn) /\ Len(<<>>) = 0 /\ DOMAIN <<>> = {} BY FaceAssumption
<1>4. NoFace = [there |-> FALSE, names |-> Unnamed, embed |-> FALSE, reads |-> 0, first |-> <<>>, shown |-> FALSE]
  BY DEF NoFace
<1>5. ASSUME NEW f \in FaceTrack
      PROVE  LET g == [f EXCEPT !.there = TRUE] IN
             /\ g \in FaceTrack /\ g.names = f.names /\ g.reads = f.reads /\ g.first = f.first
             /\ g.shown = f.shown
  BY DEF FaceTrack
<1>6. NoFace \in FaceTrack BY <1>1, <1>3, <1>4 DEF FaceTrack
<1>7. NoFace.names = Unnamed /\ NoFace.reads = 0 /\ NoFace.first = <<>> /\ NoFace.shown = FALSE BY <1>4
<1>8. /\ NewFace \in FaceTrack /\ NewFace.names = Unnamed /\ NewFace.reads = 0
      /\ NewFace.first = <<>> /\ NewFace.shown = FALSE
  BY <1>5, <1>6, <1>7 DEF NewFace
<1>9. ASSUME NEW f, f.reads = 0, f.first = <<>>, f.shown = FALSE PROVE Remembers(f) /\ HeldBack(f)
  BY <1>3, <1>9, FaceAssumption DEF Remembers, HeldBack
<1>10. QED BY <1>1, <1>2, <1>6, <1>7, <1>8, <1>9

\* A face is reported, or not: without a name only if it may be.
LEMMA ReportedKeeps ==
  ASSUME NEW f \in FaceTrack, Remembers(f), HeldBack(f), NEW g \in Reported(f)
  PROVE  g \in FaceTrack /\ Remembers(g) /\ HeldBack(g) /\ g.names = f.names
PROOF
<1>1. CASE g = f BY <1>1
<1>2. CASE g = [f EXCEPT !.shown = @ \/ (f.embed /\ Decided(f))]
  <2> DEFINE shown == f.shown \/ (f.embed /\ Decided(f))
  <2>1. f = [there |-> f.there, names |-> f.names, embed |-> f.embed, reads |-> f.reads,
             first |-> f.first, shown |-> f.shown] /\ f.shown \in BOOLEAN /\ f.embed \in BOOLEAN
        /\ f.reads \in 0..HoldReads /\ f.names.hits \in [Subject -> Nat] /\ f.first \in Seq(FoundIn)
    BY DEF FaceTrack, Named
  <2>2. g = [f EXCEPT !.shown = shown] BY <1>2
  <2>3. shown \in BOOLEAN BY <2>1
  <2> HIDE DEF shown
  <2>4. g = [there |-> f.there, names |-> f.names, embed |-> f.embed, reads |-> f.reads,
             first |-> f.first, shown |-> shown]
    BY <2>1, <2>2
  <2>5. g \in FaceTrack BY <2>3, <2>4 DEF FaceTrack
  <2>6. g.names = f.names /\ g.reads = f.reads /\ g.first = f.first /\ g.shown = shown BY <2>4
  <2>7. Remembers(g) BY <2>6 DEF Remembers
  <2>8. HeldBack(g)
    <3>1. SUFFICES ASSUME shown, f.names.name = NoSubject, ~f.shown
                   PROVE  f.reads >= HoldReads \/ (f.reads >= Hits /\ Nameless(f))
      BY <2>6 DEF HeldBack, Nameless
    <3>2. Decided(f) BY <3>1 DEF shown
    <3>3. CASE \E s \in Subject : f.names.hits[s] > 0 BY <3>1, <3>2, <3>3 DEF Decided
    <3>4. CASE ~\E s \in Subject : f.names.hits[s] > 0
      <4>1. f.reads >= Hits BY <3>1, <3>2, <3>4 DEF Decided
      <4>2. \A i \in DOMAIN f.first : f.first[i] \in FoundIn BY <2>1
      <4>3. Nameless(f) BY <3>4, <4>2 DEF Nameless, Remembers, FoundIn
      <4>4. QED BY <4>1, <4>3
    <3>5. QED BY <3>3, <3>4
  <2>9. QED BY <2>5, <2>6, <2>7, <2>8
<1>3. QED BY <1>1, <1>2 DEF Reported

\* A face as a read leaves it, before it is reported.
AfterRead(f, names, embed, reads, first) ==
  [f EXCEPT !.names = names, !.embed = embed, !.reads = reads, !.first = first]

LEMMA ReadKeeps ==
  ASSUME NEW f \in FaceTrack, Remembers(f), HeldBack(f), NEW names \in Named, NEW embed \in BOOLEAN,
         NEW reads, NEW first,
         names.name = NoSubject => f.names.name = NoSubject,
         \A b \in Subject : names.hits[b] >= f.names.hits[b],
         \/ \E s \in FoundIn :
              /\ s # NoSubject => names.hits[s] > 0
              /\ reads = IF f.reads < HoldReads THEN f.reads + 1 ELSE f.reads
              /\ first = IF Len(f.first) < Hits THEN Append(f.first, s) ELSE f.first
         \/ reads = f.reads /\ first = f.first
  PROVE  LET g == AfterRead(f, names, embed, reads, first) IN
         g \in FaceTrack /\ Remembers(g) /\ HeldBack(g) /\ g.names = names
PROOF
<1> DEFINE g == AfterRead(f, names, embed, reads, first)
<1>1. /\ f = [there |-> f.there, names |-> f.names, embed |-> f.embed, reads |-> f.reads,
              first |-> f.first, shown |-> f.shown]
      /\ f.there \in BOOLEAN /\ f.shown \in BOOLEAN /\ f.reads \in 0..HoldReads /\ f.first \in Seq(FoundIn)
      /\ f.names.hits \in [Subject -> Nat] /\ names.hits \in [Subject -> Nat]
  BY DEF FaceTrack, Named
<1>2. g = [there |-> f.there, names |-> names, embed |-> embed, reads |-> reads,
           first |-> first, shown |-> f.shown]
  <2> DEFINE g1 == [f EXCEPT !.names = names]
             g2 == [g1 EXCEPT !.embed = embed]
             g3 == [g2 EXCEPT !.reads = reads]
  <2>1. g = [g3 EXCEPT !.first = first] BY <1>1 DEF AfterRead
  <2>2. g1 = [there |-> f.there, names |-> names, embed |-> f.embed, reads |-> f.reads,
              first |-> f.first, shown |-> f.shown]
    BY <1>1
  <2> HIDE DEF g1
  <2>3. g2 = [there |-> f.there, names |-> names, embed |-> embed, reads |-> f.reads,
              first |-> f.first, shown |-> f.shown]
    BY <2>2
  <2> HIDE DEF g2
  <2>4. g3 = [there |-> f.there, names |-> names, embed |-> embed, reads |-> reads,
              first |-> f.first, shown |-> f.shown]
    BY <2>3
  <2> HIDE DEF g3
  <2>5. [g3 EXCEPT !.first = first] = [there |-> f.there, names |-> names, embed |-> embed,
           reads |-> reads, first |-> first, shown |-> f.shown]
    BY <2>4
  <2> HIDE DEF g
  <2>6. QED BY <2>1, <2>5
<1> HIDE DEF g
<1>3. /\ g.names = names /\ g.reads = reads /\ g.first = first /\ g.shown = f.shown BY <1>2
<1>4. Len(f.first) \in Nat /\ Hits \in Nat \ {0} /\ HoldReads \in Nat /\ Hits <= HoldReads
  BY <1>1, FaceAssumption
<1>5. Len(f.first) <= Hits /\ (f.reads < Hits => Len(f.first) = f.reads) /\ (f.reads >= Hits => Len(f.first) = Hits)
  BY <1>1, <1>4 DEF Remembers
<1>6. \A i \in DOMAIN f.first : f.first[i] # NoSubject => names.hits[f.first[i]] > 0
  <2>1. SUFFICES ASSUME NEW i \in DOMAIN f.first, f.first[i] # NoSubject PROVE names.hits[f.first[i]] > 0
    OBVIOUS
  <2>2. f.first[i] \in Subject BY <1>1, <2>1 DEF FoundIn
  <2>3. f.names.hits[f.first[i]] > 0 BY <2>1 DEF Remembers
  <2>4. f.names.hits[f.first[i]] \in Nat /\ names.hits[f.first[i]] \in Nat BY <1>1, <2>2
  <2>5. names.hits[f.first[i]] >= f.names.hits[f.first[i]] BY <2>2
  <2>6. QED BY <2>3, <2>4, <2>5
<1>7. CASE first = f.first /\ reads \in 0..HoldReads /\ reads >= f.reads /\ (reads = f.reads \/ f.reads >= Hits)
  <2>1. g \in FaceTrack BY <1>1, <1>2, <1>7 DEF FaceTrack
  <2>2. Remembers(g) BY <1>1, <1>3, <1>4, <1>5, <1>6, <1>7 DEF Remembers
  <2>3. HeldBack(g)
    <3>1. SUFFICES ASSUME f.shown, f.names.name = NoSubject
                   PROVE  reads >= HoldReads \/ (reads >= Hits /\ Nameless(f))
      BY <1>3, <1>7 DEF HeldBack, Nameless
    <3>2. f.reads >= HoldReads \/ (f.reads >= Hits /\ Nameless(f)) BY <3>1 DEF HeldBack
    <3>3. QED BY <1>1, <1>4, <1>7, <3>2
  <2>4. QED BY <1>3, <2>1, <2>2, <2>3 DEF g
<1>8. ASSUME NEW s \in FoundIn, f.reads < Hits, reads = f.reads + 1, first = Append(f.first, s),
             s # NoSubject => names.hits[s] > 0
      PROVE  g \in FaceTrack /\ Remembers(g) /\ HeldBack(g) /\ g.names = names
  <2>1. /\ first \in Seq(FoundIn) /\ Len(first) = reads
        /\ \A i \in DOMAIN first : first[i] = s \/ (i \in DOMAIN f.first /\ first[i] = f.first[i])
    BY <1>1, <1>5, <1>8
  <2>2. reads \in 0..HoldReads BY <1>1, <1>4, <1>8
  <2>3. g \in FaceTrack BY <1>1, <1>2, <2>1, <2>2 DEF FaceTrack
  <2>4. \A i \in DOMAIN first : first[i] # NoSubject => names.hits[first[i]] > 0 BY <1>6, <1>8, <2>1
  <2>5. Remembers(g) BY <1>1, <1>3, <1>4, <1>8, <2>1, <2>4 DEF Remembers
  <2>6. HeldBack(g)
    <3>1. f.shown => f.names.name # NoSubject BY <1>1, <1>4, <1>8 DEF HeldBack
    <3>2. QED BY <1>3, <3>1 DEF HeldBack
  <2>7. QED BY <1>3, <2>3, <2>5, <2>6
<1>9. QED BY <1>1, <1>4, <1>5, <1>7, <1>8 DEF g

LEMMA ThisFaceFacts ==
  ASSUME NamesInv
  PROVE  /\ ThisFace \in FaceTrack /\ Remembers(ThisFace) /\ HeldBack(ThisFace)
         /\ ~swapped => Backed(ThisFace.names, enriched)
PROOF
<1>1. enriched \in Nat BY FaceAssumption DEF NamesInv, FaceTyped
<1>2. CASE face.there BY <1>2 DEF ThisFace, NamesInv, FaceTyped
<1>3. CASE ~face.there BY <1>1, <1>3, NewFacts DEF ThisFace
<1>4. QED BY <1>2, <1>3

\* A read that finds no face that is new, or none: nothing is counted, but a face may take its
\* person's name.
Relinked(f, embed) == [f EXCEPT !.names = Linked(person, f.names), !.embed = embed]

LEMMA LinkKeeps ==
  ASSUME NamesInv, NEW f \in FaceTrack, Remembers(f), HeldBack(f), ~swapped => Backed(f.names, enriched),
         NEW embed \in BOOLEAN
  PROVE  LET g == Relinked(f, embed) IN
         /\ g \in FaceTrack /\ Remembers(g) /\ HeldBack(g)
         /\ ~swapped => Backed(g.names, enriched)
PROOF
<1> DEFINE names == Linked(person, f.names)
           g == Relinked(f, embed)
           h == AfterRead(f, names, embed, f.reads, f.first)
<1>1. person \in Named /\ f.names \in Named /\ enriched \in Nat
  BY FaceAssumption DEF NamesInv, FaceTyped, FaceTrack
<1>2. names \in Named /\ names.hits = f.names.hits /\ (names.name = NoSubject => f.names.name = NoSubject)
  BY <1>1, LinkedFacts
<1>3. ~swapped => Backed(names, enriched) BY <1>1, LinkedBacked DEF NamesInv
<1>4. \A b \in Subject : names.hits[b] >= f.names.hits[b]
  <2>1. f.names.hits \in [Subject -> Nat] BY <1>1 DEF Named
  <2>2. QED BY <1>2, <2>1
<1> HIDE DEF names
<1>5. h \in FaceTrack /\ Remembers(h) /\ HeldBack(h) /\ h.names = names BY <1>2, <1>4, ReadKeeps
<1>6. g = h BY DEF FaceTrack, Relinked, AfterRead, names
<1> HIDE DEF g, h
<1>7. QED BY <1>3, <1>5, <1>6 DEF g, names

LEMMA FindsFaceInv ==
  ASSUME NamesInv, NEW s \in FoundIn, NEW good \in BOOLEAN, FindsFace(s, good) PROVE NamesInv'
PROOF
<1>1. /\ FaceTyped /\ InTurn /\ Remembers(face) /\ HeldBack(face)
      /\ ~swapped => Backed(person, enriched) /\ Backed(face.names, enriched)
  BY DEF NamesInv
<1>2. /\ read # 0 /\ enriched # mtime /\ enriched' = mtime /\ mtime' = 0 /\ read' = 0
      /\ extra' = IF good THEN "good" ELSE "face"
      /\ UNCHANGED <<shot, bytes, swapped>>
  BY DEF FindsFace
<1>3. PICK p \in Merged(person, s), n \in Merged(ThisFace.names, s) :
        /\ person' = p
        /\ face' \in Reported([ThisFace EXCEPT
              !.names = Linked(p, n), !.embed = @ \/ good,
              !.reads = IF good /\ @ < HoldReads THEN @ + 1 ELSE @,
              !.first = IF good /\ Len(@) < Hits THEN Append(@, s) ELSE @])
  BY DEF FindsFace
<1>4. read \in Shot /\ person \in Named /\ mtime \in Nat /\ enriched \in Nat
  BY <1>1, <1>2, FaceAssumption DEF FaceTyped, Shot
<1>5. /\ ThisFace \in FaceTrack /\ Remembers(ThisFace) /\ HeldBack(ThisFace)
      /\ ~swapped => Backed(ThisFace.names, enriched)
  BY ThisFaceFacts
<1>6. ThisFace.names \in Named /\ ThisFace.embed \in BOOLEAN BY <1>5 DEF FaceTrack
<1>7. p \in Named BY <1>3, <1>4, MergedFacts
<1>8. /\ n \in Named /\ (n.name = NoSubject => ThisFace.names.name = NoSubject)
      /\ \A b \in Subject : n.hits[b] >= ThisFace.names.hits[b]
      /\ s # NoSubject => n.hits[s] > 0
  BY <1>3, <1>4, <1>6, MergedFacts
<1>9. ~swapped => Backed(p, mtime) /\ Backed(n, mtime)
  <2>1. SUFFICES ASSUME ~swapped PROVE Backed(p, mtime) /\ Backed(n, mtime) OBVIOUS
  <2>2. read = mtime /\ enriched < read BY <1>1, <1>2, <1>4, <2>1 DEF InTurn
  <2>3. Backed(p, read) BY <1>1, <1>3, <1>4, <2>1, <2>2, MergedBacked
  <2>4. Backed(n, read) BY <1>3, <1>4, <1>5, <1>6, <2>1, <2>2, MergedBacked
  <2>5. QED BY <2>2, <2>3, <2>4
<1> DEFINE t == ThisFace
           names == Linked(p, n)
           embed == t.embed \/ good
           reads == IF good /\ t.reads < HoldReads THEN t.reads + 1 ELSE t.reads
           first == IF good /\ Len(t.first) < Hits THEN Append(t.first, s) ELSE t.first
           g == AfterRead(t, names, embed, reads, first)
<1>10. face' \in Reported(g) BY <1>3 DEF AfterRead
<1>11. names \in Named /\ names.hits = n.hits /\ (names.name = NoSubject => n.name = NoSubject)
  BY <1>7, <1>8, LinkedFacts
<1>12. ~swapped => Backed(names, mtime) BY <1>4, <1>7, <1>8, <1>9, LinkedBacked
<1>13. embed \in BOOLEAN BY <1>6
<1>14. \/ /\ reads = IF t.reads < HoldReads THEN t.reads + 1 ELSE t.reads
          /\ first = IF Len(t.first) < Hits THEN Append(t.first, s) ELSE t.first
       \/ reads = t.reads /\ first = t.first
  OBVIOUS
<1> HIDE DEF names, embed, reads, first
<1>15. g \in FaceTrack /\ Remembers(g) /\ HeldBack(g) /\ g.names = names
  <2> HIDE DEF t
  <2>1. t \in FaceTrack /\ Remembers(t) /\ HeldBack(t) BY <1>5 DEF t
  <2>2. /\ names.name = NoSubject => t.names.name = NoSubject
        /\ \A b \in Subject : names.hits[b] >= t.names.hits[b]
        /\ s # NoSubject => names.hits[s] > 0
    BY <1>8, <1>11 DEF t
  <2>3. \/ \E b \in FoundIn :
             /\ b # NoSubject => names.hits[b] > 0
             /\ reads = IF t.reads < HoldReads THEN t.reads + 1 ELSE t.reads
             /\ first = IF Len(t.first) < Hits THEN Append(t.first, b) ELSE t.first
        \/ reads = t.reads /\ first = t.first
    BY <1>14, <2>2
  <2>4. QED BY <1>11, <1>13, <2>1, <2>2, <2>3, ReadKeeps
<1> HIDE DEF g, t
<1>16. face' \in FaceTrack /\ Remembers(face') /\ HeldBack(face') /\ face'.names = names
  BY <1>10, <1>15, ReportedKeeps
<1>17. FaceTyped'
  BY <1>1, <1>2, <1>3, <1>7, <1>16, FaceAssumption DEF FaceTyped
<1>18. InTurn' BY <1>1, <1>2, <1>4 DEF InTurn, FaceTyped
<1>19. (~swapped => Backed(person, enriched) /\ Backed(face.names, enriched))'
  BY <1>2, <1>3, <1>9, <1>12, <1>16 DEF Backed, Earned
<1>20. QED BY <1>16, <1>17, <1>18, <1>19 DEF NamesInv, Remembers, HeldBack, Nameless

LEMMA FindsNoneInv == ASSUME NamesInv, FindsNone PROVE NamesInv'
PROOF
<1>1. /\ FaceTyped /\ InTurn /\ Remembers(face) /\ HeldBack(face)
      /\ ~swapped => Backed(person, enriched) /\ Backed(face.names, enriched)
  BY DEF NamesInv
<1>2. /\ enriched' = mtime /\ mtime' = 0 /\ read' = 0 /\ extra' = "nothing"
      /\ face' = [face EXCEPT !.names = IF face.there THEN Linked(person, @) ELSE @]
      /\ read # 0 /\ UNCHANGED <<shot, bytes, person, swapped>>
  BY DEF FindsNone
<1>3. /\ mtime \in Nat /\ enriched \in Nat /\ enriched <= mtime
      /\ person \in Named /\ face \in FaceTrack /\ face.embed \in BOOLEAN
  BY <1>1, <1>2, FaceAssumption DEF InTurn, FaceTyped, FaceTrack
<1>4. /\ face' \in FaceTrack /\ Remembers(face') /\ HeldBack(face')
      /\ ~swapped => Backed(face'.names, enriched)
  <2>1. CASE face.there
    <3>1. face' = Relinked(face, face.embed) BY <1>2, <1>3, <2>1 DEF FaceTrack, Relinked
    <3>2. QED BY <1>1, <1>3, <3>1, LinkKeeps
  <2>2. CASE ~face.there
    <3>1. face' = face BY <1>2, <1>3, <2>2 DEF FaceTrack
    <3>2. QED BY <1>1, <1>3, <3>1
  <2>3. QED BY <2>1, <2>2
<1>5. ASSUME NEW tr \in Named, Backed(tr, enriched) PROVE Backed(tr, mtime)
  <2>1. tr.from \in [Subject -> SUBSET Shot] BY DEF Named
  <2>2. \A b \in Subject : \A k \in tr.from[b] : k \in Nat /\ k <= enriched BY <1>5, <2>1 DEF Backed, Shot
  <2>3. \A b \in Subject : \A k \in tr.from[b] : k <= mtime BY <1>3, <2>2
  <2>4. QED BY <1>5, <2>3 DEF Backed
<1>6. ~swapped => Backed(person, mtime) /\ Backed(face'.names, mtime)
  <2>1. face'.names \in Named BY <1>4 DEF FaceTrack
  <2>2. QED BY <1>1, <1>3, <1>4, <1>5, <2>1
<1>7. FaceTyped' BY <1>1, <1>2, <1>4, FaceAssumption DEF FaceTyped
<1>8. InTurn' BY <1>1, <1>2, <1>3 DEF InTurn, FaceTyped
<1>9. (~swapped => Backed(person, enriched) /\ Backed(face.names, enriched))'
  BY <1>2, <1>6 DEF Backed, Earned
<1>10. QED BY <1>4, <1>7, <1>8, <1>9 DEF NamesInv, Remembers, HeldBack, Nameless

LEMMA FindsSameInv == ASSUME NamesInv, FindsSame PROVE NamesInv'
PROOF
<1>1. /\ FaceTyped /\ InTurn /\ Remembers(face) /\ HeldBack(face)
      /\ ~swapped => Backed(person, enriched) /\ Backed(face.names, enriched)
  BY DEF NamesInv
<1>2. /\ mtime' = 0 /\ read' = 0 /\ UNCHANGED <<shot, bytes, enriched, extra, person, swapped>>
      /\ face' \in IF extra = "nothing" THEN {face}
                   ELSE Reported([ThisFace EXCEPT !.names = Linked(person, @),
                                                  !.embed = @ \/ extra = "good"])
  BY DEF FindsSame
<1>3. /\ face' \in FaceTrack /\ Remembers(face') /\ HeldBack(face')
      /\ ~swapped => Backed(face'.names, enriched)
  <2>1. CASE extra = "nothing" BY <1>1, <1>2, <2>1 DEF FaceTyped
  <2>2. CASE extra # "nothing"
    <3> DEFINE t == ThisFace
               embed == t.embed \/ extra = "good"
               g == Relinked(t, embed)
    <3>1. face' \in Reported(g) BY <1>2, <2>2 DEF Relinked
    <3>2. /\ t \in FaceTrack /\ Remembers(t) /\ HeldBack(t)
          /\ ~swapped => Backed(t.names, enriched)
      BY ThisFaceFacts
    <3>3. embed \in BOOLEAN BY ThisFaceFacts DEF FaceTrack
    <3> HIDE DEF t, embed
    <3>4. g \in FaceTrack /\ Remembers(g) /\ HeldBack(g) BY <3>2, <3>3, LinkKeeps
    <3>5. ~swapped => Backed(g.names, enriched) BY <3>2, <3>3, LinkKeeps
    <3> HIDE DEF g
    <3>6. face' \in FaceTrack /\ Remembers(face') /\ HeldBack(face') /\ face'.names = g.names
      BY <3>1, <3>4, ReportedKeeps
    <3>7. QED BY <3>5, <3>6
  <2>3. QED BY <2>1, <2>2
<1>4. FaceTyped' BY <1>1, <1>2, <1>3, FaceAssumption DEF FaceTyped
<1>5. InTurn' BY <1>1, <1>2 DEF InTurn, FaceTyped
<1>6. (~swapped => Backed(person, enriched) /\ Backed(face.names, enriched))'
  BY <1>1, <1>2, <1>3 DEF Backed, Earned
<1>7. QED BY <1>3, <1>4, <1>5, <1>6 DEF NamesInv, Remembers, HeldBack, Nameless

LEMMA NamesInitInv == FaceInit => NamesInv
PROOF
<1> SUFFICES ASSUME FaceInit PROVE NamesInv OBVIOUS
<1>1. FaceTyped
  <2>1. 0 \in 0..MaxShots /\ [mtime |-> 0, shot |-> 0] \in [mtime : 0..MaxShots, shot : 0..MaxShots]
    BY FaceAssumption
  <2>2. QED BY <2>1, NewFacts DEF FaceInit, FaceTyped
<1>2. InTurn BY DEF FaceInit, InTurn
<1>3. Backed(person, enriched) /\ Backed(face.names, enriched) BY NewFacts DEF FaceInit
<1>4. QED BY <1>1, <1>2, <1>3, NewFacts DEF FaceInit, NamesInv

LEMMA NamesStepInv == NamesInv /\ [FaceNext]_faceVars => NamesInv'
PROOF
<1> SUFFICES ASSUME NamesInv, [FaceNext]_faceVars PROVE NamesInv' OBVIOUS
<1> DEFINE Tracks == /\ ~swapped => Backed(person, enriched) /\ Backed(face.names, enriched)
                     /\ Remembers(face) /\ HeldBack(face)
<1>1. FaceTyped /\ InTurn /\ Tracks BY DEF NamesInv
<1>2. ASSUME UNCHANGED <<enriched, person, face>>, swapped' = FALSE => swapped = FALSE, swapped' \in BOOLEAN
      PROVE  Tracks'
  BY <1>1, <1>2 DEF Backed, Earned, Remembers, HeldBack, Nameless, FaceTyped
<1>3. CASE WritesShot
  <2>1. FaceTyped' BY <1>1, <1>3, FaceAssumption DEF WritesShot, FaceTyped
  <2>2. InTurn' BY <1>1, <1>3, FaceAssumption DEF WritesShot, FaceTyped, InTurn
  <2>3. Tracks' BY <1>1, <1>2, <1>3 DEF WritesShot, FaceTyped
  <2>4. QED BY <2>1, <2>2, <2>3 DEF NamesInv
<1>4. CASE LooksAtTime
  <2>1. FaceTyped' BY <1>1, <1>4 DEF LooksAtTime, FaceTyped
  <2>2. InTurn' BY <1>1, <1>4, FaceAssumption DEF LooksAtTime, FaceTyped, InTurn
  <2>3. Tracks' BY <1>1, <1>2, <1>4 DEF LooksAtTime, FaceTyped
  <2>4. QED BY <2>1, <2>2, <2>3 DEF NamesInv
<1>5. CASE ReadsShot
  <2>1. /\ mtime # 0 /\ read' = bytes'.shot /\ swapped' = (swapped \/ bytes'.shot # mtime)
        /\ bytes' \in {bytes, [mtime |-> mtime, shot |-> shot]} /\ bytes'.mtime = mtime
        /\ UNCHANGED <<shot, mtime, enriched, extra, person, face>>
    BY <1>5 DEF ReadsShot
  <2>2. bytes' \in [mtime : 0..MaxShots, shot : 0..MaxShots] BY <1>1, <2>1 DEF FaceTyped
  <2>3. FaceTyped' BY <1>1, <2>1, <2>2 DEF FaceTyped
  <2>4. InTurn' BY <1>1, <2>1 DEF InTurn
  <2>5. Tracks' BY <1>1, <1>2, <2>1 DEF FaceTyped
  <2>6. QED BY <2>3, <2>4, <2>5 DEF NamesInv
<1>6. ASSUME NEW s \in Subject \cup {NoSubject}, NEW good \in BOOLEAN, FindsFace(s, good) PROVE NamesInv'
  BY <1>6, FindsFaceInv DEF FoundIn
<1>7. CASE FindsNone BY <1>7, FindsNoneInv
<1>8. CASE FindsSame BY <1>8, FindsSameInv
<1>9. CASE FaceGoes
  <2>1. face' = NoFace /\ UNCHANGED <<shot, mtime, bytes, read, enriched, extra, person, swapped>>
    BY <1>9 DEF FaceGoes
  <2>2. FaceTyped' BY <1>1, <2>1, NewFacts DEF FaceTyped
  <2>3. InTurn' BY <1>1, <2>1 DEF InTurn
  <2>4. enriched \in Nat BY <1>1, FaceAssumption DEF FaceTyped
  <2>5. Backed(NoFace.names, enriched) BY <2>4, NewFacts
  <2>6. Tracks' BY <1>1, <2>1, <2>5, NewFacts DEF Backed, Earned, Remembers, HeldBack, Nameless
  <2>7. QED BY <2>2, <2>3, <2>6 DEF NamesInv
<1>10. CASE PersonGoes
  <2>1. person' = Unnamed /\ UNCHANGED <<shot, mtime, bytes, read, enriched, extra, face, swapped>>
    BY <1>10 DEF PersonGoes
  <2>2. FaceTyped' BY <1>1, <2>1, NewFacts DEF FaceTyped
  <2>3. InTurn' BY <1>1, <2>1 DEF InTurn
  <2>4. enriched \in Nat BY <1>1, FaceAssumption DEF FaceTyped
  <2>5. Backed(Unnamed, enriched) BY <2>4, NewFacts
  <2>6. Tracks' BY <1>1, <2>1, <2>5 DEF Backed, Earned, Remembers, HeldBack, Nameless
  <2>7. QED BY <2>2, <2>3, <2>6 DEF NamesInv
<1>11. CASE UNCHANGED faceVars
  <2>1. FaceTyped' BY <1>1, <1>11 DEF faceVars, FaceTyped
  <2>2. InTurn' BY <1>1, <1>11 DEF faceVars, InTurn
  <2>3. Tracks' BY <1>1, <1>2, <1>11 DEF faceVars, FaceTyped
  <2>4. QED BY <2>1, <2>2, <2>3 DEF NamesInv
<1>12. QED BY <1>3, <1>4, <1>5, <1>6, <1>7, <1>8, <1>9, <1>10, <1>11 DEF FaceNext

LEMMA NamesAlways == FaceSpec => []NamesInv
PROOF BY NamesInitInv, NamesStepInv, PTL DEF FaceSpec

\* Every variable of the naming of faces keeps its type.
THEOREM FaceTypeCorrect == FaceSpec => []FaceTypeOK
PROOF
<1>1. NamesInv => FaceTypeOK
  BY DEF NamesInv, FaceTyped, FaceTypeOK, FaceTrack, Named, FoundIn
<1>2. QED BY <1>1, NamesAlways, PTL

\* Nobody is named from fewer snapshots than FACE_MATCH_HITS, and no face that its first reads
\* name is shown without the name before: for any number of them, of subjects and of snapshots.
THEOREM NamesAreEarned == FaceSpec => []FacesAreNamed
PROOF
<1>1. NamesInv => FacesAreNamed
  <2> SUFFICES ASSUME NamesInv PROVE FacesAreNamed OBVIOUS
  <2>1. NamedFromPictures BY DEF NamesInv, NamedFromPictures, Backed
  <2>2. HeldUntilNamed BY DEF NamesInv, HeldBack, Nameless, HeldUntilNamed
  <2>3. QED BY <2>1, <2>2 DEF FacesAreNamed
<1>2. QED BY <1>1, NamesAlways, PTL

-----------------------------------------------------------------------------
(***************************************************************************)
(* The face database: by the histories that say that downloads did not mix, *)
(* the file that has the name known.db is whole, and what is in memory is it. *)
(***************************************************************************)

Download == [at : {"no", "get", "write", "replace", "load", "set", "over"},
             fd : Inode \cup {NoInode}, read : Offer \cup {NoDb}]
Content == Offer \cup {NoDb, TornDb}
Downloading == {i \in Offer : download[i].at \notin {"no", "over"}}

DbTyped ==
  /\ offers \in 0..MaxOffers /\ download \in [Offer -> Download] /\ content \in [Inode -> Content]
  /\ dbTmp \in Inode \cup {NoInode} /\ dbFile \in Inode \cup {NoInode} /\ db \in Offer \cup {NoDb}
  /\ tried \in BOOLEAN /\ overlaps \in BOOLEAN /\ mixed \in BOOLEAN
  /\ lazy \in Download /\ lazy.at \in {"no", "set"}

\* A thread's inode is not in use before it opens it, and the two names are not of one inode: what
\* is written under the one name leaves the other's file alone.
Apart ==
  /\ \A i \in Offer : download[i].at \in {"no", "get"} => dbTmp # i /\ dbFile # i
  /\ \A i \in Offer : offers < i => download[i].at = "no"
  /\ dbTmp # NoInode => dbTmp # dbFile
  /\ \A i \in Offer : download[i].at = "load" => dbFile # NoInode

\* At most one at a time, as the histories say; it then writes the file that has the name.
OneByOne ==
  /\ ~mixed => \A i, j \in Downloading : i = j
  /\ ~overlaps => \A i, j \in DbBusy : i = j
  /\ ~mixed \/ ~overlaps => \A i \in Offer : download[i].at = "write" => download[i].fd = dbTmp

\* What it writes is whole, and so is what it replaces known.db with.
Whole ==
  ~mixed => /\ dbFile # NoInode => content[dbFile] \in Offer
            /\ \A i \in Offer : download[i].at = "write" => content[dbTmp] = NoDb
            /\ \A i \in Offer : download[i].at = "replace" /\ dbTmp # NoInode => content[dbTmp] \in Offer

\* A load has read what is in the file, and what was set is that, unless a new file is to be loaded.
OnFile == IF dbFile = NoInode THEN NoDb ELSE Loaded(content[dbFile])
InMemory ==
  ~overlaps => /\ \A i \in Offer : download[i].at = "set" => download[i].read = OnFile
               /\ lazy.at = "set" => lazy.read = OnFile
               /\ tried => db = OnFile \/ \E i \in Offer : download[i].at \in {"load", "set"}

FacesInv == DbTyped /\ Apart /\ OneByOne /\ Whole /\ InMemory

LEMMA NumberFacts ==
  /\ Nothing \in Download /\ Nothing.at = "no" /\ 0 \notin Offer /\ NoInode = 0 /\ NoDb = 0 /\ Inode = Offer
  /\ TornDb \notin Offer /\ TornDb # NoDb /\ Loaded(TornDb) = NoDb
  /\ \A c \in Content : Loaded(c) \in Offer \cup {NoDb}
  /\ \A c \in Offer \cup {NoDb} : Loaded(c) = c
PROOF BY OffersAssumption DEF Nothing, Download, NoInode, NoDb, TornDb, Offer, Inode, Content, Loaded

\* A thread takes a step: it is as it was but for at, fd and read.
LEMMA DownloadMoves ==
  ASSUME DbTyped, NEW i \in Offer, NEW r \in Download,
         \/ download' = [download EXCEPT ![i].at = r.at] /\ r.fd = download[i].fd /\ r.read = download[i].read
         \/ /\ download' = [download EXCEPT ![i].at = r.at, ![i].fd = r.fd] /\ r.read = download[i].read
         \/ /\ download' = [download EXCEPT ![i].at = r.at, ![i].read = r.read] /\ r.fd = download[i].fd
  PROVE  /\ download' \in [Offer -> Download] /\ download'[i] = r
         /\ download'[i].at = r.at /\ download'[i].fd = r.fd /\ download'[i].read = r.read
         /\ \A j \in Offer \ {i} : download'[j] = download[j]
PROOF
<1>1. download \in [Offer -> Download] /\ download[i] \in Download BY DEF DbTyped
<1>2. download[i] = [at |-> download[i].at, fd |-> download[i].fd, read |-> download[i].read]
      /\ r = [at |-> r.at, fd |-> r.fd, read |-> r.read]
  BY <1>1 DEF Download
<1>3. CASE download' = [download EXCEPT ![i].at = r.at] /\ r.fd = download[i].fd /\ r.read = download[i].read
  <2>1. download' = [download EXCEPT ![i] = [download[i] EXCEPT !.at = r.at]] BY <1>1, <1>3
  <2>2. [download[i] EXCEPT !.at = r.at] = r BY <1>2, <1>3
  <2>3. QED BY <1>1, <2>1, <2>2
<1>4. CASE download' = [download EXCEPT ![i].at = r.at, ![i].fd = r.fd] /\ r.read = download[i].read
  <2>1. download' = [download EXCEPT ![i] = [[download[i] EXCEPT !.at = r.at] EXCEPT !.fd = r.fd]] BY <1>1, <1>4
  <2>2. [[download[i] EXCEPT !.at = r.at] EXCEPT !.fd = r.fd] = r BY <1>2, <1>4
  <2>3. QED BY <1>1, <2>1, <2>2
<1>5. CASE download' = [download EXCEPT ![i].at = r.at, ![i].read = r.read] /\ r.fd = download[i].fd
  <2>1. download' = [download EXCEPT ![i] = [[download[i] EXCEPT !.at = r.at] EXCEPT !.read = r.read]] BY <1>1, <1>5
  <2>2. [[download[i] EXCEPT !.at = r.at] EXCEPT !.read = r.read] = r BY <1>2, <1>5
  <2>3. QED BY <1>1, <2>1, <2>2
<1>6. QED BY <1>3, <1>4, <1>5

LEMMA FacesInitInv == KnownFacesInit => FacesInv
PROOF
<1> SUFFICES ASSUME KnownFacesInit PROVE FacesInv OBVIOUS
<1> USE NumberFacts DEF KnownFacesInit
<1>1. DbTyped
  <2>1. 0 \in 0..MaxOffers BY OffersAssumption
  <2>2. content \in [Inode -> Content] BY DEF Content
  <2>3. QED BY <2>1, <2>2 DEF DbTyped
<1>2. Apart BY DEF Apart
<1>3. Downloading = {} /\ DbBusy = {} BY DEF Downloading, DbBusy
<1>4. OneByOne BY <1>3 DEF OneByOne
<1>5. Whole BY DEF Whole
<1>6. InMemory BY DEF InMemory
<1>7. QED BY <1>1, <1>2, <1>4, <1>5, <1>6 DEF FacesInv

\* Who is busy, when one thread is not busy any more or goes on.
LEMMA StaysBusy ==
  ASSUME NEW i \in Offer, i \in Downloading, lazy' = lazy,
         \A j \in Offer \ {i} : download'[j] = download[j]
  PROVE  Downloading' \subseteq Downloading /\ DbBusy' \subseteq DbBusy /\ i \in DbBusy
BY DEF Downloading, DbBusy

LEMMA OfferedInv == ASSUME FacesInv, Offered PROVE FacesInv'
PROOF
<1> USE NumberFacts DEF FacesInv
<1> DEFINE i == offers + 1
           r == [at |-> "get", fd |-> download[i].fd, read |-> download[i].read]
<1>1. /\ offers < MaxOffers /\ offers' = i /\ download' = [download EXCEPT ![i].at = "get"]
      /\ overlaps' = (overlaps \/ DbBusy # {}) /\ mixed' = (mixed \/ DbBusy \ {0} # {})
      /\ UNCHANGED <<content, dbTmp, dbFile, db, tried, lazy>>
  BY DEF Offered
<1>2. i \in Offer /\ i = offers + 1 /\ offers \in Nat /\ offers' \in 0..MaxOffers /\ Offer = 1..MaxOffers /\ MaxOffers \in Nat
  BY <1>1, OffersAssumption DEF DbTyped, Offer
<1> HIDE DEF i
<1>3. download[i].at = "no" /\ download[i] \in Download BY <1>2 DEF Apart, DbTyped
<1>4. r.at = "get" OBVIOUS
<1>5. r \in Download BY <1>3 DEF Download
<1>6. /\ download' \in [Offer -> Download]
      /\ download'[i].at = r.at /\ download'[i].fd = r.fd /\ download'[i].read = r.read
      /\ \A j \in Offer \ {i} : download'[j] = download[j]
  <2>1. download' = [download EXCEPT ![i].at = r.at] /\ r.fd = download[i].fd /\ r.read = download[i].read
    BY <1>1
  <2> HIDE DEF r
  <2>2. i \in Offer BY <1>2
  <2>3. QED BY <1>5, <2>1, <2>2, DownloadMoves
<1>7. DbTyped' BY <1>1, <1>2, <1>6 DEF DbTyped
<1>8. Apart' BY <1>1, <1>2, <1>3, <1>4, <1>6 DEF Apart
<1>9. Downloading \subseteq DbBusy \ {0} /\ Downloading' \subseteq Downloading \cup {i} /\ DbBusy' \subseteq DbBusy \cup {i}
  BY <1>1, <1>2, <1>6 DEF Downloading, DbBusy
<1>10. OneByOne'
  <2>1. ~mixed' => \A j, k \in Downloading' : j = k BY <1>1, <1>9
  <2>2. ~overlaps' => \A j, k \in DbBusy' : j = k BY <1>1, <1>9
  <2>3. ~mixed' \/ ~overlaps' => \A j \in Offer : download'[j].at = "write" => download'[j].fd = dbTmp'
    BY <1>1, <1>4, <1>6 DEF OneByOne
  <2>4. QED BY <2>1, <2>2, <2>3 DEF OneByOne
<1>11. Whole' BY <1>1, <1>4, <1>6 DEF Whole
<1>12. InMemory'
  <2>1. OnFile' = OnFile BY <1>1 DEF OnFile
  <2>2. ~overlaps' => /\ \A j \in Offer : download'[j].at = "set" => download'[j].read = OnFile
                      /\ lazy.at = "set" => lazy.read = OnFile
    BY <1>1, <1>4, <1>6 DEF InMemory
  <2>3. ~overlaps' /\ tried => db = OnFile BY <1>1 DEF InMemory, DbBusy
  <2>4. QED BY <1>1, <2>1, <2>2, <2>3 DEF InMemory
<1>13. QED BY <1>7, <1>8, <1>10, <1>11, <1>12

LEMMA NotGotInv == ASSUME FacesInv, NEW i \in Offer, NotGot(i) PROVE FacesInv'
PROOF
<1> USE NumberFacts DEF FacesInv
<1> DEFINE r == [at |-> "over", fd |-> download[i].fd, read |-> download[i].read]
<1>1. /\ download[i].at = "get" /\ download' = [download EXCEPT ![i].at = "over"]
      /\ UNCHANGED <<offers, content, dbTmp, dbFile, db, tried, lazy, overlaps, mixed>>
  BY DEF NotGot
<1>2. r \in Download BY DEF DbTyped, Download
<1>3. /\ download' \in [Offer -> Download]
      /\ download'[i].at = r.at /\ download'[i].fd = r.fd /\ download'[i].read = r.read
      /\ \A j \in Offer \ {i} : download'[j] = download[j]
  BY <1>1, <1>2, DownloadMoves
<1>4. i \in Downloading BY <1>1 DEF Downloading
<1>5. Downloading' \subseteq Downloading /\ DbBusy' \subseteq DbBusy BY <1>1, <1>3, <1>4, StaysBusy
<1>6. DbTyped' BY <1>1, <1>3 DEF DbTyped
<1>7. Apart' BY <1>1, <1>3 DEF Apart
<1>8. OneByOne' BY <1>1, <1>3, <1>5 DEF OneByOne
<1>9. Whole' BY <1>1, <1>3 DEF Whole
<1>10. InMemory'
  <2>1. OnFile' = OnFile BY <1>1 DEF OnFile
  <2>2. QED BY <1>1, <1>3, <2>1 DEF InMemory
<1>11. QED BY <1>6, <1>7, <1>8, <1>9, <1>10

LEMMA OpensTmpInv == ASSUME FacesInv, NEW i \in Offer, OpensTmp(i) PROVE FacesInv'
PROOF
<1> USE NumberFacts DEF FacesInv
<1> DEFINE fd == IF dbTmp = NoInode THEN i ELSE dbTmp
           r == [at |-> "write", fd |-> fd, read |-> download[i].read]
<1>1. /\ download[i].at = "get" /\ dbTmp' = fd /\ content' = [content EXCEPT ![fd] = NoDb]
      /\ download' = [download EXCEPT ![i].at = "write", ![i].fd = fd]
      /\ UNCHANGED <<offers, dbFile, db, tried, lazy, overlaps, mixed>>
  BY DEF OpensTmp
<1>2. fd \in Inode /\ fd # dbFile /\ (dbTmp # NoInode => fd = dbTmp) BY <1>1 DEF DbTyped, Apart
<1> HIDE DEF fd
<1>3. r \in Download BY <1>2 DEF DbTyped, Download
<1>4. /\ download' \in [Offer -> Download]
      /\ download'[i].at = r.at /\ download'[i].fd = r.fd /\ download'[i].read = r.read
      /\ \A j \in Offer \ {i} : download'[j] = download[j]
  BY <1>1, <1>3, DownloadMoves
<1>5. i \in Downloading BY <1>1 DEF Downloading
<1>6. Downloading' \subseteq Downloading /\ DbBusy' \subseteq DbBusy /\ i \in DbBusy BY <1>1, <1>4, <1>5, StaysBusy
<1>7. content' \in [Inode -> Content] /\ content'[fd] = NoDb /\ (dbFile # NoInode => content'[dbFile] = content[dbFile])
  BY <1>1, <1>2 DEF DbTyped, Content
<1>8. DbTyped' BY <1>1, <1>2, <1>4, <1>7 DEF DbTyped
<1>9. Apart'
  <2>1. ASSUME NEW j \in Offer, download'[j].at \in {"no", "get"} PROVE fd # j
    <3>1. j # i BY <1>4, <2>1
    <3>2. QED BY <1>4, <2>1, <3>1 DEF Apart, fd
  <2>2. QED BY <1>1, <1>2, <1>4, <2>1 DEF Apart
<1>10. ~mixed \/ ~overlaps => \A j \in Offer \ {i} : download[j].at \notin {"write", "replace"}
  BY <1>1, <1>5, <1>6 DEF OneByOne, Downloading, DbBusy
<1>11. OneByOne' BY <1>1, <1>4, <1>6, <1>10 DEF OneByOne
<1>12. Whole' BY <1>1, <1>4, <1>7, <1>10 DEF Whole
<1>13. InMemory'
  <2>1. OnFile' = OnFile BY <1>1, <1>7 DEF OnFile
  <2>2. QED BY <1>1, <1>4, <2>1 DEF InMemory
<1>14. QED BY <1>8, <1>9, <1>11, <1>12, <1>13

LEMMA WritesDbInv == ASSUME FacesInv, NEW i \in Offer, WritesDb(i) PROVE FacesInv'
PROOF
<1> USE NumberFacts DEF FacesInv
<1> DEFINE fd == download[i].fd
           meets == \/ content[fd] # NoDb
                    \/ \E j \in DbBusy \ {i, 0} : download[j].at = "write" /\ download[j].fd = fd
           r == [at |-> "replace", fd |-> fd, read |-> download[i].read]
<1>1. PICK c \in IF meets THEN {i, TornDb} ELSE {i} : content' = [content EXCEPT ![fd] = c]
  BY DEF WritesDb
<1>2. /\ download[i].at = "write" /\ download' = [download EXCEPT ![i].at = "replace"]
      /\ UNCHANGED <<offers, dbTmp, dbFile, db, tried, lazy, overlaps, mixed>>
  BY DEF WritesDb
<1>3. r \in Download BY DEF DbTyped, Download
<1>4. /\ download' \in [Offer -> Download]
      /\ download'[i].at = r.at /\ download'[i].fd = r.fd /\ download'[i].read = r.read
      /\ \A j \in Offer \ {i} : download'[j] = download[j]
  BY <1>2, <1>3, DownloadMoves
<1>5. i \in Downloading BY <1>2 DEF Downloading
<1>6. Downloading' \subseteq Downloading /\ DbBusy' \subseteq DbBusy /\ i \in DbBusy BY <1>2, <1>4, <1>5, StaysBusy
<1>7. ~mixed \/ ~overlaps =>
        /\ fd = dbTmp /\ \A j \in Offer \ {i} : download[j].at \notin {"write", "replace"}
  BY <1>2, <1>5, <1>6 DEF OneByOne, Downloading, DbBusy
<1>8. ~mixed => ~meets
  <2> SUFFICES ASSUME ~mixed PROVE ~meets OBVIOUS
  <2>1. content[fd] = NoDb BY <1>2, <1>7 DEF Whole
  <2>2. ASSUME NEW j \in DbBusy \ {i, 0} PROVE j \in Offer \ {i} BY <2>2 DEF DbBusy
  <2>3. QED BY <1>7, <2>1, <2>2
<1> HIDE DEF meets
<1>9. content' \in [Inode -> Content] /\ \A k \in Inode \ {fd} : content'[k] = content[k]
  BY <1>1 DEF DbTyped, Content
<1>10. ~mixed /\ fd \in Inode => content'[fd] \in Offer BY <1>1, <1>8 DEF DbTyped
<1>11. DbTyped' BY <1>2, <1>4, <1>9 DEF DbTyped
<1>12. Apart' BY <1>2, <1>4 DEF Apart
<1>13. OneByOne' BY <1>2, <1>4, <1>6, <1>7 DEF OneByOne
<1>14. ~mixed \/ ~overlaps => (dbFile # NoInode => content'[dbFile] = content[dbFile])
  BY <1>7, <1>9 DEF Apart, DbTyped
<1>15. Whole' BY <1>2, <1>4, <1>7, <1>10, <1>14 DEF Whole, DbTyped
<1>16. InMemory'
  <2>1. ~overlaps => OnFile' = OnFile BY <1>2, <1>14 DEF OnFile
  <2>2. QED BY <1>2, <1>4, <2>1 DEF InMemory
<1>17. QED BY <1>11, <1>12, <1>13, <1>15, <1>16

LEMMA ReplacesDbInv == ASSUME FacesInv, NEW i \in Offer, ReplacesDb(i) PROVE FacesInv'
PROOF
<1> USE NumberFacts DEF FacesInv
<1> DEFINE at == IF dbTmp = NoInode THEN "over" ELSE "load"
           r == [at |-> at, fd |-> download[i].fd, read |-> download[i].read]
<1>1. /\ download[i].at = "replace" /\ download' = [download EXCEPT ![i].at = at]
      /\ dbFile' = (IF dbTmp = NoInode THEN dbFile ELSE dbTmp) /\ dbTmp' = NoInode
      /\ UNCHANGED <<offers, content, db, tried, lazy, overlaps, mixed>>
  BY DEF ReplacesDb
<1>2. r \in Download BY DEF DbTyped, Download
<1>3. /\ download' \in [Offer -> Download]
      /\ download'[i].at = r.at /\ download'[i].fd = r.fd /\ download'[i].read = r.read
      /\ \A j \in Offer \ {i} : download'[j] = download[j]
  BY <1>1, <1>2, DownloadMoves
<1>4. i \in Downloading BY <1>1 DEF Downloading
<1>5. Downloading' \subseteq Downloading /\ DbBusy' \subseteq DbBusy /\ i \in DbBusy BY <1>1, <1>3, <1>4, StaysBusy
<1>6. ~mixed \/ ~overlaps => \A j \in Offer \ {i} : download[j].at \in {"no", "over"}
  BY <1>4, <1>5 DEF OneByOne, Downloading, DbBusy
<1>7. DbTyped' BY <1>1, <1>3 DEF DbTyped
<1>8. Apart' BY <1>1, <1>3 DEF Apart
<1>9. OneByOne' BY <1>1, <1>3, <1>5, <1>6 DEF OneByOne
<1>10. Whole' BY <1>1, <1>3, <1>6 DEF Whole
<1>11. InMemory'
  <2> SUFFICES ASSUME ~overlaps
               PROVE  /\ \A j \in Offer : download'[j].at = "set" => download'[j].read = OnFile'
                      /\ lazy'.at = "set" => lazy'.read = OnFile'
                      /\ tried' => db' = OnFile' \/ \E j \in Offer : download'[j].at \in {"load", "set"}
    BY <1>1 DEF InMemory
  <2>1. \A j \in Offer : download'[j].at # "set" BY <1>3, <1>6
  <2>2. lazy.at # "set"
    <3>1. i # 0 /\ (lazy.at = "set" => 0 \in DbBusy) BY DEF DbBusy
    <3>2. QED BY <1>5, <3>1 DEF OneByOne
  <2>3. CASE dbTmp # NoInode BY <1>1, <1>3, <2>1, <2>2, <2>3
  <2>4. CASE dbTmp = NoInode
    <3>1. OnFile' = OnFile BY <1>1, <2>4 DEF OnFile
    <3>2. \A j \in Offer : download[j].at \notin {"load", "set"} BY <1>1, <1>6
    <3>3. QED BY <1>1, <2>1, <2>2, <3>1, <3>2 DEF InMemory
  <2>5. QED BY <2>3, <2>4
<1>12. QED BY <1>7, <1>8, <1>9, <1>10, <1>11

LEMMA LoadsDbInv == ASSUME FacesInv, NEW i \in Offer, LoadsDb(i) \/ SetsDb(i) PROVE FacesInv'
PROOF
<1> USE NumberFacts DEF FacesInv
<1>1. CASE LoadsDb(i)
  <2> DEFINE r == [at |-> "set", fd |-> download[i].fd, read |-> Loaded(content[dbFile])]
  <2>1. /\ download[i].at = "load"
        /\ download' = [download EXCEPT ![i].at = "set", ![i].read = Loaded(content[dbFile])]
        /\ UNCHANGED <<offers, content, dbTmp, dbFile, db, tried, lazy, overlaps, mixed>>
    BY <1>1 DEF LoadsDb
  <2>2. dbFile \in Inode /\ Loaded(content[dbFile]) \in Offer \cup {NoDb} BY <2>1 DEF DbTyped, Apart
  <2>3. r \in Download BY <2>2 DEF DbTyped, Download
  <2>4. /\ download' \in [Offer -> Download]
        /\ download'[i].at = r.at /\ download'[i].fd = r.fd /\ download'[i].read = r.read
        /\ \A j \in Offer \ {i} : download'[j] = download[j]
    BY <2>1, <2>3, DownloadMoves
  <2>5. i \in Downloading BY <2>1 DEF Downloading
  <2>6. Downloading' \subseteq Downloading /\ DbBusy' \subseteq DbBusy BY <2>1, <2>4, <2>5, StaysBusy
  <2>7. DbTyped' BY <2>1, <2>4 DEF DbTyped
  <2>8. Apart' BY <2>1, <2>4 DEF Apart
  <2>9. OneByOne' BY <2>1, <2>4, <2>6 DEF OneByOne
  <2>10. Whole' BY <2>1, <2>4 DEF Whole
  <2>11. InMemory'
    <3>1. OnFile' = OnFile /\ r.read = OnFile BY <2>1, <2>2 DEF OnFile
    <3>2. QED BY <2>1, <2>4, <3>1 DEF InMemory
  <2>12. QED BY <2>7, <2>8, <2>9, <2>10, <2>11
<1>2. CASE SetsDb(i)
  <2> DEFINE r == [at |-> "over", fd |-> download[i].fd, read |-> download[i].read]
  <2>1. /\ download[i].at = "set" /\ download' = [download EXCEPT ![i].at = "over"]
        /\ db' = download[i].read /\ tried' = TRUE
        /\ UNCHANGED <<offers, content, dbTmp, dbFile, lazy, overlaps, mixed>>
    BY <1>2 DEF SetsDb
  <2>2. r \in Download /\ db' \in Offer \cup {NoDb} BY <2>1 DEF DbTyped, Download
  <2>3. /\ download' \in [Offer -> Download]
        /\ download'[i].at = r.at /\ download'[i].fd = r.fd /\ download'[i].read = r.read
        /\ \A j \in Offer \ {i} : download'[j] = download[j]
    BY <2>1, <2>2, DownloadMoves
  <2>4. i \in Downloading BY <2>1 DEF Downloading
  <2>5. Downloading' \subseteq Downloading /\ DbBusy' \subseteq DbBusy BY <2>1, <2>3, <2>4, StaysBusy
  <2>6. DbTyped' BY <2>1, <2>2, <2>3 DEF DbTyped
  <2>7. Apart' BY <2>1, <2>3 DEF Apart
  <2>8. OneByOne' BY <2>1, <2>3, <2>5 DEF OneByOne
  <2>9. Whole' BY <2>1, <2>3 DEF Whole
  <2>10. InMemory'
    <3>1. OnFile' = OnFile BY <2>1 DEF OnFile
    <3>2. QED BY <2>1, <2>3, <3>1 DEF InMemory
  <2>11. QED BY <2>6, <2>7, <2>8, <2>9, <2>10
<1>3. QED BY <1>1, <1>2

LEMMA LazyInv == ASSUME FacesInv, LazyLoads \/ LazySets \/ Restarts PROVE FacesInv'
PROOF
<1> USE NumberFacts DEF FacesInv
<1>1. CASE LazyLoads
  <2>1. /\ lazy.at = "no" /\ ~tried /\ overlaps' = (overlaps \/ DbBusy # {})
        /\ lazy' = [lazy EXCEPT !.at = "set", !.read = OnFile]
        /\ UNCHANGED <<offers, download, content, dbTmp, dbFile, db, tried, mixed>>
    BY <1>1 DEF LazyLoads, OnFile
  <2>2. OnFile \in Offer \cup {NoDb} BY DEF DbTyped, OnFile
  <2>3. lazy' = [at |-> "set", fd |-> lazy.fd, read |-> OnFile]
    <3>1. lazy = [at |-> lazy.at, fd |-> lazy.fd, read |-> lazy.read] BY DEF DbTyped, Download
    <3>2. QED BY <2>1, <3>1
  <2>4. DbTyped' BY <2>1, <2>2, <2>3 DEF DbTyped, Download
  <2>5. Apart' BY <2>1 DEF Apart
  <2>6. DbBusy' = DbBusy \cup {0} /\ Downloading' = Downloading BY <2>1, <2>3 DEF DbBusy, Downloading
  <2>7. OneByOne' BY <2>1, <2>6 DEF OneByOne
  <2>8. Whole' BY <2>1 DEF Whole
  <2>9. InMemory'
    <3>1. OnFile' = OnFile BY <2>1 DEF OnFile
    <3>2. QED BY <2>1, <2>3, <3>1 DEF InMemory
  <2>10. QED BY <2>4, <2>5, <2>7, <2>8, <2>9
<1>2. CASE LazySets
  <2>1. /\ lazy.at = "set" /\ db' = lazy.read /\ tried' = TRUE /\ lazy' = Nothing
        /\ UNCHANGED <<offers, download, content, dbTmp, dbFile, overlaps, mixed>>
    BY <1>2 DEF LazySets
  <2>2. DbTyped' BY <2>1 DEF DbTyped, Download
  <2>3. Apart' BY <2>1 DEF Apart
  <2>4. DbBusy' \subseteq DbBusy /\ Downloading' = Downloading BY <2>1 DEF DbBusy, Downloading
  <2>5. OneByOne' BY <2>1, <2>4 DEF OneByOne
  <2>6. Whole' BY <2>1 DEF Whole
  <2>7. InMemory'
    <3>1. OnFile' = OnFile BY <2>1 DEF OnFile
    <3>2. QED BY <2>1, <3>1 DEF InMemory
  <2>8. QED BY <2>2, <2>3, <2>5, <2>6, <2>7
<1>3. CASE Restarts
  <2>1. /\ download' = [i \in Offer |-> IF i <= offers THEN [Nothing EXCEPT !.at = "over"] ELSE Nothing]
        /\ db' = NoDb /\ tried' = FALSE /\ lazy' = Nothing /\ overlaps' = FALSE
        /\ UNCHANGED <<offers, content, dbTmp, dbFile, mixed>>
    BY <1>3 DEF Restarts
  <2>2. [Nothing EXCEPT !.at = "over"] = [at |-> "over", fd |-> NoInode, read |-> NoDb] BY DEF Nothing
  <2>3. \A i \in Offer : download'[i] \in Download /\ download'[i].at = IF i <= offers THEN "over" ELSE "no"
    BY <2>1, <2>2 DEF Download
  <2>4. DbTyped' BY <2>1, <2>3 DEF DbTyped
  <2>5. Apart'
    <3>1. \A i \in Offer : offers < i => ~(i <= offers) BY OffersAssumption DEF DbTyped, Offer
    <3>2. \A i \in Offer : ~(i <= offers) => offers < i BY OffersAssumption DEF DbTyped, Offer
    <3>3. \A i \in Offer : download'[i].at \in {"no", "get"} => dbTmp # i /\ dbFile # i
      BY <2>3, <3>2 DEF Apart
    <3>4. QED BY <2>1, <2>3, <3>1, <3>3 DEF Apart
  <2>6. DbBusy' = {} /\ Downloading' = {} BY <2>1, <2>3 DEF DbBusy, Downloading
  <2>7. \A i \in Offer : download'[i].at \notin {"write", "replace", "load", "set"} BY <2>3
  <2>8. OneByOne' BY <2>6, <2>7 DEF OneByOne
  <2>9. Whole' BY <2>1, <2>7 DEF Whole
  <2>10. InMemory' BY <2>1, <2>7 DEF InMemory
  <2>11. QED BY <2>4, <2>5, <2>8, <2>9, <2>10
<1>4. QED BY <1>1, <1>2, <1>3

LEMMA FacesAlways == KnownFacesSpec => []FacesInv
PROOF
<1>1. FacesInv /\ [KnownFacesNext]_faceDbVars => FacesInv'
  <2> SUFFICES ASSUME FacesInv, [KnownFacesNext]_faceDbVars PROVE FacesInv' OBVIOUS
  <2>1. ASSUME NEW i \in Offer,
               NotGot(i) \/ OpensTmp(i) \/ WritesDb(i) \/ ReplacesDb(i) \/ LoadsDb(i) \/ SetsDb(i)
        PROVE  FacesInv'
    BY <2>1, NotGotInv, OpensTmpInv, WritesDbInv, ReplacesDbInv, LoadsDbInv
  <2>2. CASE Offered \/ LazyLoads \/ LazySets \/ Restarts BY <2>2, OfferedInv, LazyInv
  <2>3. CASE UNCHANGED faceDbVars
    <3>1. DbTyped' /\ Apart' BY <2>3 DEF faceDbVars, FacesInv, DbTyped, Apart
    <3>2. OneByOne' BY <2>3 DEF faceDbVars, FacesInv, OneByOne, Downloading, DbBusy
    <3>3. Whole' BY <2>3 DEF faceDbVars, FacesInv, Whole
    <3>4. InMemory' BY <2>3 DEF faceDbVars, FacesInv, InMemory, OnFile
    <3>5. QED BY <3>1, <3>2, <3>3, <3>4 DEF FacesInv
  <2>4. QED BY <2>1, <2>2, <2>3 DEF KnownFacesNext
<1>2. QED BY <1>1, FacesInitInv, PTL DEF KnownFacesSpec

\* Every variable of the face database keeps its type.
THEOREM KnownFacesTypeCorrect == KnownFacesSpec => []KnownFacesTypeOK
PROOF
<1>1. FacesInv => KnownFacesTypeOK
  BY NumberFacts DEF FacesInv, DbTyped, KnownFacesTypeOK, Download, Content
<1>2. QED BY <1>1, FacesAlways, PTL

\* Faces are matched against the database that was saved, and that is a whole one, for any number of
\* messages, downloads that fail and restarts, as long as downloads and loads come one after another.
THEOREM SavedFacesAreKnown == KnownFacesSpec => []FacesAreThoseSaved
PROOF
<1>1. FacesInv => FacesAreThoseSaved
  <2> SUFFICES ASSUME FacesInv PROVE FacesAreThoseSaved OBVIOUS
  <2>1. MemoryIsTheFile BY DEF FacesInv, InMemory, MemoryIsTheFile, OnFile, DbBusy
  <2>2. FileIsWhole BY DEF FacesInv, Whole, FileIsWhole
  <2>3. QED BY <2>1, <2>2 DEF FacesAreThoseSaved
<1>2. QED BY <1>1, FacesAlways, PTL

=================================================================================
