---------------------------- MODULE OnvifPushProofs ----------------------------
(***************************************************************************)
(* Proofs about OnvifPush, for any channels, sources and destinations.     *)
(*                                                                         *)
(* The manager's table and the threads agree (PushesAreOwned), and what    *)
(* the table holds is what Protect asked for last (ResumesAsAsked).  The   *)
(* invariant adds that the wanted destinations are the ones asked for, and *)
(* that a channel's push is one of that channel.                           *)
(***************************************************************************)
EXTENDS OnvifPush, TLAPS

OfChannel == \A c \in Channel : pushes[c] # NoPush => pushes[c] \in Push /\ pushes[c][1] = c

PushInv == PushTypeOK /\ asked = wanted /\ OfChannel /\ PushesAreOwned /\ ResumesAsAsked

LEMMA PushInitInv == PushInit => PushInv
PROOF
<1> SUFFICES ASSUME PushInit PROVE PushInv OBVIOUS
<1> USE NoneAssumption
<1>1. PushTypeOK
  <2>1. stop \in [Push -> BOOLEAN] BY Zenon DEF PushInit
  <2>2. QED BY <2>1 DEF PushInit, PushTypeOK
<1>2. OfChannel BY DEF PushInit, OfChannel
<1>3. PushesAreOwned BY DEF PushInit, PushesAreOwned, Push
<1>4. ResumesAsAsked BY DEF PushInit, ResumesAsAsked
<1>5. asked = wanted BY DEF PushInit
<1>6. QED BY <1>1, <1>2, <1>3, <1>4, <1>5 DEF PushInv

\* Every operation that ends in _sync leaves the table as wanted.
LEMMA SyncInv ==
  ASSUME PushInv,
         NEW src \in Url \cup {NoUrl},
         NEW want \in [Channel -> Destination \cup {NoDestination}],
         Sync(src, want), source' = src, wanted' = want, asked' = want
  PROVE  PushInv'
PROOF
<1> DEFINE target == [c \in Channel |-> IF src = NoUrl THEN NoDestination ELSE want[c]]
           kept == {c \in Channel : /\ pushes[c] # NoPush /\ target[c] # NoDestination
                                    /\ given[pushes[c]] = <<src, target[c]>>}
           started == {c \in Channel \ kept : target[c] \in Good}
           stopped == {pushes[c] : c \in Channel \ kept} \ {NoPush}
           new(slot) == {<<c, slot[c]>> : c \in started}
           FreeSlot == [c \in Channel |-> CHOOSE s \in FreeSlots(c) : TRUE]
<1>1. PICK slot :
        /\ \A c \in started : slot[c] \in Slot
        /\ pushes' = [c \in Channel |-> IF c \in kept THEN pushes[c]
                                        ELSE IF c \in started THEN <<c, slot[c]>> ELSE NoPush]
        /\ thread' = [p \in Push |-> IF p \in new(slot) THEN "looping" ELSE thread[p]]
        /\ given' = [p \in Push |-> IF p \in new(slot) THEN <<src, target[p[1]]>> ELSE given[p]]
        /\ stop' = [p \in Push |-> p \notin new(slot) /\ (stop[p] \/ p \in stopped)]
        /\ ffmpeg' = [p \in Push |-> IF p \in new(slot) THEN "none"
                                     ELSE IF p \in stopped /\ ffmpeg[p] = "running" THEN "ended"
                                     ELSE ffmpeg[p]]
  <2>1. \A c \in started : FreeSlot[c] \in FreeSlots(c) BY DEF Sync
  <2>2. \A c \in started : FreeSlot[c] \in Slot BY <2>1 DEF FreeSlots
  <2>3. QED BY <2>2 DEF Sync
<1> DEFINE N == new(slot)
<1>2. target \in [Channel -> Destination \cup {NoDestination}] OBVIOUS
<1>3. \A c \in started : <<c, slot[c]>> \in Push /\ <<c, slot[c]>>[1] = c BY <1>1 DEF Push
<1>4. \A p \in N : p \in Push /\ p[1] \in started /\ p = <<p[1], slot[p[1]]>> BY <1>3
<1>5. \A c \in started : <<c, slot[c]>> \in N OBVIOUS
<1>6. \A c \in Channel : pushes[c] # NoPush => pushes[c] \in Push /\ pushes[c][1] = c
  BY DEF PushInv, OfChannel
<1>7. \A p \in Push : p[1] \in Channel BY DEF Push
<1> HIDE DEF N, new, target, kept, started, stopped
<1>8. PushTypeOK'
  <2>1. pushes' \in [Channel -> Push \cup {NoPush}]
    BY <1>1, <1>3, <1>6
  <2>2. thread' \in [Push -> {"none", "looping", "connecting", "pushing"}]
    BY <1>1 DEF PushInv, PushTypeOK
  <2>3. ffmpeg' \in [Push -> {"none", "running", "ended"}]
    BY <1>1 DEF PushInv, PushTypeOK
  <2>4. stop' \in [Push -> BOOLEAN]
    BY <1>1, Zenon
  <2>5. given' \in [Push -> (Url \cup {NoUrl}) \X (Destination \cup {NoDestination})]
    <3>1. \A p \in Push : <<src, target[p[1]]>> \in
                            (Url \cup {NoUrl}) \X (Destination \cup {NoDestination})
      BY <1>2, <1>7
    <3>2. QED BY <1>1, <3>1 DEF PushInv, PushTypeOK
  <2>6. QED BY <2>1, <2>2, <2>3, <2>4, <2>5 DEF PushTypeOK
<1>9. OfChannel' BY <1>1, <1>3, <1>6 DEF OfChannel
<1>10. PushesAreOwned'
  <2> SUFFICES ASSUME NEW p \in Push
               PROVE  (thread'[p] # "none" /\ ~stop'[p]) <=> pushes'[p[1]] = p
    BY DEF PushesAreOwned
  <2>0. p[1] \in Channel BY <1>7
  <2>1. (thread[p] # "none" /\ ~stop[p]) <=> pushes[p[1]] = p BY DEF PushInv, PushesAreOwned
  <2>2. CASE p \in N
    <3>1. p[1] \in started /\ p = <<p[1], slot[p[1]]>> BY <2>2, <1>4
    <3>2. p[1] \notin kept BY <3>1 DEF started
    <3>3. pushes'[p[1]] = p BY <1>1, <2>0, <3>1, <3>2
    <3>4. thread'[p] # "none" BY <1>1, <2>2 DEF N
    <3>5. ~stop'[p] BY <1>1, <2>2 DEF N
    <3>6. QED BY <3>3, <3>4, <3>5
  <2>3. CASE p \notin N
    <3>1. thread'[p] = thread[p] BY <1>1, <2>3 DEF N
    <3>2. stop'[p] <=> (stop[p] \/ p \in stopped) BY <1>1, <2>3 DEF N
    <3>3. p # NoPush BY NoneAssumption DEF Push
    <3>4. p[1] \in kept => p \notin stopped
      <4>1. ASSUME p[1] \in kept, NEW c \in Channel \ kept, p = pushes[c] PROVE FALSE
        BY <4>1, <1>6, <3>3
      <4>2. QED BY <4>1 DEF stopped
    <3>5. p[1] \notin kept /\ pushes[p[1]] = p => p \in stopped
      BY <2>0, <3>3 DEF stopped
    <3>6. p[1] \in kept => pushes'[p[1]] = pushes[p[1]] BY <1>1, <2>0
    <3>7. p[1] \notin kept => pushes'[p[1]] # p
      <4>1. CASE p[1] \in started
        <5>1. <<p[1], slot[p[1]]>> \in N BY <4>1, <1>5
        <5>2. p # <<p[1], slot[p[1]]>> BY <5>1, <2>3
        <5>3. QED BY <1>1, <2>0, <4>1, <5>2
      <4>2. CASE p[1] \notin started BY <1>1, <2>0, <4>2, <3>3
      <4>3. QED BY <4>1, <4>2
    <3>8. QED BY <2>1, <3>1, <3>2, <3>4, <3>5, <3>6, <3>7
  <2>4. QED BY <2>2, <2>3
<1>11. ResumesAsAsked'
  <2> SUFFICES ASSUME NEW c \in Channel
               PROVE  IF src # NoUrl /\ want[c] \in Good
                      THEN pushes'[c] # NoPush /\ given'[pushes'[c]] = <<src, want[c]>>
                      ELSE pushes'[c] = NoPush
    BY DEF ResumesAsAsked
  <2>1. target[c] = IF src = NoUrl THEN NoDestination ELSE want[c] BY DEF target
  <2>2. NoDestination \notin Good BY NoneAssumption DEF Good
  <2>3. CASE c \in kept
    <3>1. pushes[c] # NoPush /\ given[pushes[c]] = <<src, target[c]>> /\ target[c] # NoDestination
      BY <2>3 DEF kept
    <3>2. pushes'[c] = pushes[c] BY <1>1, <2>3
    <3>3. pushes[c] \in Push /\ pushes[c][1] = c BY <1>6, <3>1
    <3>4. pushes[c] \notin N
      <4>1. c \notin started BY <2>3 DEF started
      <4>2. QED BY <4>1, <1>4, <3>3
    <3>5. given'[pushes'[c]] = <<src, target[c]>> BY <1>1, <3>1, <3>2, <3>3, <3>4 DEF N
    <3>6. target[c] \in Good
      <4>1. source # NoUrl /\ asked[c] \in Good /\ given[pushes[c]] = <<source, asked[c]>>
        BY <3>1 DEF PushInv, ResumesAsAsked
      <4>2. QED BY <4>1, <3>1
    <3>7. QED BY <2>1, <2>2, <3>1, <3>2, <3>5, <3>6
  <2>4. CASE c \in started
    <3>1. c \notin kept /\ target[c] \in Good BY <2>4 DEF started
    <3>2. pushes'[c] = <<c, slot[c]>> BY <1>1, <2>4, <3>1
    <3>3. <<c, slot[c]>> \in N /\ <<c, slot[c]>> \in Push /\ <<c, slot[c]>>[1] = c
      BY <1>3, <1>5, <2>4
    <3>4. given'[<<c, slot[c]>>] = <<src, target[c]>> BY <1>1, <3>3 DEF N
    <3>5. <<c, slot[c]>> # NoPush BY <3>3, NoneAssumption DEF Push
    <3>6. QED BY <2>1, <2>2, <3>1, <3>2, <3>4, <3>5
  <2>5. CASE c \notin kept /\ c \notin started
    <3>1. pushes'[c] = NoPush BY <1>1, <2>5
    <3>2. target[c] \notin Good BY <2>5 DEF started
    <3>3. QED BY <2>1, <3>1, <3>2
  <2>6. QED BY <2>3, <2>4, <2>5
<1>12. QED BY <1>8, <1>9, <1>10, <1>11 DEF PushInv

LEMMA PushNextInv == PushInv /\ [PushNext]_pushVars => PushInv'
PROOF
<1> SUFFICES ASSUME PushInv, [PushNext]_pushVars PROVE PushInv' OBVIOUS
<1>0. /\ source \in Url \cup {NoUrl}
      /\ wanted \in [Channel -> Destination \cup {NoDestination}]
      /\ asked = wanted
  BY DEF PushInv, PushTypeOK
<1>1. CASE SetSource
  <2>1. PICK u \in Url : source' = u /\ Sync(u, wanted) /\ UNCHANGED <<wanted, asked>>
    BY <1>1 DEF SetSource
  <2>2. QED BY <1>0, <2>1, SyncInv
<1>2. CASE StopDevice
  <2>1. source' = NoUrl /\ Sync(NoUrl, wanted) /\ wanted' = wanted /\ asked' = wanted
    BY <1>0, <1>2 DEF StopDevice
  <2>2. QED BY <1>0, <2>1, SyncInv
<1>3. CASE Configure
  <2>1. PICK video \in [Channel -> Destination \cup {NoDestination, Untouched}] :
          /\ wanted' = [c \in Channel |-> IF video[c] = Untouched THEN wanted[c] ELSE video[c]]
          /\ asked' = [c \in Channel |-> IF video[c] = Untouched THEN asked[c] ELSE video[c]]
          /\ Sync(source, wanted')
          /\ UNCHANGED source
    BY <1>3 DEF Configure
  <2> DEFINE want == [c \in Channel |-> IF video[c] = Untouched THEN wanted[c] ELSE video[c]]
  <2>2. want \in [Channel -> Destination \cup {NoDestination}] BY <1>0
  <2>3. wanted' = want /\ asked' = want /\ source' = source /\ Sync(source, want)
    BY <1>0, <2>1
  <2> HIDE DEF want
  <2>4. QED BY <1>0, <2>2, <2>3, SyncInv
<1>4. CASE StopAllPushes
  <2> USE <1>4 DEF StopAllPushes, StopPushes
  <2>1. PushTypeOK'
    <3>1. stop' \in [Push -> BOOLEAN] BY Zenon
    <3>2. ffmpeg' \in [Push -> {"none", "running", "ended"}] BY DEF PushInv, PushTypeOK
    <3>3. QED BY <3>1, <3>2 DEF PushInv, PushTypeOK
  <2>2. OfChannel' BY DEF OfChannel
  <2>3. PushesAreOwned'
    <3> SUFFICES ASSUME NEW p \in Push
                 PROVE  (thread'[p] # "none" /\ ~stop'[p]) <=> pushes'[p[1]] = p
      BY DEF PushesAreOwned
    <3>1. p[1] \in Channel /\ p # NoPush BY NoneAssumption DEF Push
    <3>2. (thread[p] # "none" /\ ~stop[p]) <=> pushes[p[1]] = p BY DEF PushInv, PushesAreOwned
    <3>3. pushes[p[1]] = p => stop'[p] BY <3>1
    <3>4. stop[p] => stop'[p] OBVIOUS
    <3>5. QED BY <3>1, <3>2, <3>3, <3>4
  <2>4. ResumesAsAsked' BY DEF ResumesAsAsked
  <2>5. QED BY <2>1, <2>2, <2>3, <2>4 DEF PushInv
<1>5. ASSUME NEW p \in Push, Loop(p) PROVE PushInv'
  <2> USE <1>5 DEF Loop, managerVars
  <2>1. PushTypeOK' BY DEF PushInv, PushTypeOK
  <2>2. OfChannel' BY DEF PushInv, OfChannel
  <2>3. PushesAreOwned' BY DEF PushInv, PushTypeOK, PushesAreOwned
  <2>4. ResumesAsAsked' BY DEF PushInv, ResumesAsAsked
  <2>5. QED BY <2>1, <2>2, <2>3, <2>4 DEF PushInv
<1>6. ASSUME NEW p \in Push, Connect(p) PROVE PushInv'
  <2> USE <1>6 DEF Connect, managerVars
  <2>1. PushTypeOK' BY DEF PushInv, PushTypeOK
  <2>2. OfChannel' BY DEF PushInv, OfChannel
  <2>3. PushesAreOwned' BY DEF PushInv, PushTypeOK, PushesAreOwned
  <2>4. ResumesAsAsked' BY DEF PushInv, ResumesAsAsked
  <2>5. QED BY <2>1, <2>2, <2>3, <2>4 DEF PushInv
<1>7. ASSUME NEW p \in Push, ConnectFails(p) PROVE PushInv'
  <2> USE <1>7 DEF ConnectFails, managerVars
  <2>1. PushTypeOK' BY DEF PushInv, PushTypeOK
  <2>2. OfChannel' BY DEF PushInv, OfChannel
  <2>3. PushesAreOwned' BY DEF PushInv, PushTypeOK, PushesAreOwned
  <2>4. ResumesAsAsked' BY DEF PushInv, ResumesAsAsked
  <2>5. QED BY <2>1, <2>2, <2>3, <2>4 DEF PushInv
<1>8. ASSUME NEW p \in Push, SourceEnds(p) PROVE PushInv'
  BY <1>8 DEF SourceEnds, managerVars, PushInv, PushTypeOK, OfChannel, PushesAreOwned, ResumesAsAsked
<1>9. ASSUME NEW p \in Push, PushEnds(p) PROVE PushInv'
  <2> USE <1>9 DEF PushEnds, managerVars
  <2>1. PushTypeOK' BY DEF PushInv, PushTypeOK
  <2>2. OfChannel' BY DEF PushInv, OfChannel
  <2>3. PushesAreOwned' BY DEF PushInv, PushTypeOK, PushesAreOwned
  <2>4. ResumesAsAsked' BY DEF PushInv, ResumesAsAsked
  <2>5. QED BY <2>1, <2>2, <2>3, <2>4 DEF PushInv
<1>10. CASE UNCHANGED pushVars
  BY <1>10 DEF pushVars, PushInv, PushTypeOK, OfChannel, PushesAreOwned, ResumesAsAsked
<1>11. QED BY <1>1, <1>2, <1>3, <1>4, <1>5, <1>6, <1>7, <1>8, <1>9, <1>10 DEF PushNext

\* The invariant holds for any channels, sources and destinations.
THEOREM PushInvariance == PushSpec => []PushInv
PROOF BY PushInitInv, PushNextInv, PTL DEF PushSpec

\* Every variable keeps its type.
THEOREM PushTypeCorrect == PushSpec => []PushTypeOK
PROOF
<1>1. PushInv => PushTypeOK BY DEF PushInv
<1>2. QED BY <1>1, PushInvariance, PTL

\* No push goes on that the manager has lost track of, and none it counts on has ended.
THEOREM PushesHaveOwners == PushSpec => []PushesAreOwned
PROOF
<1>1. PushInv => PushesAreOwned BY DEF PushInv
<1>2. QED BY <1>1, PushInvariance, PTL

\* A camera with a source is pushed to the destinations Protect asked for last.
THEOREM PushesResume == PushSpec => []ResumesAsAsked
PROOF
<1>1. PushInv => ResumesAsAsked BY DEF PushInv
<1>2. QED BY <1>1, PushInvariance, PTL
=============================================================================
