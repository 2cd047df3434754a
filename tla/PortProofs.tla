------------------------------- MODULE PortProofs -------------------------------
(***************************************************************************)
(* Proofs about the parts of a port that the settings, the messages and    *)
(* the pictures go through:                                                *)
(*   Adoption       the adoption is whole, its token goes out once, and a  *)
(*                  connection claims none that is not there;              *)
(*   Instances      registry and units agree at rest, and destroyed is gone;*)
(*   Delivery       a leave that was answered is the only one of its event,*)
(*                  and a picture is of the camera that announced it;      *)
(*   LineEvents     what is told of line crossings adds up and ends;       *)
(*   FrameExchange  a tick works with one picture, each at most once;      *)
(* and that MCPort, which has them side by side, does what each does.      *)
(***************************************************************************)
EXTENDS MCPort, FiniteSetTheorems, SequenceTheorems, TLAPS

-----------------------------------------------------------------------------
(* Adoption                                                                *)

PostStep == {"idle", "opened", "written"}
Fd == {"tmp", "file", "gone"}
ClientStep == {"idle", "dialing", "connecting", "up"}
Post == [step : PostStep, fd : Fd, body : State]
Connection == [step : ClientStep, state : State, sends : BOOLEAN, claims : BOOLEAN]

LEMMA TextFacts ==
  /\ NotAdopted \in State /\ Read \in State /\ ~Adopted(NotAdopted)
  /\ Empty \notin State /\ Torn \notin State /\ NoFile \notin State /\ Empty # NoFile
  /\ NoPost \in Post /\ Idle \in Connection
PROOF
<1>1. NotAdopted \in State BY DEF NotAdopted, State
<1>2. Empty \notin State /\ Torn \notin State /\ NoFile \notin State /\ Empty # NoFile
  BY DEF Empty, Torn, NoFile, State
<1>3. NoPost \in Post /\ Idle \in Connection
  BY <1>1 DEF NoPost, Idle, Post, Connection, PostStep, Fd, ClientStep
<1>4. ~Adopted(NotAdopted) BY DEF Adopted, NotAdopted
<1>5. QED BY <1>1, <1>2, <1>3, <1>4 DEF Read

\* The write of a thread that had the temporary file to itself.
Alone ==
  ~overlapped =>
    /\ file \in State \cup {NoFile}
    /\ \A v, w \in Writer : post[v].step # "idle" /\ post[w].step # "idle" => v = w
    /\ \A w \in Writer : /\ post[w].step = "idle" => post[w].fd = "gone"
                         /\ post[w].step # "idle" => post[w].fd = "tmp" /\ Adopted(post[w].body)
                         /\ post[w].step = "opened" => tmp = Empty
                         /\ post[w].step = "written" => tmp = post[w].body

\* A token is on its way out on the dial it was read for.
OnItsWay(c, t) ==
  client[c].step \in {"dialing", "connecting"} /\ client[c].sends /\ client[c].state.token = t

\* A token that was not read yet was not sent; one that was is on its way, sent once, or lost.
Spent ==
  \A c \in Client :
    /\ \A t \in Token : /\ presented[c][t] <= 1
                        /\ t \notin used[c] \/ OnItsWay(c, t) => presented[c][t] = 0
                        /\ t \in used[c] => OnItsWay(c, t) \/ t \in lost[c] \/ presented[c][t] = 1
    /\ client[c].step # "idle" /\ client[c].state.token # None => client[c].state.token \in used[c]
    /\ client[c].step \in {"dialing", "connecting"} /\ client[c].sends =>
         client[c].state.token # None

AdoptInv == AdoptTypeOK /\ Alone /\ Spent /\ ClaimIsHonest

LEMMA AdoptInitInv == AdoptInit => AdoptInv
PROOF
<1> SUFFICES ASSUME AdoptInit PROVE AdoptInv OBVIOUS
<1>1. AdoptTypeOK
  BY TextFacts DEF AdoptInit, AdoptTypeOK, Text, Post, Connection, PostStep, Fd, ClientStep
<1>2. Alone /\ ClaimIsHonest BY DEF AdoptInit, Alone, ClaimIsHonest, NoPost, Idle, Client
<1>3. Spent BY DEF AdoptInit, Spent, OnItsWay, Idle
<1>4. QED BY <1>1, <1>2, <1>3 DEF AdoptInv

\* A text over another is that text, or torn.
LEMMA OverFacts ==
  ASSUME NEW old, NEW body \in State
  PROVE  Over(old, body) \subseteq {body, Torn} /\ (old = Empty => Over(old, body) = {body})
PROOF BY DEF Over

\* The writes of the HTTP API: the clients do nothing.
LEMMA PostsInv ==
  ASSUME AdoptInv, NEW w \in Writer,
         (\E body \in Body : Open(w, body)) \/ Write(w) \/ Replace(w) \/ ReplaceFails(w)
  PROVE  AdoptInv'
PROOF
<1> USE DEF AdoptInv
<1>1. UNCHANGED clientVars BY DEF Open, Write, Replace, ReplaceFails
<1>2. Spent' BY <1>1 DEF Spent, OnItsWay, clientVars
<1>3. post \in [Writer -> Post] /\ post[w] \in Post /\ overlapped \in BOOLEAN
  BY DEF AdoptTypeOK, Post, PostStep, Fd
<1>4. ASSUME post' \in [Writer -> Post], file' \in Text \cup {NoFile}, tmp' \in Text \cup {NoFile},
             overlapped' \in BOOLEAN
      PROVE  AdoptTypeOK'
  BY <1>1, <1>4 DEF AdoptTypeOK, clientVars, Post, PostStep, Fd
<1>5. ASSUME NEW body \in Body, Open(w, body) PROVE AdoptInv'
  <2>1. /\ post[w].step = "idle" /\ Adopted(body) /\ tmp' = Empty /\ file' = file
        /\ post' = [post EXCEPT ![w] = [step |-> "opened", fd |-> "tmp", body |-> body]]
        /\ overlapped' = (overlapped \/ Overlaps(w))
    BY <1>5 DEF Open
  <2>2. [step |-> "opened", fd |-> "tmp", body |-> body] \in Post
    BY BodyAssumption DEF Post, PostStep, Fd
  <2>3. overlapped' \in BOOLEAN BY <1>3, <2>1
  <2>4. AdoptTypeOK' BY <1>3, <1>4, <2>1, <2>2, <2>3 DEF AdoptTypeOK, Text
  <2>5. ~overlapped' => ~overlapped /\ \A v \in Writer \ {w} : post[v].step = "idle"
    BY <2>1 DEF Overlaps
  <2>6. Alone' BY <1>3, <2>1, <2>5 DEF Alone
  <2>7. ClaimIsHonest' BY <1>1, <2>1, <2>5 DEF ClaimIsHonest, clientVars, Read
  <2>8. QED BY <1>2, <2>4, <2>6, <2>7
<1>6. CASE Write(w)
  <2>1. /\ post[w].step = "opened" /\ overlapped' = overlapped
        /\ file' \in IF post[w].fd = "file" THEN Over(file, post[w].body) ELSE {file}
        /\ tmp' \in IF post[w].fd = "tmp" THEN Over(tmp, post[w].body) ELSE {tmp}
        /\ post' = [post EXCEPT ![w].step = "written"]
    BY <1>6 DEF Write
  <2>2. post[w] = [step |-> post[w].step, fd |-> post[w].fd, body |-> post[w].body] BY <1>3 DEF Post
  <2>3. post'[w] = [step |-> "written", fd |-> post[w].fd, body |-> post[w].body]
        /\ \A v \in Writer \ {w} : post'[v] = post[v]
    BY <1>3, <2>1, <2>2
  <2>4. post[w].fd \in Fd /\ post[w].body \in State BY <1>3 DEF Post
  <2>5. post' \in [Writer -> Post]
    <3>1. post'[w] \in Post BY <2>3, <2>4 DEF Post, PostStep
    <3>2. QED BY <1>3, <2>1, <2>3, <3>1
  <2>6. file' \in Text \cup {NoFile} /\ tmp' \in Text \cup {NoFile}
    BY <2>1, <2>4, OverFacts DEF AdoptTypeOK, Text
  <2>7. AdoptTypeOK' BY <1>3, <1>4, <2>1, <2>5, <2>6
  <2>8. ~overlapped => file' = file /\ tmp' = post[w].body
    BY <2>1, <2>4, OverFacts DEF Alone
  <2>9. Alone'
    <3> SUFFICES ASSUME ~overlapped PROVE Alone' BY <2>1 DEF Alone
    <3>1. \A v \in Writer \ {w} : post'[v].step = "idle" BY <2>1, <2>3 DEF Alone
    <3>2. post'[w].step = "written" /\ post'[w].fd = post[w].fd /\ post'[w].body = post[w].body BY <2>3
    <3>3. QED BY <2>1, <2>8, <3>1, <3>2 DEF Alone
  <2>10. ClaimIsHonest' BY <1>1, <2>1, <2>8 DEF ClaimIsHonest, clientVars, Read
  <2>11. QED BY <1>2, <2>7, <2>9, <2>10
<1>7. CASE Replace(w)
  <2>1. /\ post[w].step = "written" /\ tmp # NoFile /\ file' = tmp /\ tmp' = NoFile
        /\ post' = [v \in Writer |-> IF v = w \/ post[v].step = "idle" THEN NoPost
                                     ELSE [post[v] EXCEPT !.fd = Moved(@)]]
        /\ overlapped' = overlapped
    BY <1>7 DEF Replace
  <2>2. post' \in [Writer -> Post]
    <3> SUFFICES ASSUME NEW v \in Writer PROVE post'[v] \in Post BY <2>1
    <3>1. post[v] = [step |-> post[v].step, fd |-> post[v].fd, body |-> post[v].body]
          /\ post[v].step \in PostStep /\ post[v].body \in State
      BY <1>3 DEF Post
    <3>2. [post[v] EXCEPT !.fd = Moved(post[v].fd)]
            = [step |-> post[v].step, fd |-> Moved(post[v].fd), body |-> post[v].body]
      BY <3>1
    <3>3. Moved(post[v].fd) \in Fd BY DEF Moved, Fd
    <3>4. [post[v] EXCEPT !.fd = Moved(post[v].fd)] \in Post BY <3>1, <3>2, <3>3 DEF Post
    <3>5. QED BY <2>1, <3>4, TextFacts
  <2>3. AdoptTypeOK' BY <1>3, <1>4, <2>1, <2>2 DEF AdoptTypeOK
  <2>4. ~overlapped => file' = post[w].body /\ post[w].body \in State /\ Adopted(post[w].body)
    BY <1>3, <2>1 DEF Alone, Post
  <2>5. ~overlapped => \A v \in Writer : post'[v] = NoPost BY <2>1 DEF Alone
  <2>6. Alone' BY <2>1, <2>4, <2>5 DEF Alone, NoPost
  <2>7. ClaimIsHonest' BY <2>1, <2>4 DEF ClaimIsHonest, Read
  <2>8. QED BY <1>2, <2>3, <2>6, <2>7
<1>8. CASE ReplaceFails(w)
  <2>1. post' = [post EXCEPT ![w] = NoPost] /\ UNCHANGED <<file, tmp, overlapped>> BY <1>8 DEF ReplaceFails
  <2>2. AdoptTypeOK' BY <1>3, <1>4, <2>1, TextFacts DEF AdoptTypeOK
  <2>3. Alone' BY <1>3, <2>1 DEF Alone, NoPost
  <2>4. ClaimIsHonest' BY <1>1, <2>1 DEF ClaimIsHonest, clientVars, Read
  <2>5. QED BY <1>2, <2>2, <2>3, <2>4
<1>9. QED BY <1>5, <1>6, <1>7, <1>8

\* What a step of client c does to the tokens of the other client: nothing.
LEMMA SpentOthers ==
  ASSUME Spent, NEW c \in Client,
         \A d \in Client \ {c} : /\ client'[d] = client[d] /\ used'[d] = used[d]
                                 /\ presented'[d] = presented[d] /\ lost'[d] = lost[d],
         /\ \A t \in Token : /\ presented'[c][t] <= 1
                             /\ t \notin used'[c] \/ OnItsWay(c, t)' => presented'[c][t] = 0
                             /\ t \in used'[c] => OnItsWay(c, t)' \/ t \in lost'[c] \/ presented'[c][t] = 1
         /\ client'[c].step # "idle" /\ client'[c].state.token # None =>
              client'[c].state.token \in used'[c]
         /\ client'[c].step \in {"dialing", "connecting"} /\ client'[c].sends =>
              client'[c].state.token # None
  PROVE  Spent'
PROOF
<1> SUFFICES ASSUME NEW d \in Client
             PROVE  /\ \A t \in Token : /\ presented'[d][t] <= 1
                                        /\ t \notin used'[d] \/ OnItsWay(d, t)' => presented'[d][t] = 0
                                        /\ t \in used'[d] =>
                                             OnItsWay(d, t)' \/ t \in lost'[d] \/ presented'[d][t] = 1
                    /\ client'[d].step # "idle" /\ client'[d].state.token # None =>
                         client'[d].state.token \in used'[d]
                    /\ client'[d].step \in {"dialing", "connecting"} /\ client'[d].sends =>
                         client'[d].state.token # None
  BY DEF Spent, OnItsWay
<1>1. CASE d = c BY <1>1
<1>2. CASE d # c BY <1>2 DEF Spent, OnItsWay
<1>3. QED BY <1>1, <1>2

\* A client reads a state and dials.
LEMMA DialInv ==
  ASSUME AdoptInv, NEW c \in Client, client[c].step = "idle", NEW s \in State, Dial(c, s)
  PROVE  AdoptInv'
PROOF
<1> USE DEF AdoptInv
<1>1. /\ client' = [client EXCEPT ![c] =
             [step |-> "dialing", state |-> s, sends |-> s.token # None /\ s.token \notin used[c],
              claims |-> s.token # None]]
      /\ used' = [used EXCEPT ![c] = IF s.token = None THEN @ ELSE @ \cup {s.token}]
      /\ UNCHANGED <<file, tmp, post, overlapped, presented, lost>>
  BY DEF Dial, fileVars
<1>2. client \in [Client -> Connection] /\ used \in [Client -> SUBSET Token]
  BY DEF AdoptTypeOK, Connection, ClientStep
<1>3. /\ client'[c].step = "dialing" /\ client'[c].state = s
      /\ client'[c].sends = (s.token # None /\ s.token \notin used[c])
      /\ client' \in [Client -> Connection] /\ \A d \in Client \ {c} : client'[d] = client[d]
  BY <1>1, <1>2 DEF Connection, ClientStep
<1>4. s.token \in Token \cup {None} BY DEF State
<1>5. /\ used'[c] = (IF s.token = None THEN used[c] ELSE used[c] \cup {s.token})
      /\ used' \in [Client -> SUBSET Token] /\ \A d \in Client \ {c} : used'[d] = used[d]
  BY <1>1, <1>2, <1>4
<1>6. AdoptTypeOK' BY <1>1, <1>3, <1>5 DEF AdoptTypeOK, Connection, ClientStep
<1>7. Alone' BY <1>1 DEF Alone
<1>8. \A t : ~OnItsWay(c, t) BY DEF OnItsWay
<1>9. \A t \in Token : OnItsWay(c, t)' <=> t = s.token /\ t \notin used[c]
  BY <1>3, NoneAssumption DEF OnItsWay
<1>10. Spent'
  <2>1. \A t \in Token :
          /\ presented'[c][t] <= 1
          /\ t \notin used'[c] \/ OnItsWay(c, t)' => presented'[c][t] = 0
          /\ t \in used'[c] => OnItsWay(c, t)' \/ t \in lost'[c] \/ presented'[c][t] = 1
    BY <1>1, <1>5, <1>8, <1>9 DEF Spent
  <2>2. /\ client'[c].state.token # None => client'[c].state.token \in used'[c]
        /\ client'[c].sends => client'[c].state.token # None
    BY <1>3, <1>5
  <2>3. QED BY <1>1, <1>3, <1>5, <2>1, <2>2, SpentOthers
<1>11. ClaimIsHonest'
  <2>1. client'["classic"].step \in {"connecting", "up"} => client'["classic"] = client["classic"]
    BY <1>3 DEF Client
  <2>2. QED BY <1>1, <2>1 DEF ClaimIsHonest, Read
<1>12. QED BY <1>6, <1>7, <1>10, <1>11

\* The connection ends, with a dial that failed or after it was up.
LEMMA EndsInv ==
  ASSUME AdoptInv, NEW c \in Client, client' = [client EXCEPT ![c] = Idle],
         UNCHANGED <<tmp, overlapped, used, presented>>,
         \/ /\ lost' = lost /\ client[c].step = "up"
         \/ /\ lost' = [lost EXCEPT ![c] = IF client[c].sends THEN @ \cup {client[c].state.token} ELSE @]
            /\ client[c].step \in {"dialing", "connecting"},
         UNCHANGED <<file, post>> \/ (c = "classic" /\ Emptied)
  PROVE  AdoptInv'
PROOF
<1> USE DEF AdoptInv
<1>1. client \in [Client -> Connection] /\ lost \in [Client -> SUBSET Token]
      /\ post \in [Writer -> Post]
  BY DEF AdoptTypeOK, Connection, ClientStep, Post, PostStep, Fd
<1>2. /\ client' \in [Client -> Connection] /\ client'[c] = Idle
      /\ \A d \in Client \ {c} : client'[d] = client[d]
  BY <1>1, TextFacts
<1>3. client[c].state.token \in Token \cup {None} BY <1>1 DEF Connection, State
<1>4. /\ lost' \in [Client -> SUBSET Token] /\ lost[c] \subseteq lost'[c]
      /\ \A d \in Client \ {c} : lost'[d] = lost[d]
      /\ \A t \in Token : OnItsWay(c, t) => t \in lost'[c]
  <2>1. CASE lost' = lost /\ client[c].step = "up" BY <1>1, <2>1 DEF OnItsWay
  <2>2. CASE /\ lost' = [lost EXCEPT ![c] = IF client[c].sends THEN @ \cup {client[c].state.token} ELSE @]
             /\ client[c].step \in {"dialing", "connecting"}
    <3>1. client[c].sends => client[c].state.token \in Token BY <1>3, <2>2 DEF Spent
    <3>2. QED BY <1>1, <2>2, <3>1 DEF OnItsWay
  <2>3. QED BY <2>1, <2>2
<1>5. /\ file' \in Text \cup {NoFile} /\ post' \in [Writer -> Post]
      /\ ~overlapped => UNCHANGED post /\ file' \in State \cup {NoFile}
  <2>1. CASE UNCHANGED <<file, post>> BY <1>1, <2>1 DEF AdoptTypeOK, Alone
  <2>2. CASE Emptied
    <3>1. \A w \in Writer : [post[w] EXCEPT !.fd = "gone"] \in Post BY <1>1 DEF Post, Fd
    <3>2. post' \in [Writer -> Post] BY <1>1, <2>2, <3>1 DEF Emptied
    <3>3. file' \in State BY <2>2, TextFacts DEF Emptied
    <3>4. ASSUME ~overlapped, NEW w \in Writer PROVE post'[w] = post[w]
      <4>1. CASE post[w].fd # "file" BY <2>2, <4>1 DEF Emptied
      <4>2. CASE post[w].fd = "file" BY <3>4, <4>2 DEF Alone
      <4>3. QED BY <4>1, <4>2
    <3>5. ~overlapped => post' = post BY <1>1, <2>2, <3>4 DEF Emptied
    <3>6. QED BY <3>2, <3>3, <3>5 DEF Text
  <2>3. QED BY <2>1, <2>2
<1>6. AdoptTypeOK'
  BY <1>2, <1>4, <1>5 DEF AdoptTypeOK, Connection, ClientStep, Post, PostStep, Fd
<1>7. Alone' BY <1>5 DEF Alone
<1>8. \A t : ~OnItsWay(c, t)' BY <1>2 DEF OnItsWay, Idle
<1>9. Spent'
  <2>1. \A t \in Token :
          /\ presented'[c][t] <= 1
          /\ t \notin used'[c] \/ OnItsWay(c, t)' => presented'[c][t] = 0
          /\ t \in used'[c] => OnItsWay(c, t)' \/ t \in lost'[c] \/ presented'[c][t] = 1
    BY <1>4, <1>8 DEF Spent
  <2>2. client'[c].step = "idle" BY <1>2 DEF Idle
  <2>3. QED BY <1>2, <1>4, <2>1, <2>2, SpentOthers
<1>10. ClaimIsHonest'
  <2>1. CASE c = "classic" BY <1>2, <2>1 DEF ClaimIsHonest, Idle
  <2>2. CASE c # "classic" BY <1>2, <2>2 DEF ClaimIsHonest, Read, Client
  <2>3. QED BY <2>1, <2>2
<1>11. QED BY <1>6, <1>7, <1>9, <1>10

LEMMA HeadersInv == ASSUME AdoptInv, ClassicHeaders PROVE AdoptInv'
PROOF
<1> USE DEF AdoptInv
<1> DEFINE c == "classic"
           old == client[c]
<1>1. /\ old.step = "dialing"
      /\ client' = [client EXCEPT ![c].step = "connecting", ![c].claims = Adopted(Read)]
      /\ UNCHANGED <<file, tmp, post, overlapped, used, presented, lost>>
  BY DEF ClassicHeaders, fileVars
<1>2. c \in Client /\ client \in [Client -> Connection] BY DEF AdoptTypeOK, Connection, ClientStep, Client
<1>3. old \in Connection BY <1>2
<1>4. old = [step |-> old.step, state |-> old.state, sends |-> old.sends, claims |-> old.claims]
  BY <1>3 DEF Connection
<1>5. client' = [client EXCEPT ![c] = [old EXCEPT !.step = "connecting", !.claims = Adopted(Read)]]
  BY <1>1, <1>2
<1>6. client'[c] = [step |-> "connecting", state |-> old.state, sends |-> old.sends, claims |-> Adopted(Read)]
  BY <1>2, <1>4, <1>5
<1>7. /\ client' \in [Client -> Connection] /\ \A d \in Client \ {c} : client'[d] = client[d]
      /\ client'[c].step = "connecting" /\ client'[c].state = old.state /\ client'[c].sends = old.sends
      /\ client'[c].claims = Adopted(Read)
  <2>1. Adopted(Read) \in BOOLEAN BY DEF Adopted
  <2>2. old.state \in State /\ old.sends \in BOOLEAN BY <1>3 DEF Connection
  <2>3. client'[c] \in Connection BY <1>6, <2>1, <2>2 DEF Connection, ClientStep
  <2>4. QED BY <1>2, <1>5, <1>6, <2>3
<1>8. AdoptTypeOK' BY <1>1, <1>7 DEF AdoptTypeOK, Connection, ClientStep
<1>9. Alone' BY <1>1 DEF Alone
<1>10. Spent'
  <2>1. \A t : OnItsWay(c, t)' <=> OnItsWay(c, t) BY <1>1, <1>7 DEF OnItsWay
  <2>2. \A t \in Token :
          /\ presented'[c][t] <= 1
          /\ t \notin used'[c] \/ OnItsWay(c, t)' => presented'[c][t] = 0
          /\ t \in used'[c] => OnItsWay(c, t)' \/ t \in lost'[c] \/ presented'[c][t] = 1
    BY <1>1, <1>2, <2>1 DEF Spent
  <2>3. /\ client'[c].state.token # None => client'[c].state.token \in used'[c]
        /\ client'[c].sends => client'[c].state.token # None
    BY <1>1, <1>2, <1>7 DEF Spent
  <2>4. QED BY <1>1, <1>2, <1>7, <2>2, <2>3, SpentOthers
<1>11. ClaimIsHonest' BY <1>1, <1>7 DEF ClaimIsHonest, Read
<1>12. QED BY <1>8, <1>9, <1>10, <1>11

LEMMA ConnectInv == ASSUME AdoptInv, NEW c \in Client, Connect(c) PROVE AdoptInv'
PROOF
<1> USE DEF AdoptInv
<1> DEFINE old == client[c]
           t0 == old.state.token
<1>1. /\ Connecting(c) /\ client' = [client EXCEPT ![c].step = "up"]
      /\ presented' = IF old.sends THEN [presented EXCEPT ![c][t0] = @ + 1] ELSE presented
      /\ UNCHANGED <<file, tmp, post, overlapped, used, lost>>
  BY DEF Connect, fileVars
<1>2. client \in [Client -> Connection] /\ old \in Connection
  BY DEF AdoptTypeOK, Connection, ClientStep
<1>3. old = [step |-> old.step, state |-> old.state, sends |-> old.sends, claims |-> old.claims]
      /\ old.state \in State /\ old.sends \in BOOLEAN /\ old.claims \in BOOLEAN
  BY <1>2 DEF Connection
<1>4. client' = [client EXCEPT ![c] = [old EXCEPT !.step = "up"]] BY <1>1, <1>2
<1>5. client'[c] = [step |-> "up", state |-> old.state, sends |-> old.sends, claims |-> old.claims]
  BY <1>2, <1>3, <1>4
<1>6. /\ client' \in [Client -> Connection] /\ \A d \in Client \ {c} : client'[d] = client[d]
      /\ client'[c].step = "up" /\ client'[c].state = old.state /\ client'[c].claims = old.claims
  <2>1. client'[c] \in Connection BY <1>3, <1>5 DEF Connection, ClientStep
  <2>2. QED BY <1>2, <1>4, <1>5, <2>1
<1>7. old.step \in {"dialing", "connecting"} /\ (c = "classic" => old.step = "connecting")
  BY <1>1 DEF Connecting
<1>8. old.sends => t0 \in Token /\ presented[c][t0] = 0 /\ OnItsWay(c, t0)
  <2>1. old.sends => t0 \in Token BY <1>3, <1>7 DEF Spent, State
  <2>2. QED BY <1>7, <2>1 DEF Spent, OnItsWay
<1>9. presented \in [Client -> [Token -> Nat]] BY DEF AdoptTypeOK
<1>10. /\ presented' \in [Client -> [Token -> Nat]]
       /\ \A d \in Client \ {c} : presented'[d] = presented[d]
       /\ \A t \in Token : presented'[c][t] = IF old.sends /\ t = t0 THEN 1 ELSE presented[c][t]
  <2>1. CASE old.sends
    <3>1. presented' = [presented EXCEPT ![c] = [presented[c] EXCEPT ![t0] = presented[c][t0] + 1]]
      BY <1>1, <1>9, <2>1
    <3>2. presented[c] \in [Token -> Nat] /\ presented[c][t0] + 1 = 1 BY <1>8, <1>9, <2>1
    <3>3. presented' = [presented EXCEPT ![c] = [presented[c] EXCEPT ![t0] = 1]] BY <3>1, <3>2
    <3>4. QED BY <1>8, <1>9, <2>1, <3>2, <3>3
  <2>2. CASE ~old.sends BY <1>1, <1>9, <2>2
  <2>3. QED BY <2>1, <2>2
<1>11. AdoptTypeOK' BY <1>1, <1>6, <1>10 DEF AdoptTypeOK, Connection, ClientStep
<1>12. Alone' BY <1>1 DEF Alone
<1>13. Spent'
  <2>1. \A t : ~OnItsWay(c, t)' BY <1>6 DEF OnItsWay
  <2>2. ASSUME NEW t \in Token
        PROVE  /\ presented'[c][t] <= 1
               /\ t \notin used'[c] \/ OnItsWay(c, t)' => presented'[c][t] = 0
               /\ t \in used'[c] => OnItsWay(c, t)' \/ t \in lost'[c] \/ presented'[c][t] = 1
    <3>1. CASE old.sends /\ t = t0
      <4>1. t \in used[c] BY <1>7, <1>8, <3>1, NoneAssumption DEF Spent
      <4>2. QED BY <1>1, <1>10, <2>1, <3>1, <4>1
    <3>2. CASE ~(old.sends /\ t = t0)
      <4>1. ~OnItsWay(c, t) BY <3>2 DEF OnItsWay
      <4>2. QED BY <1>1, <1>10, <2>1, <3>2, <4>1 DEF Spent
    <3>3. QED BY <3>1, <3>2
  <2>3. client'[c].state.token # None => client'[c].state.token \in used'[c]
    BY <1>1, <1>6, <1>7 DEF Spent
  <2>4. client'[c].step = "up" BY <1>6
  <2>5. QED BY <1>1, <1>6, <1>10, <2>2, <2>3, <2>4, SpentOthers
<1>14. ClaimIsHonest'
  <2>1. CASE c = "classic" BY <1>1, <1>6, <1>7, <2>1 DEF ClaimIsHonest, Read
  <2>2. CASE c # "classic" BY <1>1, <1>6, <2>2 DEF ClaimIsHonest, Read, Client
  <2>3. QED BY <2>1, <2>2
<1>15. QED BY <1>11, <1>12, <1>13, <1>14

LEMMA RestartInv == ASSUME AdoptInv, Restart PROVE AdoptInv'
PROOF
<1> USE DEF AdoptInv
<1>1. AdoptTypeOK'
  BY TextFacts DEF Restart, AdoptTypeOK, Text, Post, Connection, PostStep, Fd, ClientStep
<1>2. Alone' BY DEF Restart, Alone, NoPost
<1>3. Spent' BY DEF Restart, Spent, OnItsWay, Idle
<1>4. ClaimIsHonest' BY DEF Restart, ClaimIsHonest, Idle, Client
<1>5. QED BY <1>1, <1>2, <1>3, <1>4

LEMMA AdoptAlways == AdoptSpec => []AdoptInv
PROOF
<1>1. AdoptInv /\ [AdoptNext]_adoptVars => AdoptInv'
  <2> SUFFICES ASSUME AdoptInv, [AdoptNext]_adoptVars PROVE AdoptInv' OBVIOUS
  <2>1. ASSUME NEW w \in Writer,
               (\E body \in Body : Open(w, body)) \/ Write(w) \/ Replace(w) \/ ReplaceFails(w)
        PROVE  AdoptInv'
    BY <2>1, PostsInv
  <2>2. CASE ClassicDial \/ Ucp4Dial BY <2>2, TextFacts, DialInv DEF ClassicDial, Ucp4Dial, Client
  <2>3. CASE ClassicHeaders BY <2>3, HeadersInv
  <2>4. ASSUME NEW c \in Client, Connect(c) PROVE AdoptInv' BY <2>4, ConnectInv
  <2>5. ASSUME NEW c \in Client, ConnectFails(c) \/ Drop(c) PROVE AdoptInv'
    BY <2>5, EndsInv DEF ConnectFails, Connecting, Drop, fileVars
  <2>6. CASE Watch \/ ResetToDefaults
    BY <2>6, EndsInv DEF Watch, ResetToDefaults, fileVars, Client
  <2>7. CASE Restart BY <2>7, RestartInv
  <2>8. CASE UNCHANGED adoptVars
    BY <2>8 DEF adoptVars, AdoptInv, AdoptTypeOK, Alone, Spent, OnItsWay, ClaimIsHonest, Read
  <2>9. QED BY <2>1, <2>2, <2>3, <2>4, <2>5, <2>6, <2>7, <2>8 DEF AdoptNext
<1>2. QED BY <1>1, AdoptInitInv, PTL DEF AdoptSpec

\* Every variable of the adoption keeps its type.
THEOREM AdoptTypeCorrect == AdoptSpec => []AdoptTypeOK
PROOF BY AdoptAlways, PTL DEF AdoptInv

\* The adoption on disk is whole unless two posts overlapped (adopt_state.json and its one
\* temporary file); a client on a connection made for a token has sent it, once, or lost it on
\* a dial that failed; the classic client claims no adoption that is not there.  For any number
\* of threads and tokens, through resets and restarts.
THEOREM AdoptionHonest == AdoptSpec => []AdoptionIsHonest
PROOF
<1>1. AdoptInv => AdoptionIsHonest
  <2> SUFFICES ASSUME AdoptInv PROVE AdoptionIsHonest OBVIOUS
  <2> USE DEF AdoptInv
  <2>1. WholeUnlessOverlapped BY DEF Alone, WholeUnlessOverlapped
  <2>2. PresentedOrLost
    <3> SUFFICES ASSUME NEW c \in Client, client[c].step = "up", client[c].state.token # None
                 PROVE  LET t == client[c].state.token IN t \in lost[c] \/ presented[c][t] = 1
      BY DEF PresentedOrLost, Spent
    <3>1. client[c].state.token \in used[c] /\ used[c] \subseteq Token BY DEF Spent, AdoptTypeOK
    <3>2. \A t : ~OnItsWay(c, t) BY DEF OnItsWay
    <3>3. QED BY <3>1, <3>2 DEF Spent
  <2>3. QED BY <2>1, <2>2 DEF AdoptionIsHonest
<1>2. QED BY <1>1, AdoptAlways, PTL

-----------------------------------------------------------------------------
(* Instances                                                               *)

InstStep == {"idle", "save", "write", "enable", "disable", "remove", "unregister"}
Job == [kind : Kind, name : Name, copy : Registry, alone : BOOLEAN, step : InstStep]
Identified == Entry \cup {Unregistered}

\* What the registry says of a name and what there is of it.
Agree(n) ==
  IF Registered(registry, n)
  THEN unit[n] = registry[n].identity /\ n \in enabled /\ n \in kept
  ELSE n \notin failed => unit[n] = Nobody /\ n \notin enabled /\ n \notin kept

\* An operation that nothing disturbed: its copy is the registry, all other names agree, and its
\* own is as far as it came.
Underway(p) ==
  LET n == job[p].name IN
  /\ job[p].copy = registry /\ \A m \in Name \ {n} : Agree(m)
  /\ job[p].step = "save" => job[p].kind \in {"create", "register"}
  /\ job[p].step \in {"write", "enable"} =>
       Registered(registry, n) /\ n \in kept /\ (job[p].kind = "refresh" => n \in enabled)
  /\ job[p].step = "enable" => unit[n] = registry[n].identity
  /\ job[p].step \in {"remove", "unregister"} => n \notin enabled
  /\ job[p].step = "unregister" => unit[n] = Nobody /\ n \notin kept

Solo ==
  disturbed = 0 => /\ \A p, q \in Busy : p = q
                   /\ \A p \in Busy : Underway(p)
                   /\ Busy = {} => \A n \in Name : Agree(n)

\* An operation with the box to itself: no other is under way, and a destroy has removed what
\* its steps so far remove.
Removed(p) ==
  LET n == job[p].name IN
  /\ job[p].step \in {"remove", "unregister"} => n \notin enabled
  /\ job[p].step = "unregister" => unit[n] = Nobody /\ n \notin kept
ToItself == \A p \in Busy : job[p].alone => Busy = {p} /\ Removed(p)

InstInv == InstTypeOK /\ Solo /\ ToItself

\* There is an identity that is not in use for a name.
LEMMA FreshIsThere == ASSUME InstTypeOK, NEW n \in Name PROVE Fresh(n) \in Identity
PROOF
<1> DEFINE f == [p \in Process |-> job[p].copy[n].identity]
           T == {f[p] : p \in Process}
           used2 == (T \cup {registry[n].identity}) \cup {unit[n]}
<1>1. f \in Surjection(Process, T) BY DEF Surjection
<1>2. IsFiniteSet(T) /\ Cardinality(T) <= Cardinality(Process) BY <1>1, FS_Surjection, EnoughAssumption
<1>3. /\ Cardinality(T) \in Nat /\ Cardinality(Process) \in Nat /\ Cardinality(Identity) \in Nat
  BY <1>2, FS_CardinalityType, EnoughAssumption
<1> HIDE DEF T
<1>4. ASSUME NEW S, IsFiniteSet(S), NEW x
      PROVE  /\ IsFiniteSet(S \cup {x}) /\ Cardinality(S) \in Nat /\ Cardinality(S \cup {x}) \in Nat
             /\ Cardinality(S \cup {x}) <= Cardinality(S) + 1
  <2>1. /\ IsFiniteSet(S \cup {x})
        /\ Cardinality(S \cup {x}) = IF x \in S THEN Cardinality(S) ELSE Cardinality(S) + 1
    BY <1>4, FS_AddElement
  <2>2. Cardinality(S) \in Nat BY <1>4, FS_CardinalityType
  <2>3. QED BY <2>1, <2>2
<1>5. /\ IsFiniteSet(used2) /\ Cardinality(used2) \in Nat
      /\ Cardinality(used2) <= Cardinality(T) + 2
  <2> DEFINE S == T \cup {registry[n].identity}
  <2>1. IsFiniteSet(S) /\ Cardinality(S) \in Nat /\ Cardinality(S) <= Cardinality(T) + 1 BY <1>2, <1>4
  <2>2. used2 = S \cup {unit[n]} OBVIOUS
  <2> HIDE DEF S, used2
  <2>3. IsFiniteSet(used2) /\ Cardinality(used2) \in Nat /\ Cardinality(used2) <= Cardinality(S) + 1
    BY <1>4, <2>1, <2>2
  <2>4. QED BY <1>3, <2>1, <2>3
<1>6. Cardinality(used2) < Cardinality(Identity) BY <1>2, <1>3, <1>5, EnoughAssumption
<1>7. ~(Identity \subseteq used2)
  <2> SUFFICES ASSUME Identity \subseteq used2 PROVE FALSE OBVIOUS
  <2>1. Cardinality(Identity) <= Cardinality(used2) BY <1>5, FS_Subset
  <2>2. QED BY <1>3, <1>5, <1>6, <2>1
<1>8. PICK i \in Identity : i \notin used2 BY <1>7
<1>9. i \notin {registry[n].identity, unit[n]} /\ \A p \in Process : i # job[p].copy[n].identity
  BY <1>8 DEF T
<1>10. QED BY <1>9 DEF Fresh

LEMMA InstFacts ==
  /\ NoOp \in Job /\ NoOp.step = "idle" /\ NoOp.copy = [n \in Name |-> Unregistered] /\ NoOp.copy \in Registry
  /\ InstTypeOK => job \in [Process -> Job]
  /\ \A reg \in Registry : \A n \in Name : reg[n] \in Identified
  /\ \A e \in Entry : e # Unregistered
PROOF
<1>1. Name # {} BY EnoughAssumption
<1>2. NoOp.copy \in Registry BY DEF NoOp, Registry
<1>3. NoOp \in Job BY <1>1, <1>2 DEF NoOp, Job, Kind, InstStep
<1>4. \A e \in Entry : e # Unregistered BY IdentityAssumption DEF Entry, Unregistered
<1>5. InstTypeOK => job \in [Process -> Job] BY DEF InstTypeOK, Job, InstStep
<1>6. QED BY <1>2, <1>3, <1>4, <1>5 DEF NoOp, Registry, Identified

\* A process goes one step on, or ends: what is left to show is about that process alone.
LEMMA StepKeeps ==
  ASSUME Solo, ToItself, NEW p \in Busy, disturbed' = disturbed,
         \A q \in Process \ {p} : job'[q] = job[q],
         disturbed = 0 /\ Underway(p) =>
           IF job'[p].step = "idle" THEN \A n \in Name : Agree(n)' ELSE Underway(p)',
         job'[p].step # "idle" => job'[p].alone = job[p].alone,
         job[p].alone /\ Removed(p) /\ job'[p].step # "idle" => Removed(p)'
  PROVE  Solo' /\ ToItself'
PROOF
<1>1. Busy' \subseteq Busy /\ (p \in Busy' <=> job'[p].step # "idle") BY DEF Busy
<1>2. Solo'
  <2> SUFFICES ASSUME disturbed = 0
               PROVE  /\ \A q, r \in Busy' : q = r
                      /\ \A q \in Busy' : Underway(q)'
                      /\ Busy' = {} => \A n \in Name : Agree(n)'
    BY DEF Solo
  <2>1. Busy = {p} /\ Underway(p) BY DEF Solo
  <2>2. QED BY <1>1, <2>1
<1>3. ToItself'
  <2> SUFFICES ASSUME NEW q \in Busy', job'[q].alone PROVE Busy' = {q} /\ Removed(q)'
    BY DEF ToItself
  <2>1. q \in Busy BY <1>1
  <2>2. CASE q = p
    <3>1. job[p].alone BY <1>1, <2>2
    <3>2. Busy = {p} /\ Removed(p) BY <3>1 DEF ToItself
    <3>3. QED BY <1>1, <2>2, <3>1, <3>2
  <2>3. CASE q # p
    <3>1. job[q].alone BY <2>3 DEF Busy
    <3>2. Busy = {q} BY <2>1, <3>1 DEF ToItself
    <3>3. QED BY <2>3, <3>2
  <2>4. QED BY <2>2, <2>3
<1>4. QED BY <1>2, <1>3

LEMMA InstInitInv == InstInit => InstInv
PROOF
<1> SUFFICES ASSUME InstInit PROVE InstInv OBVIOUS
<1>1. InstTypeOK BY InstFacts, DisturbancesAssumption DEF InstInit, InstTypeOK, Job, InstStep
<1>2. Busy = {} BY InstFacts DEF InstInit, Busy
<1>3. \A n \in Name : Agree(n) BY InstFacts DEF InstInit, Agree, Registered
<1>4. QED BY <1>1, <1>2, <1>3 DEF InstInv, Solo, ToItself

-----------------------------------------------------------------------------
\* Each operation keeps the invariant.
LEMMA BeginInv ==
  ASSUME InstInv, NEW p \in Process, NEW kind \in Kind, NEW n \in Name, Begin(p, kind, n)
  PROVE  InstInv'
PROOF
<1> USE DEF InstInv
<1> DEFINE new == [kind |-> kind, step |-> FirstStep(kind), name |-> n, copy |-> registry, alone |-> Busy = {}]
<1>1. /\ job[p].step = "idle" /\ Accepts(kind, n)
      /\ job' = [q \in Process |-> IF q = p THEN new
                                   ELSE IF q \in Busy THEN [job[q] EXCEPT !.alone = FALSE] ELSE job[q]]
      /\ disturbed' = disturbed + (IF Busy = {} THEN 0 ELSE 1) /\ disturbed' <= MaxDisturbances
      /\ UNCHANGED <<registry, unit, enabled, kept, failed>>
  BY DEF Begin
<1>2. job \in [Process -> Job] /\ disturbed \in Nat BY InstFacts, DisturbancesAssumption DEF InstTypeOK
<1>3. FirstStep(kind) \in {"save", "write", "disable"} /\ new \in Job
      /\ (kind \in {"create", "register"} <=> FirstStep(kind) = "save")
      /\ (kind = "refresh" <=> FirstStep(kind) = "write")
  <2>1. /\ FirstStep(kind) \in {"save", "write", "disable"}
        /\ (kind \in {"create", "register"} <=> FirstStep(kind) = "save")
        /\ (kind = "refresh" <=> FirstStep(kind) = "write")
    BY DEF Kind, FirstStep
  <2>2. new \in Job BY <2>1 DEF Job, InstStep, InstTypeOK
  <2>3. QED BY <2>1, <2>2
<1>4. ASSUME NEW q \in Process \ {p}
      PROVE  job'[q] \in Job /\ job'[q].step = job[q].step /\ (q \in Busy => job'[q].alone = FALSE)
  <2>1. job[q] = [kind |-> job[q].kind, step |-> job[q].step, name |-> job[q].name, copy |-> job[q].copy,
                  alone |-> job[q].alone]
        /\ job[q].kind \in Kind /\ job[q].step \in InstStep /\ job[q].name \in Name /\ job[q].copy \in Registry
    BY <1>2 DEF Job
  <2>2. CASE q \in Busy
    <3>1. job'[q] = [job[q] EXCEPT !.alone = FALSE] BY <1>1, <2>2
    <3>2. job'[q] = [kind |-> job[q].kind, step |-> job[q].step, name |-> job[q].name, copy |-> job[q].copy,
                     alone |-> FALSE]
      BY <2>1, <3>1
    <3>3. QED BY <2>1, <3>2 DEF Job
  <2>3. CASE q \notin Busy BY <1>1, <1>2, <2>3
  <2>4. QED BY <2>2, <2>3
<1>5. job'[p] = new BY <1>1
<1>6. job' \in [Process -> Job] BY <1>1, <1>3, <1>4
<1>7. InstTypeOK'
  <2>1. disturbed' \in 0..MaxDisturbances BY <1>1, <1>2, DisturbancesAssumption
  <2>2. QED BY <1>1, <1>6, <2>1 DEF InstTypeOK, Job, InstStep
<1>8. Busy' = Busy \cup {p} /\ p \notin Busy BY <1>1, <1>3, <1>4, <1>5 DEF Busy
<1>9. Solo'
  <2> SUFFICES ASSUME disturbed' = 0
               PROVE  /\ \A q, r \in Busy' : q = r
                      /\ \A q \in Busy' : Underway(q)'
                      /\ Busy' = {} => \A m \in Name : Agree(m)'
    BY DEF Solo
  <2>1. Busy = {} /\ disturbed = 0 BY <1>1, <1>2
  <2>2. \A m \in Name : Agree(m) BY <2>1 DEF Solo
  <2>3. Underway(p)'
    <3>1. kind = "refresh" => Registered(registry, n) BY <1>1 DEF Accepts
    <3>2. job'[p].copy = registry' /\ job'[p].name = n /\ job'[p].kind = kind /\ job'[p].step = FirstStep(kind)
      BY <1>1, <1>5
    <3>3. \A m \in Name : Agree(m)' BY <1>1, <2>2 DEF Agree, Registered
    <3>4. kind = "refresh" => n \in kept /\ n \in enabled BY <2>2, <3>1 DEF Agree
    <3>5. QED BY <1>1, <1>3, <3>1, <3>2, <3>3, <3>4 DEF Underway, Registered
  <2>4. QED BY <1>8, <2>1, <2>3
<1>10. ToItself'
  <2> SUFFICES ASSUME NEW q \in Busy', job'[q].alone PROVE Busy' = {q} /\ Removed(q)' BY DEF ToItself
  <2>1. q = p
    <3> SUFFICES ASSUME q # p PROVE FALSE OBVIOUS
    <3>1. q \in Busy /\ q \in Process \ {p} BY <1>8 DEF Busy
    <3>2. job'[q].alone = FALSE BY <1>4, <3>1
    <3>3. QED BY <3>2
  <2>2. Busy = {}
    <3>1. job'[p].alone = (Busy = {}) BY <1>5
    <3>2. QED BY <2>1, <3>1
  <2>3. QED BY <1>3, <1>5, <1>8, <2>1, <2>2 DEF Removed
<1>11. QED BY <1>7, <1>9, <1>10

\* A process that goes on to another step is otherwise as it was; one that is done has no operation.
LEMMA GoesOn ==
  ASSUME InstTypeOK, NEW p \in Process, NEW step \in InstStep, job' = [job EXCEPT ![p].step = step]
  PROVE  /\ job' \in [Process -> Job] /\ \A q \in Process \ {p} : job'[q] = job[q]
         /\ job'[p].step = step /\ job'[p].kind = job[p].kind /\ job'[p].name = job[p].name
         /\ job'[p].copy = job[p].copy /\ job'[p].alone = job[p].alone
PROOF
<1>1. job \in [Process -> Job] /\ job[p] \in Job BY InstFacts
<1>2. job[p] = [kind |-> job[p].kind, step |-> job[p].step, name |-> job[p].name, copy |-> job[p].copy,
                alone |-> job[p].alone]
      /\ job[p].kind \in Kind /\ job[p].name \in Name /\ job[p].copy \in Registry /\ job[p].alone \in BOOLEAN
  BY <1>1 DEF Job
<1>3. job' = [job EXCEPT ![p] = [job[p] EXCEPT !.step = step]] BY <1>1
<1>4. job'[p] = [kind |-> job[p].kind, step |-> step, name |-> job[p].name, copy |-> job[p].copy,
                 alone |-> job[p].alone]
  BY <1>1, <1>2, <1>3
<1>5. job'[p] \in Job BY <1>2, <1>4 DEF Job
<1>6. QED BY <1>1, <1>3, <1>4, <1>5

LEMMA IsDone ==
  ASSUME InstTypeOK, NEW p \in Process, Done(p)
  PROVE  /\ job' \in [Process -> Job] /\ \A q \in Process \ {p} : job'[q] = job[q]
         /\ job'[p].step = "idle"
PROOF
<1>1. job \in [Process -> Job] BY InstFacts
<1>2. QED BY <1>1, InstFacts DEF Done

LEMMA TypeFacts ==
  ASSUME InstTypeOK, NEW p \in Process
  PROVE  /\ job[p].name \in Name /\ job[p].copy \in Registry /\ job[p].step \in InstStep
         /\ registry \in Registry /\ Without(p) \in Registry
         /\ ~Registered(Without(p), job[p].name)
         /\ \A m \in Name \ {job[p].name} : Without(p)[m] = job[p].copy[m]
PROOF
<1>1. job[p] \in Job BY InstFacts
<1>2. job[p].name \in Name /\ job[p].copy \in Registry /\ job[p].step \in InstStep BY <1>1 DEF Job
<1>3. Without(p) \in Registry BY <1>2 DEF Without, Registry
<1>4. Without(p)[job[p].name] = Unregistered
      /\ \A m \in Name \ {job[p].name} : Without(p)[m] = job[p].copy[m]
  BY <1>2 DEF Without, Registry
<1>5. QED BY <1>2, <1>3, <1>4 DEF Registered, InstTypeOK

\* An operation that had the registry to itself saves what it means to save.
LEMMA Replacing ==
  ASSUME InstInv, NEW p \in Process, p \in Busy, NEW reg \in Registry, Replaced(p, reg)
  PROVE  registry' \in Registry /\ (disturbed = 0 \/ job[p].alone => registry' = reg)
PROOF
<1>1. registry' = reg \/ (registry' = NoOp.copy /\ \E q \in Process \ {p} : Saving(q)) BY DEF Replaced
<1>2. ASSUME disturbed = 0 \/ job[p].alone, NEW q \in Process \ {p}, Saving(q) PROVE FALSE
  <2>1. q \in Busy BY <1>2 DEF Saving, Busy
  <2>2. Solo /\ ToItself BY DEF InstInv
  <2>3. CASE disturbed = 0 BY <2>1, <2>2, <2>3 DEF Solo
  <2>4. CASE job[p].alone BY <2>1, <2>2, <2>4 DEF ToItself
  <2>5. QED BY <1>2, <2>3, <2>4
<1>3. NoOp.copy \in Registry BY DEF NoOp, Registry
<1>4. QED BY <1>1, <1>2, <1>3

LEMMA SaveInv == ASSUME InstInv, NEW p \in Process, Save(p) PROVE InstInv'
PROOF
<1> USE DEF InstInv
<1> DEFINE n == job[p].name
           new == [identity |-> Fresh(n), physical |-> job[p].kind = "register"]
           copy == [job[p].copy EXCEPT ![n] = new]
<1>1. /\ job[p].step = "save" /\ Replaced(p, copy)
      /\ job' = [job EXCEPT ![p].copy = copy, ![p].step = "write"]
      /\ kept' = kept \cup {n} /\ UNCHANGED <<unit, enabled, failed, disturbed>>
  BY DEF Save
<1>2. n \in Name /\ job[p].copy \in Registry /\ p \in Busy BY <1>1, TypeFacts DEF Busy
<1>3. new \in Entry /\ new # Unregistered
  <2>1. new \in Entry BY <1>2, FreshIsThere DEF Entry
  <2>2. QED BY <2>1, InstFacts
<1> HIDE DEF new
<1>4. copy \in Registry /\ copy[n] = new /\ \A m \in Name \ {n} : copy[m] = job[p].copy[m]
  BY <1>2, <1>3 DEF Registry
<1> HIDE DEF copy
<1>10. registry' \in Registry /\ (disturbed = 0 => registry' = copy) BY <1>1, <1>2, <1>4, Replacing
<1>5. /\ job' \in [Process -> Job] /\ \A q \in Process \ {p} : job'[q] = job[q]
      /\ job'[p].step = "write" /\ job'[p].kind = job[p].kind /\ job'[p].name = n
      /\ job'[p].copy = copy /\ job'[p].alone = job[p].alone
  <2>1. job \in [Process -> Job] /\ job[p] \in Job BY InstFacts
  <2>2. job[p] = [kind |-> job[p].kind, step |-> job[p].step, name |-> n, copy |-> job[p].copy,
                  alone |-> job[p].alone]
        /\ job[p].kind \in Kind /\ job[p].alone \in BOOLEAN
    BY <2>1 DEF Job
  <2>3. job' = [job EXCEPT ![p] = [[job[p] EXCEPT !.copy = copy] EXCEPT !.step = "write"]] BY <1>1, <2>1
  <2>4. job'[p] = [kind |-> job[p].kind, step |-> "write", name |-> n, copy |-> copy, alone |-> job[p].alone]
    BY <2>1, <2>2, <2>3
  <2>5. job'[p] \in Job BY <1>2, <1>4, <2>2, <2>4 DEF Job, InstStep
  <2>6. QED BY <2>1, <2>3, <2>4, <2>5
<1>6. InstTypeOK' BY <1>1, <1>2, <1>5, <1>10 DEF InstTypeOK, Job, InstStep
<1>7. disturbed = 0 /\ Underway(p) => Underway(p)'
  <2> SUFFICES ASSUME disturbed = 0, Underway(p) PROVE Underway(p)' OBVIOUS
  <2>1. \A m \in Name \ {n} : Agree(m)'
    <3> SUFFICES ASSUME NEW m \in Name \ {n} PROVE Agree(m)' OBVIOUS
    <3>1. registry'[m] = registry[m] /\ (m \in kept' <=> m \in kept) BY <1>1, <1>4, <1>10 DEF Underway
    <3>2. QED BY <1>1, <3>1 DEF Underway, Agree, Registered
  <2>2. Registered(registry', n) /\ n \in kept' /\ job[p].kind # "refresh"
    BY <1>1, <1>3, <1>4, <1>10 DEF Registered, Underway
  <2>4. registry' = copy BY <1>10
  <2>3. QED BY <1>1, <1>5, <2>1, <2>2, <2>4 DEF Underway, Registered
<1>8. Solo' /\ ToItself'
  <2>1. Removed(p)' BY <1>5 DEF Removed
  <2>2. QED BY <1>1, <1>2, <1>5, <1>7, <2>1, StepKeeps
<1>9. QED BY <1>6, <1>8

LEMMA WriteUnitInv == ASSUME InstInv, NEW p \in Process, WriteUnit(p) PROVE InstInv'
PROOF
<1> USE DEF InstInv
<1> DEFINE n == job[p].name
<1>1. /\ job[p].step = "write" /\ unit' = [unit EXCEPT ![n] = job[p].copy[n].identity]
      /\ job' = [job EXCEPT ![p].step = "enable"]
      /\ UNCHANGED <<registry, enabled, kept, failed, disturbed>>
  BY DEF WriteUnit
<1>2. n \in Name /\ job[p].copy \in Registry /\ p \in Busy BY <1>1, TypeFacts DEF Busy
<1>3. /\ job' \in [Process -> Job] /\ \A q \in Process \ {p} : job'[q] = job[q]
      /\ job'[p].step = "enable" /\ job'[p].kind = job[p].kind /\ job'[p].name = n
      /\ job'[p].copy = job[p].copy /\ job'[p].alone = job[p].alone
  BY <1>1, GoesOn DEF InstStep
<1>4. unit \in [Name -> Identity \cup {Nobody}] /\ job[p].copy[n].identity \in Identity \cup {Nobody}
  <2>1. job[p].copy[n] \in Entry \cup {Unregistered} BY <1>2 DEF Registry
  <2>2. job[p].copy[n].identity \in Identity \cup {Nobody} BY <2>1 DEF Entry, Unregistered
  <2>3. QED BY <2>2 DEF InstTypeOK
<1>5. /\ unit' \in [Name -> Identity \cup {Nobody}] /\ unit'[n] = job[p].copy[n].identity
      /\ \A m \in Name \ {n} : unit'[m] = unit[m]
  BY <1>1, <1>2, <1>4
<1>6. InstTypeOK' BY <1>1, <1>3, <1>5 DEF InstTypeOK, Job, InstStep
<1>7. disturbed = 0 /\ Underway(p) => Underway(p)'
  <2> SUFFICES ASSUME disturbed = 0, Underway(p) PROVE Underway(p)' OBVIOUS
  <2>1. \A m \in Name \ {n} : Agree(m)' BY <1>1, <1>5 DEF Underway, Agree, Registered
  <2>2. QED BY <1>1, <1>3, <1>5, <2>1 DEF Underway, Registered
<1>8. Solo' /\ ToItself'
  <2>1. Removed(p)' BY <1>3 DEF Removed
  <2>2. QED BY <1>1, <1>2, <1>3, <1>7, <2>1, StepKeeps
<1>9. QED BY <1>6, <1>8

LEMMA EnableInv == ASSUME InstInv, NEW p \in Process, Enable(p) \/ EnableFails(p) PROVE InstInv'
PROOF
<1> USE DEF InstInv
<1> DEFINE n == job[p].name
<1>1. /\ job[p].step = "enable" /\ Done(p) /\ UNCHANGED <<unit, kept, disturbed>>
      /\ \/ enabled' = enabled \cup {n} /\ failed' = failed \ {n} /\ registry' = registry
         \/ /\ enabled \subseteq enabled' /\ enabled' \subseteq enabled \cup {n}
            /\ \/ job[p].kind = "refresh" /\ registry' = registry /\ failed' = failed
               \/ Replaced(p, Without(p)) /\ failed' = failed \cup {n}
  <2>1. CASE Enable(p) BY <2>1 DEF Enable
  <2>2. CASE EnableFails(p) BY <2>2 DEF EnableFails
  <2>3. QED BY <2>1, <2>2
<1>2. p \in Busy /\ n \in Name /\ registry \in Registry /\ Without(p) \in Registry BY <1>1, TypeFacts DEF Busy
<1>7. /\ registry' \in Registry
      /\ disturbed = 0 => \/ enabled' = enabled \cup {n} /\ failed' = failed \ {n} /\ registry' = registry
                          \/ job[p].kind = "refresh" /\ registry' = registry /\ failed' = failed
                          \/ registry' = Without(p) /\ failed' = failed \cup {n}
  BY <1>1, <1>2, Replacing
<1>3. job' \in [Process -> Job] /\ job'[p].step = "idle" /\ \A q \in Process \ {p} : job'[q] = job[q]
  BY <1>1, IsDone
<1>4. InstTypeOK' BY <1>1, <1>2, <1>3, <1>7 DEF InstTypeOK, Job, InstStep
<1>5. disturbed = 0 /\ Underway(p) => \A m \in Name : Agree(m)'
  <2> SUFFICES ASSUME disturbed = 0, Underway(p), NEW m \in Name PROVE Agree(m)' OBVIOUS
  <2>1. CASE m # n
    <3>1. registry'[m] = registry[m] BY <1>7, <2>1, TypeFacts DEF Underway
    <3>2. (m \in enabled' <=> m \in enabled) /\ (m \in failed' <=> m \in failed) BY <1>1, <1>7, <2>1
    <3>3. QED BY <1>1, <2>1, <3>1, <3>2 DEF Underway, Agree, Registered
  <2>2. CASE m = n /\ registry' = registry
    <3>1. n \in enabled' /\ n \in kept /\ unit[n] = registry[n].identity
      BY <1>1, <1>7, <2>2, TypeFacts DEF Underway, Registered
    <3>2. QED BY <1>1, <2>2, <3>1 DEF Underway, Agree, Registered
  <2>3. CASE m = n /\ registry' = Without(p) /\ failed' = failed \cup {n}
    BY <2>3, TypeFacts DEF Agree
  <2>4. QED BY <1>7, <2>1, <2>2, <2>3
<1>6. QED BY <1>1, <1>2, <1>3, <1>4, <1>5, StepKeeps
LEMMA RemoveInv == ASSUME InstInv, NEW p \in Process, Disable(p) \/ RemoveUnit(p) PROVE InstInv'
PROOF
<1> USE DEF InstInv
<1> DEFINE n == job[p].name
<1>1. n \in Name /\ unit \in [Name -> Identity \cup {Nobody}] BY TypeFacts DEF InstTypeOK
<1>2. CASE Disable(p)
  <2>1. /\ job[p].step = "disable" /\ enabled' = enabled \ {n} /\ job' = [job EXCEPT ![p].step = "remove"]
        /\ UNCHANGED <<registry, unit, kept, failed, disturbed>>
    BY <1>2 DEF Disable
  <2>2. /\ job' \in [Process -> Job] /\ \A q \in Process \ {p} : job'[q] = job[q]
        /\ job'[p].step = "remove" /\ job'[p].kind = job[p].kind /\ job'[p].name = n
        /\ job'[p].copy = job[p].copy /\ job'[p].alone = job[p].alone
    BY <2>1, GoesOn DEF InstStep
  <2>3. InstTypeOK' BY <2>1, <2>2 DEF InstTypeOK, Job, InstStep
  <2>4. disturbed = 0 /\ Underway(p) => Underway(p)'
    BY <2>1, <2>2 DEF Underway, Agree, Registered
  <2>5. p \in Busy /\ Removed(p)' BY <2>1, <2>2 DEF Busy, Removed
  <2>6. QED BY <2>1, <2>2, <2>3, <2>4, <2>5, StepKeeps
<1>3. CASE RemoveUnit(p)
  <2>1. /\ job[p].step = "remove" /\ unit' = [unit EXCEPT ![n] = Nobody] /\ kept' = kept \ {n}
        /\ job' = [job EXCEPT ![p].step = "unregister"]
        /\ UNCHANGED <<registry, enabled, failed, disturbed>>
    BY <1>3 DEF RemoveUnit
  <2>2. /\ job' \in [Process -> Job] /\ \A q \in Process \ {p} : job'[q] = job[q]
        /\ job'[p].step = "unregister" /\ job'[p].kind = job[p].kind /\ job'[p].name = n
        /\ job'[p].copy = job[p].copy /\ job'[p].alone = job[p].alone
    BY <2>1, GoesOn DEF InstStep
  <2>3. /\ unit' \in [Name -> Identity \cup {Nobody}] /\ unit'[n] = Nobody
        /\ \A m \in Name \ {n} : unit'[m] = unit[m]
    BY <1>1, <2>1
  <2>4. InstTypeOK' BY <2>1, <2>2, <2>3 DEF InstTypeOK, Job, InstStep
  <2>5. disturbed = 0 /\ Underway(p) => Underway(p)'
    <3> SUFFICES ASSUME disturbed = 0, Underway(p) PROVE Underway(p)' OBVIOUS
    <3>1. \A m \in Name \ {n} : Agree(m)' BY <2>1, <2>3 DEF Underway, Agree, Registered
    <3>2. n \notin enabled' /\ n \notin kept' BY <2>1 DEF Underway
    <3>3. QED BY <2>1, <2>2, <2>3, <3>1, <3>2 DEF Underway
  <2>6. p \in Busy BY <2>1 DEF Busy
  <2>7. Removed(p) => Removed(p)' BY <2>1, <2>2, <2>3 DEF Removed
  <2>8. QED BY <2>1, <2>2, <2>4, <2>5, <2>6, <2>7, StepKeeps
<1>4. QED BY <1>2, <1>3

LEMMA DisableFailsInv == ASSUME InstInv, NEW p \in Process, DisableFails(p) PROVE InstInv'
PROOF
<1> USE DEF InstInv
<1>1. /\ job[p].step = "disable" /\ disturbed < MaxDisturbances /\ disturbed' = disturbed + 1
      /\ job' = [job EXCEPT ![p].step = "remove", ![p].alone = FALSE]
      /\ UNCHANGED <<registry, unit, enabled, kept, failed>>
  BY DEF DisableFails
<1>2. /\ job' \in [Process -> Job] /\ \A q \in Process \ {p} : job'[q] = job[q]
      /\ job'[p].step = "remove" /\ job'[p].alone = FALSE
  <2>1. job \in [Process -> Job] /\ job[p] \in Job BY InstFacts
  <2>2. job[p] = [kind |-> job[p].kind, step |-> job[p].step, name |-> job[p].name, copy |-> job[p].copy,
                  alone |-> job[p].alone]
        /\ job[p].kind \in Kind /\ job[p].name \in Name /\ job[p].copy \in Registry
    BY <2>1 DEF Job
  <2>3. job' = [job EXCEPT ![p] = [[job[p] EXCEPT !.step = "remove"] EXCEPT !.alone = FALSE]] BY <1>1, <2>1
  <2>4. job'[p] = [kind |-> job[p].kind, step |-> "remove", name |-> job[p].name, copy |-> job[p].copy,
                   alone |-> FALSE]
    BY <2>1, <2>2, <2>3
  <2>5. job'[p] \in Job BY <2>2, <2>4 DEF Job, InstStep
  <2>6. QED BY <2>1, <2>3, <2>4, <2>5
<1>3. disturbed \in Nat /\ disturbed' \in 0..MaxDisturbances /\ disturbed' # 0
  BY <1>1, DisturbancesAssumption DEF InstTypeOK
<1>4. InstTypeOK' BY <1>1, <1>2, <1>3 DEF InstTypeOK, Job, InstStep
<1>5. Solo' BY <1>3 DEF Solo
<1>6. ToItself'
  <2> SUFFICES ASSUME NEW q \in Busy', job'[q].alone PROVE FALSE BY DEF ToItself
  <2>1. q # p /\ q \in Busy /\ p \in Busy /\ job[q].alone BY <1>1, <1>2 DEF Busy
  <2>2. Busy = {q} BY <2>1 DEF ToItself
  <2>3. QED BY <2>1, <2>2
<1>7. QED BY <1>4, <1>5, <1>6

LEMMA UnregisterInv == ASSUME InstInv, NEW p \in Process, Unregister(p) PROVE InstInv'
PROOF
<1> USE DEF InstInv
<1> DEFINE n == job[p].name
<1>1. /\ job[p].step = "unregister" /\ Done(p) /\ Replaced(p, Without(p)) /\ failed' = failed \ {n}
      /\ UNCHANGED <<unit, enabled, kept, disturbed>>
  BY DEF Unregister
<1>2. p \in Busy /\ Without(p) \in Registry BY <1>1, TypeFacts DEF Busy
<1>7. registry' \in Registry /\ (disturbed = 0 => registry' = Without(p)) BY <1>1, <1>2, Replacing
<1>3. job' \in [Process -> Job] /\ job'[p].step = "idle" /\ \A q \in Process \ {p} : job'[q] = job[q]
  BY <1>1, IsDone
<1>4. InstTypeOK' BY <1>1, <1>2, <1>3, <1>7 DEF InstTypeOK, Job, InstStep
<1>5. disturbed = 0 /\ Underway(p) => \A m \in Name : Agree(m)'
  <2> SUFFICES ASSUME disturbed = 0, Underway(p), NEW m \in Name PROVE Agree(m)' OBVIOUS
  <2>1. CASE m # n
    <3>1. registry'[m] = registry[m] BY <1>7, <2>1, TypeFacts DEF Underway
    <3>2. QED BY <1>1, <2>1, <3>1 DEF Underway, Agree, Registered
  <2>2. CASE m = n BY <1>1, <1>7, <2>2, TypeFacts DEF Underway, Agree
  <2>3. QED BY <2>1, <2>2
<1>6. QED BY <1>1, <1>2, <1>3, <1>4, <1>5, StepKeeps

LEMMA KillInv == ASSUME InstInv, NEW p \in Process, Kill(p) PROVE InstInv'
PROOF
<1> USE DEF InstInv
<1>1. /\ job[p].step # "idle" /\ disturbed < MaxDisturbances /\ Done(p) /\ disturbed' = disturbed + 1
      /\ UNCHANGED <<registry, unit, enabled, kept, failed>>
  BY DEF Kill
<1>2. job' \in [Process -> Job] /\ job'[p].step = "idle" /\ \A q \in Process \ {p} : job'[q] = job[q]
  BY <1>1, IsDone
<1>3. disturbed \in Nat /\ disturbed' \in 0..MaxDisturbances /\ disturbed' # 0
  BY <1>1, DisturbancesAssumption DEF InstTypeOK
<1>4. InstTypeOK' BY <1>1, <1>2, <1>3 DEF InstTypeOK, Job, InstStep
<1>5. Solo' BY <1>3 DEF Solo
<1>6. ToItself'
  <2> SUFFICES ASSUME NEW q \in Busy', job'[q].alone PROVE Busy' = {q} /\ Removed(q)' BY DEF ToItself
  <2>1. q \in Busy /\ q # p /\ job[q].alone /\ p \in Busy BY <1>1, <1>2 DEF Busy
  <2>2. Busy = {q} BY <2>1 DEF ToItself
  <2>3. QED BY <2>1, <2>2
<1>7. QED BY <1>4, <1>5, <1>6

LEMMA InstStepInv == InstInv /\ [InstNext]_instVars => InstInv'
PROOF
<1> SUFFICES ASSUME InstInv, [InstNext]_instVars PROVE InstInv' OBVIOUS
<1>1. ASSUME NEW p \in Process, NEW kind \in Kind, NEW n \in Name, Begin(p, kind, n) PROVE InstInv'
  BY <1>1, BeginInv
<1>2. ASSUME NEW p \in Process,
             \/ Save(p) \/ WriteUnit(p) \/ Enable(p) \/ EnableFails(p)
             \/ Disable(p) \/ DisableFails(p) \/ RemoveUnit(p) \/ Unregister(p) \/ Kill(p)
      PROVE  InstInv'
  BY <1>2, SaveInv, WriteUnitInv, EnableInv, RemoveInv, DisableFailsInv,
     UnregisterInv, KillInv
<1>3. CASE UNCHANGED instVars
  <2>1. InstTypeOK' BY <1>3 DEF instVars, InstInv, InstTypeOK
  <2>2. Solo' BY <1>3 DEF instVars, InstInv, Solo, Busy, Underway, Agree, Registered
  <2>3. ToItself' BY <1>3 DEF instVars, InstInv, ToItself, Busy, Removed
  <2>4. QED BY <2>1, <2>2, <2>3 DEF InstInv
<1>4. QED BY <1>1, <1>2, <1>3 DEF InstNext

LEMMA InstAlways == InstSpec => []InstInv
PROOF BY InstInitInv, InstStepInv, PTL DEF InstSpec

\* Every variable of the instances keeps its type.
THEOREM InstTypeCorrect == InstSpec => []InstTypeOK
PROOF BY InstAlways, PTL DEF InstInv

\* Between operations that nothing disturbed the registry and systemd agree, for any number of
\* names, processes and operations: creations that systemd refuses and destroys leave nothing
\* but what AgreeAtRest says.
THEOREM RegistryAgreesAtRest == InstSpec => []AgreeAtRest
PROOF
<1>1. InstInv => AgreeAtRest BY DEF InstInv, Solo, AgreeAtRest, Agree
<1>2. QED BY <1>1, InstAlways, PTL

\* A destroy that had the box to itself leaves nothing of the instance (destroy_instance), however
\* often operations were killed or overlapped before it.
THEOREM DestroyedStaysGone == InstSpec => DestroyedIsGone
PROOF
<1> DEFINE Gone == \A p \in Process :
       job[p].step = "unregister" /\ job[p].alone /\ job'[p].step = "idle" /\ disturbed' = disturbed
         => LET n == job[p].name IN
            ~Registered(registry', n) /\ n \notin enabled' /\ unit'[n] = Nobody /\ n \notin kept'
<1>1. InstInv /\ [InstNext]_instVars => [Gone]_instVars
  <2> SUFFICES ASSUME InstInv, InstNext,
                      NEW p \in Process, job[p].step = "unregister", job[p].alone,
                      job'[p].step = "idle", disturbed' = disturbed
               PROVE  LET n == job[p].name IN
                      ~Registered(registry', n) /\ n \notin enabled' /\ unit'[n] = Nobody /\ n \notin kept'
    OBVIOUS
  <2> USE DEF InstInv
  <2>1. Busy = {p} /\ Removed(p) /\ disturbed \in Nat
    BY DisturbancesAssumption DEF ToItself, Busy, InstTypeOK
  <2>2. Unregister(p)
    <3>1. ASSUME NEW q \in Process, NEW kind \in Kind, NEW n \in Name, Begin(q, kind, n) PROVE FALSE
      BY <2>1, <3>1 DEF Begin
    <3>2. ASSUME NEW q \in Process, Kill(q) PROVE FALSE BY <2>1, <3>2 DEF Kill
    <3>3. ASSUME NEW q \in Process,
                 \/ Save(q) \/ WriteUnit(q) \/ Enable(q) \/ EnableFails(q)
                 \/ Disable(q) \/ DisableFails(q) \/ RemoveUnit(q)
          PROVE  FALSE
      <4>1. job[q].step \in {"save", "write", "enable", "disable", "remove"}
        BY <3>3 DEF Save, WriteUnit, Enable, EnableFails, Disable, DisableFails, RemoveUnit
      <4>2. q \in Busy BY <4>1 DEF Busy
      <4>3. QED BY <2>1, <4>1, <4>2
    <3>4. ASSUME NEW q \in Process, Unregister(q) PROVE q = p
      BY <2>1, <3>4 DEF Unregister, Busy
    <3>5. QED BY <3>1, <3>2, <3>3, <3>4 DEF InstNext
  <2>4. registry' = Without(p) BY <2>1, <2>2, TypeFacts, Replacing DEF Unregister, Busy, InstInv
  <2>3. QED BY <2>1, <2>2, <2>4, TypeFacts DEF Unregister, Removed
<1>2. QED BY <1>1, InstAlways, PTL DEF InstSpec, DestroyedIsGone
-----------------------------------------------------------------------------
(* Delivery                                                                *)

Stage == {"open", "multi", "single", "again", "waiting", "checking", "done"}
MapEntry == [name : Snapshot, cam : Source]

\* A map of names with one more holds what it held, but for what was dropped, and stays bounded.
LEMMA WithNameKeeps ==
  ASSUME NEW map \in Seq(MapEntry), Len(map) <= MapMax, NEW n \in Snapshot, NEW cam \in Source
  PROVE  LET after == WithName(map, n, cam) IN
         /\ after \in Seq(MapEntry) /\ Len(after) <= MapMax
         /\ \A i \in DOMAIN after : \/ after[i] = [name |-> n, cam |-> cam]
                                    \/ \E j \in DOMAIN map : after[i] = map[j]
PROOF
<1> USE LimitAssumption
<1> DEFINE new == [name |-> n, cam |-> cam]
           all == IF \E i \in DOMAIN map : map[i].name = n
                  THEN [i \in DOMAIN map |-> IF map[i].name = n THEN new ELSE map[i]]
                  ELSE Append(map, new)
           drop == IF Len(all) > MapMax THEN Len(all) - MapMax ELSE 0
           after == SubSeq(all, 1 + drop, Len(all))
<1>1. new \in MapEntry BY DEF MapEntry
<1>2. all \in Seq(MapEntry) /\ \A i \in 1..Len(all) : all[i] = new \/ \E j \in DOMAIN map : all[i] = map[j]
  <2>1. CASE \E i \in DOMAIN map : map[i].name = n BY <1>1, <2>1
  <2>2. CASE ~\E i \in DOMAIN map : map[i].name = n
    <3>1. all = Append(map, new) BY <2>2
    <3>2. QED BY <1>1, <3>1, AppendProperties
  <2>3. QED BY <2>1, <2>2
<1> HIDE DEF all
<1>3. Len(all) \in Nat /\ drop \in Nat /\ Len(all) - drop <= MapMax /\ drop <= Len(all) BY <1>2
<1> HIDE DEF drop
<1>4. \A i \in 1 + drop .. Len(all) : all[i] \in MapEntry BY <1>2, <1>3
<1>5. 1 + drop \in Int /\ Len(all) \in Int BY <1>3
<1>6. /\ after \in Seq(MapEntry) /\ Len(after) = Len(all) - drop
      /\ \A i \in 1 .. Len(all) - drop : after[i] = all[drop + i]
  <2>1. /\ after \in Seq(MapEntry)
        /\ Len(after) = IF 1 + drop <= Len(all) THEN Len(all) - (1 + drop) + 1 ELSE 0
        /\ \A i \in 1 .. Len(all) - (1 + drop) + 1 : after[i] = all[(1 + drop) + i - 1]
    BY <1>4, <1>5, SubSeqProperties
  <2>2. Len(all) - (1 + drop) + 1 = Len(all) - drop BY <1>3
  <2>3. Len(after) = Len(all) - drop BY <1>3, <2>1
  <2>4. \A i \in 1 .. Len(all) - drop : (1 + drop) + i - 1 = drop + i BY <1>3
  <2>5. QED BY <2>1, <2>2, <2>3, <2>4
<1> HIDE DEF after
<1>7. \A i \in DOMAIN after : after[i] = new \/ \E j \in DOMAIN map : after[i] = map[j]
  <2> SUFFICES ASSUME NEW i \in DOMAIN after
               PROVE  after[i] = new \/ \E j \in DOMAIN map : after[i] = map[j]
    OBVIOUS
  <2>1. i \in 1 .. Len(all) - drop BY <1>6
  <2>2. after[i] = all[drop + i] /\ drop + i \in 1 .. Len(all) BY <1>3, <1>6, <2>1
  <2>3. QED BY <1>2, <2>2
<1>8. after = WithName(map, n, cam) BY DEF WithName, after, drop, all
<1>9. QED BY <1>3, <1>6, <1>7, <1>8

-----------------------------------------------------------------------------
\* How often an event was left, by how far closing it is.
LeftSoFar ==
  \A l \in LeaveId :
    /\ leaving[l] = "open" => names[l] = {}
    /\ leaving[l] \in {"open", "multi", "single"} => got[l] = 0
    /\ leaving[l] \in {"waiting", "checking"} => got[l] = 1
    /\ leaving[l] = "again" => got[l] <= 1

\* A leave that waits and shares no picture is waited for under all its names, until one was
\* asked for: then it is marked, or the receiver is about to, or the timer looked in between.
Waits(l) == leaving[l] = "waiting" => Taken(l) \/ l \in seen \/ \A n \in names[l] : pending[n] = l
Answers(l) ==
  l \in answered =>
    /\ Taken(l) \/ l \in seen \/ l \in raced
    /\ leaving[l] \in {"waiting", "checking", "again", "done"}
    /\ l \notin raced => leaving[l] # "again" /\ got[l] = 1
Awaited == \A l \in LeaveId : ~SharesName(l) => Waits(l) /\ Answers(l)

\* What is in the map was announced like that; a name that was announced is in the map, unless
\* it was forgotten.
Announced(n, cam) == \E l \in LeaveId : n \in names[l] /\ LeaveCamera[l] = cam
Remembered == NamesIn(records) \cup forgotten
MapIsTrue == \A i \in DOMAIN records : Announced(records[i].name, records[i].cam)
Recorded ==
  /\ \A l \in LeaveId : leaving[l] = "multi" => names[l] \ unnamed[l] \subseteq Remembered
  /\ \A l \in LeaveId : unnamed[l] \subseteq names[l]
  /\ shown \subseteq Remembered /\ \A r \in asked : r.name \in shown
  /\ taking # NoRequest => taking.name \in shown

DeliveryInv ==
  DeliveryTypeOK /\ LeftSoFar /\ Awaited /\ MapIsTrue /\ Recorded /\ RightCamera

\* A name is recorded: what the map says and remembers afterwards.
LEMMA RecordKeeps ==
  ASSUME DeliveryTypeOK, MapIsTrue, NEW l \in LeaveId, NEW n \in names[l], Record(l, n),
         UNCHANGED names
  PROVE  /\ records' \in Seq(MapEntry) /\ Len(records') <= MapMax
         /\ forgotten' \subseteq Snapshot /\ forgotten \subseteq forgotten'
         /\ MapIsTrue' /\ Remembered \cup {n} \subseteq Remembered'
PROOF
<1> DEFINE cam == LeaveCamera[l]
<1>1. n \in Snapshot /\ cam \in Source /\ records \in Seq(MapEntry) /\ Len(records) <= MapMax
  BY DEF DeliveryTypeOK, Source, MapEntry
<1>2. records' = WithName(records, n, cam) BY DEF Record
<1>3. /\ records' \in Seq(MapEntry) /\ Len(records') <= MapMax
      /\ \A i \in DOMAIN records' : \/ records'[i] = [name |-> n, cam |-> cam]
                                    \/ \E j \in DOMAIN records : records'[i] = records[j]
  BY <1>1, <1>2, WithNameKeeps
<1>5. \A k \in NamesIn(records) : k \in Snapshot
  <2> SUFFICES ASSUME NEW i \in DOMAIN records PROVE records[i].name \in Snapshot BY DEF NamesIn
  <2>1. records[i] \in MapEntry BY <1>1
  <2>2. QED BY <2>1 DEF MapEntry
<1>6. /\ forgotten \subseteq forgotten' /\ forgotten' \subseteq forgotten \cup NamesIn(records) \cup {n}
      /\ (NamesIn(records) \cup {n}) \ NamesIn(records') \subseteq forgotten'
  BY DEF Record
<1>7. MapIsTrue' BY <1>3 DEF MapIsTrue, Announced
<1>8. QED BY <1>1, <1>3, <1>5, <1>6, <1>7 DEF Remembered, DeliveryTypeOK

LEMMA DeliveryInitInv == DeliveryInit => DeliveryInv
PROOF
<1> SUFFICES ASSUME DeliveryInit PROVE DeliveryInv OBVIOUS
<1> USE LimitAssumption
<1>1. DeliveryTypeOK BY DEF DeliveryInit, DeliveryTypeOK
<1>2. LeftSoFar /\ Awaited BY DEF DeliveryInit, LeftSoFar, Awaited, Waits, Answers, Taken
<1>3. MapIsTrue /\ Recorded /\ RightCamera
  BY DEF DeliveryInit, MapIsTrue, Recorded, RightCamera
<1>4. QED BY <1>1, <1>2, <1>3 DEF DeliveryInv

\* A name that more leaves announce is shared by no fewer of them.
LEMMA NamesGrow ==
  ASSUME \A l \in LeaveId : names[l] \subseteq names'[l]
  PROVE  /\ \A n, cam : Announced(n, cam) => Announced(n, cam)'
         /\ \A l \in LeaveId : SharesName(l) => SharesName(l)'
PROOF BY DEF Announced, SharesName

\* The camera the map says a name is of announced it.
LEMMA CameraOfAnnounced ==
  ASSUME DeliveryTypeOK, MapIsTrue, NEW n, Known(n)
  PROVE  CameraOf(n) \in Source /\ Announced(n, CameraOf(n))
PROOF
<1> DEFINE j == CHOOSE i \in DOMAIN records : records[i].name = n
<1>1. j \in DOMAIN records /\ records[j].name = n BY DEF Known, NamesIn
<1>2. CameraOf(n) = records[j].cam BY DEF CameraOf
<1> HIDE DEF j
<1>3. records \in Seq(MapEntry) BY DEF DeliveryTypeOK, MapEntry
<1>4. records[j] \in MapEntry BY <1>1, <1>3
<1>5. QED BY <1>1, <1>2, <1>4 DEF MapIsTrue, MapEntry

-----------------------------------------------------------------------------
\* Each step keeps the invariant.
LEMMA ClosesInv ==
  ASSUME DeliveryInv, NEW l \in LeaveId, Closes(l) PROVE DeliveryInv'
PROOF
<1> USE DEF DeliveryInv
<1>1. PICK set \in SUBSET Snapshot :
        /\ names' = [names EXCEPT ![l] = set]
        /\ \/ leaving' = [leaving EXCEPT ![l] = "multi"] /\ unnamed' = [unnamed EXCEPT ![l] = set]
           \/ leaving' = [leaving EXCEPT ![l] = "single"] /\ unnamed' = unnamed
  BY DEF Closes, Then
<1>2. leaving[l] = "open" /\ names[l] = {} BY DEF Closes, LeftSoFar
<1>3. DeliveryTypeOK' BY <1>1 DEF Closes, Requests, DeliveryTypeOK
<1>4. LeftSoFar' BY <1>1, <1>2 DEF Closes, LeftSoFar, DeliveryTypeOK
<1>5. \A k \in LeaveId : names[k] \subseteq names'[k] /\ (k # l => names'[k] = names[k])
  BY <1>1, <1>2 DEF DeliveryTypeOK
<1>6. /\ \A n, cam : Announced(n, cam) => Announced(n, cam)'
      /\ \A k \in LeaveId : SharesName(k) => SharesName(k)'
  BY <1>5, NamesGrow
<1>7. Awaited'
  BY <1>1, <1>2, <1>5, <1>6 DEF Awaited, Waits, Answers, Taken, Closes, Requests, DeliveryTypeOK
<1>8. MapIsTrue' /\ RightCamera'
  <2>1. UNCHANGED <<records, uploads, forgotten>> BY DEF Closes, Requests
  <2>2. MapIsTrue'
    <3> SUFFICES ASSUME NEW i \in DOMAIN records PROVE Announced(records[i].name, records[i].cam)'
      BY <2>1 DEF MapIsTrue
    <3>1. QED BY <1>6, <2>1 DEF MapIsTrue, Announced
  <2>3. RightCamera' BY <1>5, <2>1 DEF RightCamera
  <2>4. QED BY <2>2, <2>3
<1>9. Recorded' BY <1>1, <1>2, <1>5 DEF Recorded, Remembered, Closes, Requests, DeliveryTypeOK
<1>10. QED BY <1>3, <1>4, <1>7, <1>8, <1>9

LEMMA RecordingInv ==
  ASSUME DeliveryInv, NEW l \in LeaveId, RecordsName(l) \/ RecordFails(l) \/ SendSingle(l)
  PROVE  DeliveryInv'
PROOF
<1> USE DEF DeliveryInv
<1>1. PICK n \in names[l] :
        /\ Record(l, n)
        /\ \/ /\ unnamed' = [unnamed EXCEPT ![l] = @ \ {n}]
              /\ leaving' = leaving /\ got' = got /\ shown' = shown
           \/ /\ unnamed' = [unnamed EXCEPT ![l] = {}] /\ leaving[l] = "multi"
              /\ leaving' = [leaving EXCEPT ![l] = "again"] /\ got' = got /\ shown' = shown
           \/ /\ unnamed' = unnamed /\ leaving[l] \in {"single", "again"}
              /\ leaving' = [leaving EXCEPT ![l] = "done"]
              /\ \/ got' = got /\ shown' = shown
                 \/ got' = [got EXCEPT ![l] = @ + 1] /\ shown' = shown \cup {n}
  <2>1. CASE RecordsName(l) BY <2>1 DEF RecordsName, Recorded
  <2>2. CASE RecordFails(l) BY <2>2 DEF RecordFails, Recorded, Then
  <2>3. CASE SendSingle(l) BY <2>3 DEF SendSingle, Arrived, Then
  <2>4. QED BY <2>1, <2>2, <2>3
<1>2. UNCHANGED <<names, pending, seen, streaming, raised, Requests>>
  BY DEF RecordsName, RecordFails, SendSingle
<1>3. /\ records' \in Seq(MapEntry) /\ Len(records') <= MapMax
      /\ forgotten' \subseteq Snapshot /\ forgotten \subseteq forgotten'
      /\ MapIsTrue' /\ Remembered \cup {n} \subseteq Remembered'
  BY <1>1, <1>2, RecordKeeps
<1>4. RightCamera' BY <1>2, <1>3 DEF RightCamera, Requests
<1>5. leaving[l] \in {"multi", "single", "again"}
  BY DEF RecordsName, RecordFails, SendSingle
<1>6. \/ leaving' = leaving /\ got' = got /\ shown' = shown
      \/ leaving' = [leaving EXCEPT ![l] = "again"] /\ got' = got /\ shown' = shown /\ leaving[l] = "multi"
      \/ /\ leaving' = [leaving EXCEPT ![l] = "done"] /\ leaving[l] \in {"single", "again"}
         /\ \/ got' = got /\ shown' = shown
            \/ got' = [got EXCEPT ![l] = @ + 1] /\ shown' = shown \cup {n}
  BY <1>1
<1>7. unnamed' \in [LeaveId -> SUBSET Snapshot] /\ \A k \in LeaveId : unnamed'[k] \subseteq names'[k]
  BY <1>1, <1>2 DEF Recorded, DeliveryTypeOK
<1>8. got \in [LeaveId -> 0..2] /\ leaving \in [LeaveId -> Stage] BY DEF DeliveryTypeOK, Stage
<1>9. leaving[l] \in {"single", "again"} => got[l] \in 0..1
  <2>1. got[l] \in 0..2 BY <1>8
  <2>2. QED BY <2>1 DEF LeftSoFar
<1>10. DeliveryTypeOK'
  <2>1. n \in Snapshot BY DEF DeliveryTypeOK
  <2>2. got' \in [LeaveId -> 0..2] BY <1>6, <1>8, <1>9
  <2>3. leaving' \in [LeaveId -> {"open", "multi", "single", "again", "waiting", "checking", "done"}]
    BY <1>6 DEF DeliveryTypeOK
  <2>4. shown' \subseteq Snapshot BY <1>6, <2>1 DEF DeliveryTypeOK
  <2>5. QED BY <1>2, <1>3, <1>7, <2>2, <2>3, <2>4 DEF DeliveryTypeOK, Requests, MapEntry
<1>11. LeftSoFar' BY <1>2, <1>5, <1>6, <1>8, <1>9 DEF LeftSoFar
<1>12. Awaited'
  <2>1. \A k \in LeaveId : SharesName(k)' <=> SharesName(k) BY <1>2 DEF SharesName
  <2>2. \A k \in LeaveId \ {l} : leaving'[k] = leaving[k] /\ got'[k] = got[k] BY <1>6, <1>8
  <2>3. leaving'[l] # "waiting" BY <1>5, <1>6, <1>8
  <2>4. ASSUME ~SharesName(l), l \in answered PROVE l \in raced /\ leaving'[l] \in {"again", "done"}
    <3>1. leaving[l] = "again" /\ l \in raced BY <1>5, <2>4 DEF Awaited, Answers
    <3>2. QED BY <1>6, <1>8, <3>1
  <2>5. ASSUME NEW k \in LeaveId, ~SharesName(k) PROVE Waits(k)' /\ Answers(k)'
    <3>1. Waits(k) /\ Answers(k) BY <2>5 DEF Awaited
    <3>2. CASE k = l BY <1>2, <2>3, <2>4, <2>5, <3>1, <3>2 DEF Waits, Answers, Taken, Requests
    <3>3. CASE k # l BY <1>2, <2>2, <3>1, <3>3 DEF Waits, Answers, Taken, Requests
    <3>4. QED BY <3>2, <3>3
  <2>6. QED BY <2>1, <2>5 DEF Awaited
<1>13. Recorded'
  <2>1. /\ asked' = asked /\ taking' = taking
        /\ shown \subseteq shown' /\ shown' \subseteq shown \cup {n}
    BY <1>2, <1>6 DEF Requests
  <2>2. /\ shown' \subseteq Remembered' /\ \A r \in asked' : r.name \in shown'
        /\ taking' # NoRequest => taking'.name \in shown'
    BY <1>3, <2>1 DEF Recorded
  <2>3. ASSUME NEW k \in LeaveId, leaving'[k] = "multi" PROVE names'[k] \ unnamed'[k] \subseteq Remembered'
    <3>1. leaving[k] = "multi" BY <1>6, <1>8, <2>3
    <3>2. names[k] \ unnamed[k] \subseteq Remembered BY <3>1 DEF Recorded
    <3>3. unnamed[k] \ {n} \subseteq unnamed'[k] BY <1>1, <1>8, <2>3 DEF DeliveryTypeOK
    <3>4. QED BY <1>2, <1>3, <3>2, <3>3
  <2>4. QED BY <1>7, <2>2, <2>3 DEF Recorded
<1>14. QED BY <1>3, <1>4, <1>10, <1>11, <1>12, <1>13

LEMMA SendMultiInv ==
  ASSUME DeliveryInv, NEW l \in LeaveId, SendMulti(l) \/ SendMultiFails(l) PROVE DeliveryInv'
PROOF
<1> USE DEF DeliveryInv
<1>1. /\ leaving[l] = "multi" /\ unnamed[l] = {}
      /\ pending' = [n \in Snapshot |-> IF n \in names[l] THEN l ELSE pending[n]]
      /\ UNCHANGED <<records, names, unnamed, seen, streaming, Requests, forgotten>>
  BY DEF SendMulti, SendMultiFails
<1>2. \/ /\ leaving' = [leaving EXCEPT ![l] = "waiting"] /\ got' = [got EXCEPT ![l] = @ + 1]
         /\ shown' = shown \cup names[l] /\ raised' = raised
      \/ /\ leaving' = [leaving EXCEPT ![l] = "again"] /\ got' = got /\ shown' = shown
         /\ raised' = raised \cup {l}
  BY DEF SendMulti, SendMultiFails, Arrived, Then
<1>3. got[l] = 0 /\ got \in [LeaveId -> 0..2] /\ leaving \in [LeaveId -> Stage]
  BY <1>1 DEF LeftSoFar, DeliveryTypeOK, Stage
<1>4. DeliveryTypeOK'
  <2>1. got' \in [LeaveId -> 0..2] BY <1>2, <1>3
  <2>2. leaving' \in [LeaveId -> {"open", "multi", "single", "again", "waiting", "checking", "done"}]
    BY <1>2 DEF DeliveryTypeOK
  <2>3. pending' \in [Snapshot -> LeaveId \cup {NoLeave}] BY <1>1 DEF DeliveryTypeOK
  <2>4. shown' \subseteq Snapshot /\ raised' \subseteq LeaveId BY <1>2 DEF DeliveryTypeOK
  <2>5. QED BY <1>1, <2>1, <2>2, <2>3, <2>4 DEF DeliveryTypeOK, Requests
<1>5. LeftSoFar' BY <1>1, <1>2, <1>3 DEF LeftSoFar
<1>6. Awaited'
  <2>1. \A k \in LeaveId : SharesName(k)' <=> SharesName(k) BY <1>1 DEF SharesName
  <2>2. \A k \in LeaveId \ {l} : leaving'[k] = leaving[k] /\ got'[k] = got[k] BY <1>2, <1>3
  <2>3. \A n \in names[l] : n \in Snapshot /\ pending'[n] = l BY <1>1 DEF DeliveryTypeOK
  <2>4. \A k \in LeaveId \ {l} : ~SharesName(k) => \A n \in names[k] : pending'[n] = pending[n]
    BY <1>1 DEF SharesName, DeliveryTypeOK
  <2>5. ~SharesName(l) => l \notin answered BY <1>1 DEF Awaited, Answers
  <2>6. UNCHANGED <<answered, seen, names, taking, raced>> BY <1>1 DEF Requests
  <2>7. QED BY <2>1, <2>2, <2>3, <2>4, <2>5, <2>6 DEF Awaited, Waits, Answers, Taken
<1>7. MapIsTrue' /\ RightCamera' BY <1>1 DEF MapIsTrue, RightCamera, Announced, Requests
<1>8. Recorded'
  <2>1. names[l] \subseteq Remembered BY <1>1 DEF Recorded
  <2>2. UNCHANGED <<Remembered, asked, taking, names, unnamed>> BY <1>1 DEF Remembered, Requests, NamesIn
  <2>3. shown' \subseteq Remembered /\ shown \subseteq shown' BY <1>2, <2>1 DEF Recorded
  <2>4. \A k \in LeaveId : leaving'[k] = "multi" => leaving[k] = "multi" BY <1>2, <1>3
  <2>5. QED BY <2>2, <2>3, <2>4 DEF Recorded
<1>9. QED BY <1>4, <1>5, <1>6, <1>7, <1>8

LEMMA UnawaitsInv ==
  ASSUME DeliveryInv, NEW l \in LeaveId, NEW n \in Snapshot, Unawaits(l, n) PROVE DeliveryInv'
PROOF
<1> USE DEF DeliveryInv
<1>1. /\ leaving[l] \in {"waiting", "checking"} /\ n \in names[l] \cup unnamed[l]
      /\ leaving' = [leaving EXCEPT ![l] = "checking"]
      /\ pending' = [pending EXCEPT ![n] = NoLeave]
      /\ UNCHANGED <<records, names, seen, got, shown, streaming, raised, Requests, forgotten>>
  BY DEF Unawaits, Then
<1>2. got[l] = 1 /\ leaving \in [LeaveId -> Stage] /\ n \in names[l]
  BY <1>1 DEF LeftSoFar, DeliveryTypeOK, Stage, Recorded
<1>3. unnamed' \in [LeaveId -> SUBSET Snapshot]
  BY DEF Unawaits, DeliveryTypeOK
<1>4. /\ \A k \in LeaveId \ {l} : unnamed'[k] = unnamed[k]
      /\ unnamed'[l] \subseteq names[l]
  BY DEF Unawaits, DeliveryTypeOK, Recorded
<1>5. DeliveryTypeOK'
  <2>1. pending' \in [Snapshot -> LeaveId \cup {NoLeave}] BY <1>1 DEF DeliveryTypeOK
  <2>2. QED BY <1>1, <1>3, <2>1 DEF DeliveryTypeOK, Requests
<1>6. LeftSoFar' BY <1>1, <1>2 DEF LeftSoFar
<1>7. Awaited'
  <2>1. \A k \in LeaveId : SharesName(k)' <=> SharesName(k) BY <1>1 DEF SharesName
  <2>2. ASSUME NEW k \in LeaveId, ~SharesName(k) PROVE Waits(k)' /\ Answers(k)'
    <3>1. Waits(k) /\ Answers(k) BY <2>2 DEF Awaited
    <3>2. CASE k = l
      <4>1. leaving'[k] = "checking" BY <1>1, <1>2, <3>2
      <4>2. k \in answered => leaving[k] # "again" /\ got[k] = 1 BY <1>1, <1>2, <3>2
      <4>3. QED BY <1>1, <3>1, <4>1, <4>2 DEF Waits, Answers, Taken, Requests
    <3>3. CASE k # l
      <4>1. n \notin names[k] BY <1>2, <2>2, <3>3 DEF SharesName
      <4>2. \A m \in names[k] : pending'[m] = pending[m] BY <1>1, <4>1 DEF DeliveryTypeOK
      <4>3. leaving'[k] = leaving[k] BY <1>1, <1>2, <3>3
      <4>4. QED BY <1>1, <3>1, <4>2, <4>3 DEF Waits, Answers, Taken, Requests
    <3>4. QED BY <3>2, <3>3
  <2>3. QED BY <2>1, <2>2 DEF Awaited
<1>8. MapIsTrue' /\ RightCamera' BY <1>1 DEF MapIsTrue, RightCamera, Announced, Requests
<1>9. Recorded'
  <2>1. UNCHANGED <<Remembered, asked, taking, names, shown>> BY <1>1 DEF Remembered, Requests, NamesIn
  <2>2. \A k \in LeaveId : leaving'[k] = "multi" => k # l /\ leaving[k] = "multi" BY <1>1, <1>2
  <2>3. QED BY <1>4, <2>1, <2>2 DEF Recorded
<1>10. QED BY <1>5, <1>6, <1>7, <1>8, <1>9

LEMMA ChecksInv ==
  ASSUME DeliveryInv, NEW l \in LeaveId, Checks(l) PROVE DeliveryInv'
PROOF
<1> USE DEF DeliveryInv
<1>1. /\ leaving[l] = "checking"
      /\ leaving' = [leaving EXCEPT ![l] = IF l \in seen THEN "done" ELSE "again"]
      /\ raced' = IF Taken(l) THEN raced \cup {l} ELSE raced
      /\ UNCHANGED <<records, names, unnamed, pending, seen, got, shown, streaming, raised, taking,
                     asked, uploads, asks, answered, forgotten>>
  BY DEF Checks, Then
<1>2. got[l] = 1 /\ leaving \in [LeaveId -> Stage] BY <1>1 DEF LeftSoFar, DeliveryTypeOK, Stage
<1>3. DeliveryTypeOK' BY <1>1 DEF DeliveryTypeOK
<1>4. LeftSoFar' BY <1>1, <1>2 DEF LeftSoFar
<1>5. Awaited'
  <2>1. \A k \in LeaveId : SharesName(k)' <=> SharesName(k) BY <1>1 DEF SharesName
  <2>2. ASSUME NEW k \in LeaveId, ~SharesName(k) PROVE Waits(k)' /\ Answers(k)'
    <3>1. Waits(k) /\ Answers(k) BY <2>2 DEF Awaited
    <3>2. CASE k = l
      <4>1. leaving'[k] = IF k \in seen THEN "done" ELSE "again" BY <1>1, <1>2, <3>2
      <4>2. k \in raced' <=> k \in raced \/ Taken(k) BY <1>1, <3>2
      <4>3. got'[k] = 1 BY <1>1, <1>2, <3>2
      <4>4. QED BY <1>1, <3>1, <4>1, <4>2, <4>3 DEF Waits, Answers, Taken
    <3>3. CASE k # l
      <4>1. leaving'[k] = leaving[k] /\ (k \in raced' <=> k \in raced) BY <1>1, <1>2, <3>3
      <4>2. QED BY <1>1, <3>1, <4>1 DEF Waits, Answers, Taken
    <3>4. QED BY <3>2, <3>3
  <2>3. QED BY <2>1, <2>2 DEF Awaited
<1>6. MapIsTrue' /\ RightCamera' BY <1>1 DEF MapIsTrue, RightCamera, Announced
<1>7. Recorded'
  <2>1. UNCHANGED <<Remembered, asked, taking, names, unnamed, shown>> BY <1>1 DEF Remembered, NamesIn
  <2>2. \A k \in LeaveId : leaving'[k] = "multi" => leaving[k] = "multi" BY <1>1, <1>2
  <2>3. QED BY <2>1, <2>2 DEF Recorded
<1>8. QED BY <1>3, <1>4, <1>5, <1>6, <1>7

\* The receiver pops a request: an unshared leave that waits for it is then the one it holds.
LEMMA AskInv ==
  ASSUME DeliveryInv, NEW n \in Snapshot, Asks(n) PROVE DeliveryInv'
PROOF
<1> USE DEF DeliveryInv
<1>1. PICK cam \in Source \cup {Unsaid} : Ask(n, cam) BY DEF Asks, Source
<1>2. /\ asks' = asks + 1 /\ asks < MaxAsks /\ n \in shown /\ taking = NoRequest
      /\ taking' = [name |-> n, cam |-> cam, of |-> pending[n]]
      /\ pending' = [pending EXCEPT ![n] = NoLeave]
      /\ answered' = answered \cup {l \in LeaveId : leaving[l] = "waiting" /\ n \in names[l]}
      /\ UNCHANGED <<records, names, leaving, unnamed, seen, got, shown, asked, streaming, uploads,
                     raced, raised, forgotten>>
  BY <1>1 DEF Ask
<1>3. taking' \in Request BY <1>2 DEF Request, DeliveryTypeOK
<1>4. taking' # NoRequest /\ taking'.of = pending[n] /\ taking'.name = n
  BY <1>2, <1>3, RequestAssumption
<1>5. DeliveryTypeOK'
  <2>1. asks' \in 0..MaxAsks BY <1>2, LimitAssumption DEF DeliveryTypeOK
  <2>2. pending' \in [Snapshot -> LeaveId \cup {NoLeave}] BY <1>2 DEF DeliveryTypeOK
  <2>3. answered' \subseteq LeaveId BY <1>2 DEF DeliveryTypeOK
  <2>4. QED BY <1>2, <1>3, <2>1, <2>2, <2>3 DEF DeliveryTypeOK
<1>6. LeftSoFar' BY <1>2 DEF LeftSoFar
<1>7. Awaited'
  <2> SUFFICES ASSUME NEW l \in LeaveId, ~SharesName(l) PROVE Waits(l)' /\ Answers(l)'
    BY <1>2 DEF Awaited, SharesName
  <2>1. Waits(l) /\ Answers(l) BY DEF Awaited
  <2>2. \A m \in Snapshot \ {n} : pending'[m] = pending[m] BY <1>2 DEF DeliveryTypeOK
  <2>3. leaving[l] = "waiting" /\ n \in names[l] => Taken(l)' \/ l \in seen
    BY <1>2, <1>4, <2>1 DEF Waits, Taken
  <2>4. names[l] \subseteq Snapshot BY DEF DeliveryTypeOK
  <2>5. ~Taken(l) BY <1>2 DEF Taken
  <2>6. Waits(l)' BY <1>2, <2>1, <2>2, <2>3, <2>4, <2>5 DEF Waits
  <2>7. Answers(l)'
    <3>1. CASE l \in answered BY <1>2, <2>1, <2>5, <3>1 DEF Answers
    <3>2. CASE l \notin answered BY <1>2, <2>3, <3>2 DEF Answers, LeftSoFar
    <3>3. QED BY <3>1, <3>2
  <2>8. QED BY <2>6, <2>7
<1>8. MapIsTrue' /\ RightCamera' BY <1>2 DEF MapIsTrue, RightCamera, Announced
<1>9. Recorded' BY <1>2, <1>4 DEF Recorded, Remembered, NamesIn
<1>10. QED BY <1>5, <1>6, <1>7, <1>8, <1>9

\* It marks the leave it holds.
LEMMA MarksInv ==
  ASSUME DeliveryInv, Marks PROVE DeliveryInv'
PROOF
<1> USE DEF DeliveryInv
<1>1. /\ taking # NoRequest /\ taking' = NoRequest
      /\ seen' = seen \cup ({taking.of} \ {NoLeave})
      /\ asked' = asked \cup {[name |-> taking.name, cam |-> taking.cam]}
      /\ UNCHANGED <<records, names, leaving, unnamed, pending, got, shown, streaming, uploads, asks,
                     answered, raced, raised, forgotten>>
  BY DEF Marks
<1>2. taking \in Request BY <1>1 DEF DeliveryTypeOK
<1>3. /\ taking.of \in LeaveId \cup {NoLeave} /\ taking.name \in Snapshot
      /\ taking.cam \in Source \cup {Unsaid}
  BY <1>2 DEF Request
<1>4. DeliveryTypeOK'
  <2>1. seen' \subseteq LeaveId BY <1>1, <1>3 DEF DeliveryTypeOK
  <2>2. asked' \subseteq [name : Snapshot, cam : Source \cup {Unsaid}] BY <1>1, <1>3 DEF DeliveryTypeOK
  <2>3. QED BY <1>1, <2>1, <2>2 DEF DeliveryTypeOK
<1>5. LeftSoFar' BY <1>1 DEF LeftSoFar
<1>6. Awaited'
  <2>1. \A l \in LeaveId : SharesName(l)' <=> SharesName(l) BY <1>1 DEF SharesName
  <2>2. \A l \in LeaveId : Taken(l) \/ l \in seen => l \in seen' BY <1>1, LeaveAssumption DEF Taken
  <2>3. QED BY <1>1, <2>1, <2>2 DEF Awaited, Waits, Answers
<1>7. MapIsTrue' /\ RightCamera' BY <1>1 DEF MapIsTrue, RightCamera, Announced
<1>8. Recorded' BY <1>1 DEF Recorded, Remembered, NamesIn
<1>9. QED BY <1>4, <1>5, <1>6, <1>7, <1>8

LEMMA UploadInv ==
  ASSUME DeliveryInv, NEW r \in asked, Upload(r) PROVE DeliveryInv'
PROOF
<1> USE DEF DeliveryInv
<1>1. /\ asked' = asked \ {r}
      /\ uploads' \subseteq uploads \cup {[name |-> r.name, cam |-> cam] : cam \in Resolve(r)}
      /\ UNCHANGED <<records, names, leaving, unnamed, pending, seen, got, shown, taking, streaming, asks,
                     answered, raced, raised, forgotten>>
  BY DEF Upload
<1>2. r.name \in Snapshot /\ r.name \in Remembered BY DEF DeliveryTypeOK, Recorded
<1>3. Known(r.name) => /\ CameraOf(r.name) \in Source /\ Announced(r.name, CameraOf(r.name))
  BY CameraOfAnnounced
<1>4. Announcing \subseteq Source BY DEF Announcing, Source
<1>5. \A cam \in Resolve(r) : cam \in Source /\ (r.name \in forgotten \/ Announced(r.name, cam))
  <2>1. CASE Known(r.name) BY <1>3, <2>1 DEF Resolve
  <2>2. CASE ~Known(r.name)
    <3>1. r.name \in forgotten BY <1>2, <2>2 DEF Remembered, Known
    <3>2. Resolve(r) \subseteq Source BY <1>4, <2>2 DEF Resolve, DeliveryTypeOK
    <3>3. QED BY <3>1, <3>2
  <2>3. QED BY <2>1, <2>2
<1>6. DeliveryTypeOK'
  <2>1. uploads' \subseteq [name : Snapshot, cam : Source] BY <1>1, <1>2, <1>5 DEF DeliveryTypeOK
  <2>2. QED BY <1>1, <2>1 DEF DeliveryTypeOK
<1>7. LeftSoFar' /\ Awaited' BY <1>1 DEF LeftSoFar, Awaited, Waits, Answers, Taken, SharesName
<1>8. MapIsTrue' /\ Recorded' BY <1>1 DEF MapIsTrue, Recorded, Announced, Remembered, NamesIn
<1>9. RightCamera'
  <2> SUFFICES ASSUME NEW u \in uploads' PROVE u.name \in forgotten \/ Announced(u.name, u.cam)
    BY <1>1 DEF RightCamera, Announced
  <2>1. CASE u \in uploads BY <2>1 DEF RightCamera, Announced
  <2>2. CASE u \notin uploads
    <3>1. PICK cam \in Resolve(r) : u = [name |-> r.name, cam |-> cam] BY <1>1, <2>2
    <3>2. QED BY <1>5, <3>1
  <2>3. QED BY <2>1, <2>2
<1>10. QED BY <1>6, <1>7, <1>8, <1>9

LEMMA ForgetInv ==
  ASSUME DeliveryInv, Forget PROVE DeliveryInv'
PROOF
<1> USE DEF DeliveryInv
<1>1. /\ UNCHANGED <<names, leaving, unnamed, pending, seen, got, shown, taking, asked, streaming, uploads,
                     asks, answered, raced, raised>>
      /\ records' = <<>> /\ forgotten' = forgotten \cup NamesIn(records)
  BY DEF Forget, Requests
<1>2. NamesIn(records) \subseteq Snapshot
  <2> SUFFICES ASSUME NEW i \in DOMAIN records PROVE records[i].name \in Snapshot BY DEF NamesIn
  <2>1. records \in Seq(MapEntry) BY DEF DeliveryTypeOK, MapEntry
  <2>2. records[i] \in MapEntry BY <2>1
  <2>3. QED BY <2>2 DEF MapEntry
<1>3. Remembered' = Remembered BY <1>1 DEF Remembered, NamesIn
<1>4. DeliveryTypeOK'
  <2>1. Len(<<>>) = 0 /\ <<>> \in Seq([name : Snapshot, cam : Source]) OBVIOUS
  <2>2. records' \in Seq([name : Snapshot, cam : Source]) /\ Len(records') <= MapMax
    BY <1>1, <2>1, LimitAssumption
  <2>3. QED BY <1>1, <1>2, <2>2 DEF DeliveryTypeOK
<1>5. LeftSoFar' /\ Awaited' BY <1>1 DEF LeftSoFar, Awaited, Waits, Answers, Taken, SharesName
<1>6. MapIsTrue' /\ Recorded' BY <1>1, <1>3 DEF MapIsTrue, Recorded, Announced
<1>7. RightCamera' BY <1>1 DEF RightCamera
<1>8. QED BY <1>4, <1>5, <1>6, <1>7

-----------------------------------------------------------------------------
LEMMA DeliveryAlways == DeliverySpec => []DeliveryInv
PROOF
<1>1. DeliveryInv /\ [DeliveryNext]_deliveryVars => DeliveryInv'
  <2> SUFFICES ASSUME DeliveryInv, [DeliveryNext]_deliveryVars PROVE DeliveryInv' OBVIOUS
  <2>1. ASSUME NEW l \in LeaveId, Closes(l) PROVE DeliveryInv' BY <2>1, ClosesInv
  <2>2. ASSUME NEW l \in LeaveId, RecordsName(l) \/ RecordFails(l) \/ SendSingle(l) PROVE DeliveryInv'
    BY <2>2, RecordingInv
  <2>3. ASSUME NEW l \in LeaveId, SendMulti(l) \/ SendMultiFails(l) PROVE DeliveryInv' BY <2>3, SendMultiInv
  <2>4. ASSUME NEW l \in LeaveId, NEW n \in Snapshot, Unawaits(l, n) PROVE DeliveryInv' BY <2>4, UnawaitsInv
  <2>5. ASSUME NEW l \in LeaveId, Checks(l) PROVE DeliveryInv' BY <2>5, ChecksInv
  <2>6. ASSUME NEW n \in Snapshot, Asks(n) PROVE DeliveryInv' BY <2>6, AskInv
  <2>7. ASSUME NEW r \in asked, Upload(r) PROVE DeliveryInv' BY <2>7, UploadInv
  <2>8. CASE Marks BY <2>8, MarksInv
  <2>9. CASE Forget BY <2>9, ForgetInv
  <2>10. CASE UNCHANGED deliveryVars
    BY <2>10 DEF deliveryVars, DeliveryInv, DeliveryTypeOK, LeftSoFar, Awaited, Waits, Answers, Taken,
                 SharesName, MapIsTrue, Announced, Recorded, Remembered, NamesIn, RightCamera
  <2>11. QED BY <2>1, <2>2, <2>3, <2>4, <2>5, <2>6, <2>7, <2>8, <2>9, <2>10 DEF DeliveryNext
<1>2. QED BY <1>1, DeliveryInitInv, PTL DEF DeliverySpec

\* Every variable keeps its type, the map of announced names its bound.
THEOREM DeliveryTypeCorrect == DeliverySpec => []DeliveryTypeOK
PROOF BY DeliveryAlways, PTL DEF DeliveryInv

\* A multi-tracker leave Protect asked about in time is not followed by a single-tracker one,
\* whatever the fallback timer and the receiver thread do between one another's statements, unless
\* the timer looked just before the receiver marked the leave, or it shares a picture with another.
THEOREM NoticedOnce == DeliverySpec => []NoticedIsLeftOnce
PROOF
<1>1. DeliveryInv => NoticedIsLeftOnce
  BY DEF DeliveryInv, DeliveryTypeOK, Awaited, Answers, NoticedIsLeftOnce
<1>2. QED BY <1>1, DeliveryAlways, PTL

\* What is uploaded for a name is a picture of a camera that announced it, as long as the name
\* is remembered (_resolve_snapshot_device).
THEOREM PicturesOfTheirCamera == DeliverySpec => []RightCamera
PROOF BY DeliveryAlways, PTL DEF DeliveryInv

-----------------------------------------------------------------------------
(* Line crossing                                                           *)

\* A center is on one side of a line, on the other, or on it.
LEMMA SideIsInt == ASSUME NEW k \in Line, NEW pt \in Place PROVE Side(k, pt) \in Int
PROOF
<1> DEFINE p == Ends[k][1]
           q == Ends[k][2]
<1>1. p \in Int \X Int /\ q \in Int \X Int /\ pt \in Int \X Int BY PlaceAssumption
<1>2. \A a, b, c \in Int : a * b \in Int /\ a - c \in Int OBVIOUS
<1> HIDE DEF p, q
<1>3. p[1] \in Int /\ p[2] \in Int /\ q[1] \in Int /\ q[2] \in Int /\ pt[1] \in Int /\ pt[2] \in Int BY <1>1
<1>4. (q[1] - p[1]) * (pt[2] - p[2]) - (q[2] - p[2]) * (pt[1] - p[1]) \in Int BY <1>3
<1>5. QED BY <1>4 DEF Side, LineSide, p, q

Counts == [a2b : 0..MaxCrossings, b2a : 0..MaxCrossings, event : BOOLEAN]

\* While the track is there: what is in progress was crossed, of a line the camera has or lost,
\* or could not be left before; a line it began on, or is on, was touched; before it is
\* confirmed nothing counts.  A closed track's counts are those it will resume with.
Followed ==
  /\ state \in Tracked => \A k \in Line :
       /\ lineEdge[k] = "progress" => \/ crossings[k].event /\ k \in lines
                                      \/ k \in unsent \cup altered
       /\ Side(k, center) = 0 \/ Side(k, began) = 0 => k \in touched
  /\ state = "unconfirmed" => lineEdge = [k \in Line |-> "nothing"]
  /\ state \in {"unconfirmed", "closed"} =>
       \A k \in Line : base[k] = crossings[k].a2b - crossings[k].b2a

LineInv == LineTypeOK /\ Followed /\ LineEventsAreLeft /\ LeftIsOver /\ CrossingsAddUp

LEMMA UncrossedIsOne ==
  /\ Uncrossed \in Counts /\ Uncrossed.a2b = 0 /\ Uncrossed.b2a = 0 /\ ~Uncrossed.event
PROOF BY PlaceAssumption DEF Uncrossed, Counts

LEMMA LineInitInv == LineInit => LineInv
PROOF
<1> SUFFICES ASSUME LineInit PROVE LineInv OBVIOUS
<1>1. LineTypeOK BY UncrossedIsOne DEF LineInit, LineTypeOK, Track, Counts
<1>2. Followed /\ LineEventsAreLeft /\ LeftIsOver /\ CrossingsAddUp
  BY UncrossedIsOne DEF LineInit, Followed, Tracked, LineEventsAreLeft, LeftIsOver, CrossingsAddUp
<1>3. QED BY <1>1, <1>2 DEF LineInv

LEMMA CountOfMove ==
  ASSUME LineTypeOK, NEW k \in Line, NEW pt \in Place, Moves(pt)
  PROVE  /\ crossings'[k] \in Counts
         /\ k \notin CrossedBy(pt) => crossings'[k] = crossings[k]
         /\ k \in CrossedBy(pt) =>
              /\ crossings'[k].event
              /\ crossings'[k].a2b = crossings[k].a2b + (IF Side(k, center) < 0 THEN 1 ELSE 0)
              /\ crossings'[k].b2a = crossings[k].b2a + (IF Side(k, center) < 0 THEN 0 ELSE 1)
PROOF
<1>1. crossings[k] \in Counts BY DEF LineTypeOK, Counts
<1>2. crossings'[k] = IF k \in CrossedBy(pt)
                      THEN [crossings[k] EXCEPT ![Direction(k, center)] = @ + 1, !.event = TRUE]
                      ELSE crossings[k]
  BY DEF Moves
<1>3. k \in CrossedBy(pt) => crossings[k].a2b + crossings[k].b2a < MaxCrossings BY DEF Moves
<1>4. CASE k \notin CrossedBy(pt) BY <1>1, <1>2, <1>4
<1> DEFINE n == crossings[k].a2b
           m == crossings[k].b2a
           e == crossings[k].event
<1>5. crossings[k] = [a2b |-> n, b2a |-> m, event |-> e] BY <1>1 DEF Counts
<1>6. n \in Nat /\ m \in Nat BY <1>1 DEF Counts
<1>7. CASE k \in CrossedBy(pt) /\ Side(k, center) < 0
  <2>1. crossings'[k] = [crossings[k] EXCEPT !.a2b = @ + 1, !.event = TRUE]
    BY <1>2, <1>7 DEF Direction
  <2>2. crossings'[k] = [a2b |-> n + 1, b2a |-> m, event |-> TRUE] BY <1>5, <2>1
  <2>3. crossings'[k] \in Counts BY <1>3, <1>6, <1>7, <2>2, PlaceAssumption DEF Counts
  <2>4. QED BY <1>6, <1>7, <2>2, <2>3
<1>8. CASE k \in CrossedBy(pt) /\ ~(Side(k, center) < 0)
  <2>1. crossings'[k] = [crossings[k] EXCEPT !.b2a = @ + 1, !.event = TRUE]
    BY <1>2, <1>8 DEF Direction
  <2>2. crossings'[k] = [a2b |-> n, b2a |-> m + 1, event |-> TRUE] BY <1>5, <2>1
  <2>3. crossings'[k] \in Counts BY <1>3, <1>6, <1>8, <2>2, PlaceAssumption DEF Counts
  <2>4. QED BY <1>6, <1>8, <2>2, <2>3
<1>9. QED BY <1>4, <1>7, <1>8

LEMMA MovesInv ==
  ASSUME LineInv, NEW pt \in Place, Moves(pt) PROVE LineInv'
PROOF
<1> USE DEF LineInv
<1>1. /\ state \in Tracked /\ center' = pt /\ touched' = touched \cup {k \in Line : Side(k, pt) = 0}
      /\ UNCHANGED <<lines, state, began, base, altered>>
  BY DEF Moves
<1>2. PICK raising \in SUBSET CrossedBy(pt) :
        /\ lineEdge' = [k \in Line |-> IF k \in CrossedBy(pt) \ raising THEN "progress" ELSE lineEdge[k]]
        /\ unsent' = unsent \cup raising
  BY DEF Moves, Messages
<1>3. CrossedBy(pt) \subseteq lines BY DEF CrossedBy
<1>4. LineTypeOK'
  <2>1. crossings' \in [Line -> Counts] BY CountOfMove DEF Moves
  <2>2. lineEdge' \in [Line -> {"nothing", "progress", "left"}] BY <1>2 DEF LineTypeOK
  <2>3. QED BY <1>1, <1>2, <1>3, <2>1, <2>2 DEF LineTypeOK, Counts
<1>5. Followed'
  <2>1. ASSUME NEW k \in Line
        PROVE  /\ lineEdge'[k] = "progress" => \/ crossings'[k].event /\ k \in lines'
                                              \/ k \in unsent' \cup altered'
               /\ Side(k, center') = 0 \/ Side(k, began') = 0 => k \in touched'
    <3>1. lineEdge'[k] = "progress" => \/ crossings'[k].event /\ k \in lines'
                                       \/ k \in unsent' \cup altered'
      BY <1>1, <1>2, <1>3, CountOfMove DEF Followed
    <3>2. Side(k, center') = 0 \/ Side(k, began') = 0 => k \in touched' BY <1>1 DEF Followed
    <3>3. QED BY <3>1, <3>2
  <2>2. ASSUME state = "unconfirmed"
        PROVE  /\ lineEdge' = [k \in Line |-> "nothing"]
               /\ \A k \in Line : base'[k] = crossings'[k].a2b - crossings'[k].b2a
    <3>1. CrossedBy(pt) = {} BY <2>2 DEF CrossedBy
    <3>2. lineEdge' = [k \in Line |-> "nothing"] BY <1>2, <2>2, <3>1 DEF Followed
    <3>3. \A k \in Line : crossings'[k] = crossings[k] BY <3>1, CountOfMove
    <3>4. QED BY <1>1, <2>2, <3>2, <3>3 DEF Followed
  <2>3. state # "closed" BY <1>1 DEF Tracked
  <2>4. QED BY <1>1, <2>1, <2>2, <2>3 DEF Followed, Side
<1>6. LineEventsAreLeft' BY <1>1 DEF LineEventsAreLeft
<1>7. LeftIsOver'
  <2> SUFFICES ASSUME NEW k \in Line, lineEdge'[k] = "left", crossings'[k].event PROVE k \in unsent'
    BY DEF LeftIsOver
  <2>1. CASE k \in CrossedBy(pt) BY <1>2, <2>1
  <2>2. CASE k \notin CrossedBy(pt) BY <1>2, <2>2, CountOfMove DEF LeftIsOver
  <2>3. QED BY <2>1, <2>2
<1>8. CrossingsAddUp'
  <2> SUFFICES ASSUME state = "confirmed", NEW k \in Spanning \cap lines, k \notin touched' \cup altered
               PROVE  crossings'[k].a2b - crossings'[k].b2a = base[k] + OnB(k, pt) - OnB(k, began)
    BY <1>1 DEF CrossingsAddUp, OnB, Side
  <2>1. k \in Line /\ center \in Place BY SpanningAssumption DEF LineTypeOK
  <2>2. k \notin touched /\ Side(k, center) # 0 BY <1>1, <2>1 DEF Followed
  <2>3. crossings[k].a2b - crossings[k].b2a = base[k] + OnB(k, center) - OnB(k, began)
    BY <1>1, <2>2 DEF CrossingsAddUp
  <2>4. k \in CrossedBy(pt) <=> (Side(k, center) > 0) # (Side(k, pt) > 0)
    BY <2>1, SpanningAssumption DEF CrossedBy, SegmentCrosses
  <2>5. crossings[k] \in Counts BY <2>1 DEF LineTypeOK, Counts
  <2>6. Side(k, center) \in Int /\ Side(k, pt) \in Int BY <2>1, SideIsInt
  <2>7. OnB(k, center) \in Int /\ OnB(k, began) \in Int /\ OnB(k, pt) \in Int BY DEF OnB
  <2>8. crossings[k].a2b \in Int /\ crossings[k].b2a \in Int /\ base[k] \in Int
    BY <2>1, <2>5 DEF Counts, LineTypeOK
  <2>9. CASE k \notin CrossedBy(pt)
    <3>1. OnB(k, pt) = OnB(k, center) BY <2>4, <2>9 DEF OnB
    <3>2. QED BY <2>1, <2>3, <2>9, <3>1, CountOfMove
  <2>10. CASE k \in CrossedBy(pt)
    <3>1. OnB(k, pt) = OnB(k, center) + (IF Side(k, center) < 0 THEN 1 ELSE -1)
      BY <2>2, <2>4, <2>6, <2>10 DEF OnB
    <3>2. /\ crossings'[k].a2b = crossings[k].a2b + (IF Side(k, center) < 0 THEN 1 ELSE 0)
          /\ crossings'[k].b2a = crossings[k].b2a + (IF Side(k, center) < 0 THEN 0 ELSE 1)
      BY <2>1, <2>10, CountOfMove
    <3>3. QED BY <2>3, <2>7, <2>8, <3>1, <3>2
  <2>11. QED BY <2>9, <2>10
<1>9. QED BY <1>4, <1>5, <1>6, <1>7, <1>8

\* Closing a track leaves the events of its lines, and of what was left no id is kept.
LEMMA IsGoneInv == ASSUME LineInv, IsGone PROVE LineInv'
PROOF
<1> USE DEF LineInv
<1>1. PICK raising \in SUBSET LeftWith :
        /\ lineEdge' = [k \in Line |-> IF k \in LeftWith \ raising THEN "left" ELSE lineEdge[k]]
        /\ unsent' = unsent \cup raising
  BY DEF IsGone, Messages
<1>2. /\ state = "confirmed" /\ state' = "closed" /\ UNCHANGED <<lines, center, altered>>
      /\ began' = center /\ touched' = {}
      /\ base' = [k \in Line |-> crossings[k].a2b - crossings[k].b2a]
  BY DEF IsGone
<1>3. ASSUME NEW k \in Line
      PROVE  /\ crossings'[k] \in Counts
             /\ crossings'[k].a2b = crossings[k].a2b /\ crossings'[k].b2a = crossings[k].b2a
             /\ base'[k] = crossings'[k].a2b - crossings'[k].b2a /\ base'[k] \in Int
             /\ k \in LeftWith => ~crossings'[k].event
             /\ k \notin LeftWith => crossings'[k] = crossings[k]
  <2>1. crossings[k] \in Counts BY DEF LineTypeOK, Counts
  <2> DEFINE n == crossings[k].a2b
             m == crossings[k].b2a
             e == crossings[k].event
  <2>2. crossings[k] = [a2b |-> n, b2a |-> m, event |-> e] BY <2>1 DEF Counts
  <2>3. crossings'[k] = IF k \in LeftWith THEN [crossings[k] EXCEPT !.event = FALSE] ELSE crossings[k]
    BY DEF IsGone
  <2>4. k \in LeftWith => crossings'[k] = [a2b |-> n, b2a |-> m, event |-> FALSE] BY <2>2, <2>3
  <2>5. n \in 0..MaxCrossings /\ m \in 0..MaxCrossings BY <2>1 DEF Counts
  <2>6. CASE k \in LeftWith
    <3>1. base'[k] = n - m BY <1>2
    <3>2. n - m \in Int BY <2>5, PlaceAssumption
    <3> HIDE DEF n, m, e
    <3>3. crossings'[k] = [a2b |-> n, b2a |-> m, event |-> FALSE] BY <2>4, <2>6
    <3>4. crossings'[k].a2b = n /\ crossings'[k].b2a = m /\ ~crossings'[k].event BY <3>3
    <3>5. crossings'[k] \in Counts BY <2>5, <3>3 DEF Counts
    <3>6. crossings[k].a2b = n /\ crossings[k].b2a = m BY DEF n, m
    <3>7. QED BY <2>6, <3>1, <3>2, <3>4, <3>5, <3>6
  <2>7. CASE k \notin LeftWith
    <3>1. crossings'[k] = crossings[k] BY <2>3, <2>7
    <3>2. base'[k] = n - m BY <1>2
    <3>3. n - m \in Int BY <2>5, PlaceAssumption
    <3>4. QED BY <2>1, <2>7, <3>1, <3>2, <3>3
  <2>8. QED BY <2>6, <2>7
<1>4. LineTypeOK'
  <2>1. crossings' \in [Line -> Counts] BY <1>3 DEF IsGone
  <2>2. base' \in [Line -> Int] BY <1>2, <1>3
  <2>3. lineEdge' \in [Line -> {"nothing", "progress", "left"}] BY <1>1 DEF LineTypeOK
  <2>4. unsent' \subseteq Line BY <1>1 DEF LineTypeOK, LeftWith
  <2>5. QED BY <1>2, <2>1, <2>2, <2>3, <2>4 DEF LineTypeOK, Track, Counts
<1>5. LineEventsAreLeft'
  <2> SUFFICES ASSUME NEW k \in Line, lineEdge'[k] = "progress" PROVE k \in unsent' \cup altered'
    BY DEF LineEventsAreLeft
  <2>1. k \notin LeftWith \/ k \in raising BY <1>1
  <2>2. lineEdge[k] = "progress" BY <1>1
  <2>3. QED BY <1>1, <1>2, <2>1, <2>2 DEF Followed, Tracked, LeftWith
<1>6. LeftIsOver'
  <2> SUFFICES ASSUME NEW k \in Line, lineEdge'[k] = "left", crossings'[k].event PROVE k \in unsent'
    BY DEF LeftIsOver
  <2>1. k \notin LeftWith /\ crossings'[k] = crossings[k] BY <1>3
  <2>2. lineEdge[k] = "left" BY <1>1, <2>1
  <2>3. QED BY <1>1, <2>1, <2>2 DEF LeftIsOver
<1>7. Followed' /\ CrossingsAddUp' BY <1>2, <1>3 DEF Followed, Tracked, CrossingsAddUp
<1>8. QED BY <1>4, <1>5, <1>6, <1>7

\* A track that is forgotten leaves what was heard of it, which was over or could not be helped.
LEMMA ForgottenInv ==
  ASSUME LineInv, Forgotten, altered' \subseteq Line,
         \A k \in Line : lineEdge[k] = "progress" => k \in unsent \cup altered'
  PROVE  LineInv'
PROOF
<1> USE DEF LineInv
<1>1. LineTypeOK'
  <2>1. crossings' \in [Line -> Counts] BY UncrossedIsOne DEF Forgotten
  <2>2. base' \in [Line -> Int] BY DEF Forgotten
  <2>3. QED BY <2>1, <2>2 DEF Forgotten, LineTypeOK, Track, Counts
<1>2. Followed' /\ CrossingsAddUp' BY DEF Forgotten, Followed, Tracked, CrossingsAddUp
<1>3. LineEventsAreLeft' BY DEF Forgotten, LineEventsAreLeft
<1>4. LeftIsOver' BY UncrossedIsOne DEF Forgotten, LeftIsOver
<1>5. QED BY <1>1, <1>2, <1>3, <1>4

LEMMA LineStepInv == LineInv /\ [LineNext]_lineVars => LineInv'
PROOF
<1> SUFFICES ASSUME LineInv, [LineNext]_lineVars PROVE LineInv' OBVIOUS
<1> USE DEF LineInv
<1>1. ASSUME NEW pt \in Place, Moves(pt) PROVE LineInv' BY <1>1, MovesInv
<1>2. ASSUME NEW pt \in Place, Appears(pt) PROVE LineInv'
  <2>1. LineTypeOK'
    <3>1. crossings' \in [Line -> Counts] /\ base' \in [Line -> Int] BY <1>2, UncrossedIsOne DEF Appears
    <3>2. QED BY <1>2, <3>1 DEF Appears, LineTypeOK, Track, Tracked, Counts
  <2>2. Followed' BY <1>2, UncrossedIsOne DEF Appears, Followed, Tracked, Side
  <2>3. LineEventsAreLeft' /\ LeftIsOver' BY <1>2 DEF Appears, LineEventsAreLeft, LeftIsOver
  <2>4. CrossingsAddUp'
    <3> SUFFICES ASSUME NEW k \in Spanning
                 PROVE  Uncrossed.a2b - Uncrossed.b2a = 0 + OnB(k, pt) - OnB(k, pt)
      BY <1>2, SpanningAssumption DEF Appears, CrossingsAddUp, OnB, Side
    <3>1. QED BY UncrossedIsOne DEF OnB
  <2>5. QED BY <2>1, <2>2, <2>3, <2>4
<1>3. ASSUME NEW pt \in Place, Resumes(pt) PROVE LineInv'
  <2>1. LineTypeOK' BY <1>3 DEF Resumes, LineTypeOK, Track
  <2>2. Followed' BY <1>3 DEF Resumes, Followed, LineEventsAreLeft, Tracked, Side
  <2>3. LineEventsAreLeft' /\ LeftIsOver'
    BY <1>3 DEF Resumes, LineEventsAreLeft, LeftIsOver, Tracked
  <2>4. CrossingsAddUp'
    <3> SUFFICES ASSUME NEW k \in Spanning
                 PROVE  crossings[k].a2b - crossings[k].b2a = base[k] + OnB(k, pt) - OnB(k, pt)
      BY <1>3 DEF Resumes, CrossingsAddUp, OnB, Side
    <3>1. k \in Line BY SpanningAssumption
    <3>2. base[k] = crossings[k].a2b - crossings[k].b2a BY <1>3, <3>1 DEF Resumes, Followed
    <3>3. base[k] \in Int BY <3>1 DEF LineTypeOK
    <3>4. QED BY <3>2, <3>3 DEF OnB
  <2>5. QED BY <2>1, <2>2, <2>3, <2>4
<1>4. CASE IsConfirmed
  <2>1. LineTypeOK' BY <1>4 DEF IsConfirmed, LineTypeOK, Track
  <2>2. Followed' BY <1>4 DEF IsConfirmed, Followed, Tracked, Side
  <2>3. LineEventsAreLeft' /\ LeftIsOver' BY <1>4 DEF IsConfirmed, LineEventsAreLeft, LeftIsOver, Tracked
  <2>4. CrossingsAddUp'
    <3> SUFFICES ASSUME NEW k \in Spanning
                 PROVE  crossings[k].a2b - crossings[k].b2a = base[k] + OnB(k, center) - OnB(k, center)
      BY <1>4 DEF IsConfirmed, CrossingsAddUp, OnB, Side
    <3>1. k \in Line BY SpanningAssumption
    <3>2. base[k] = crossings[k].a2b - crossings[k].b2a BY <1>4, <3>1 DEF IsConfirmed, Followed
    <3>3. base[k] \in Int BY <3>1 DEF LineTypeOK
    <3>4. QED BY <3>2, <3>3 DEF OnB
  <2>5. QED BY <2>1, <2>2, <2>3, <2>4
<1>5. CASE IsGone BY <1>5, IsGoneInv
<1>6. CASE IsLost
  <2>1. \A k \in Line : lineEdge[k] # "progress" BY <1>6 DEF IsLost, Followed
  <2>2. QED BY <1>6, <2>1, ForgottenInv DEF IsLost, LineTypeOK
<1>7. CASE Expires
  <2>1. \A k \in Line : lineEdge[k] = "progress" => k \in unsent \cup altered
    BY <1>7 DEF Expires, LineEventsAreLeft, Tracked
  <2>2. QED BY <1>7, <2>1, ForgottenInv DEF Expires, LineTypeOK
<1>8. CASE Discards BY <1>8, ForgottenInv DEF Discards
<1>9. CASE SetsLines
  <2>1. PICK new \in SUBSET Line :
          /\ lines' = new
          /\ altered' = IF state \notin Tracked THEN altered
                        ELSE altered \cup {k \in Line : (k \in new) # (k \in lines)}
          /\ UNCHANGED <<state, center, crossings, lineEdge, began, base, touched, unsent>>
    BY <1>9 DEF SetsLines
  <2>2. LineTypeOK' BY <2>1 DEF LineTypeOK
  <2>3. Followed' BY <2>1 DEF Followed, Side
  <2>4. LineEventsAreLeft' /\ LeftIsOver' BY <2>1 DEF LineEventsAreLeft, LeftIsOver
  <2>5. CrossingsAddUp'
    <3> SUFFICES ASSUME state = "confirmed", NEW k \in Spanning \cap new, k \notin touched \cup altered'
                 PROVE  crossings[k].a2b - crossings[k].b2a = base[k] + OnB(k, center) - OnB(k, began)
      BY <2>1 DEF CrossingsAddUp, OnB, Side
    <3>1. k \in lines /\ k \notin altered BY <2>1, SpanningAssumption DEF Tracked
    <3>2. QED BY <3>1 DEF CrossingsAddUp
  <2>6. QED BY <2>2, <2>3, <2>4, <2>5
<1>10. CASE UNCHANGED lineVars
  BY <1>10 DEF lineVars, LineTypeOK, Followed, LineEventsAreLeft, LeftIsOver, CrossingsAddUp, OnB, Side
<1>11. QED BY <1>1, <1>2, <1>3, <1>4, <1>5, <1>6, <1>7, <1>8, <1>9, <1>10 DEF LineNext

\* Every variable of the line crossing keeps its type, no count passes its bound.
THEOREM LineTypeCorrect == LineSpec => []LineTypeOK
PROOF BY LineInitInv, LineStepInv, PTL DEF LineSpec, LineInv

\* What the console is told of crossings ends when the track is gone (_close_line_events), is not
\* gone on with when it resumes, and adds up to where it went since it was confirmed or last
\* resumed, whatever path it takes and however the lines change.
THEOREM LinesToldTrue == LineSpec => []LinesAddUp
PROOF
<1>1. LineInv => LinesAddUp BY DEF LineInv, LinesAddUp
<1>2. QED BY <1>1, LineInitInv, LineStepInv, PTL DEF LineSpec

-----------------------------------------------------------------------------
(* The exchange of pictures                                                *)

\* A picture of a pull there has been, or none.
Made(x) == x = NoPicture \/ (x \in Picture /\ x.pull <= started)
Stored(p) == {[seq |-> n, of |-> n] : n \in 1..Pictures[p]}
Step == {"wait", "begin", "classify", "ask", "note"}

\* The pulls and their threads: a deque holds JPEGs under the number of their picture.
Typed ==
  /\ every \in Nat \ {0} /\ started \in 0..Len(Pictures)
  /\ current \in {0, started} /\ table = current /\ snapshot \in 0..started
  /\ Made(latest) /\ Made(latestSeq) /\ latestTime = latest /\ Made(analysed)
  /\ Made(loop.last) /\ Made(loop.seq) /\ Made(loop.frame) /\ Made(loop.jpeg)
  /\ loop \in [at : Step, last : MaybePicture, seq : MaybePicture, frame : MaybePicture, jpeg : MaybePicture]
  /\ tally \in [pull : 0..started, first : Nat, last : Nat, analysed : Nat, empty : BOOLEAN]
  /\ late \in BOOLEAN
Threads ==
  /\ frame \in [Pulls -> [n : Nat, held : BOOLEAN]]
  /\ \A p \in Pulls : /\ frame[p].n <= Pictures[p]
                      /\ frame[p].held => frame[p].n # 0 /\ p <= started
  /\ jpeg \in [Pulls -> [of : Nat, seq : Nat, writing : BOOLEAN]]
  /\ \A p \in Pulls : jpeg[p].of = jpeg[p].seq /\ (jpeg[p].writing => p <= started)
  /\ DOMAIN jpegs = Pulls
  /\ \A p \in Pulls : jpegs[p] \in Seq(Stored(p)) /\ (p > started => jpegs[p] = <<>>)

\* While no thread was late, the tables hold one picture of the pull that runs, the last but the
\* one its reader holds.
OfThisPull ==
  ~late => /\ latestSeq = latest
           /\ latest # NoPicture => /\ latest.pull = current
                                    /\ latest.n <= frame[current].n
                                    /\ frame[current].held => latest.n < frame[current].n
           /\ analysed # NoPicture => analysed.pull = current
           /\ snapshot \in {0, current}

\* A tick has no picture before it classifies, and a frame when it asks for the JPEG.
Tick ==
  /\ loop.at \in {"wait", "begin", "classify"} => loop.frame = NoPicture
  /\ loop.at # "note" => loop.jpeg = NoPicture
  /\ loop.at = "ask" => loop.frame # NoPicture

\* What the loop saw of the pull that runs is not newer than the tables.
UpTo(x) == x # NoPicture /\ x.pull = current => latest # NoPicture /\ x.n <= latest.n
Seen ==
  ~late => /\ UpTo(loop.last) /\ UpTo(loop.seq)
           /\ tally.pull = current /\ tally.pull # 0 => latest # NoPicture /\ tally.last <= latest.n

\* The statistics of one pull: each counted pass woke for a later frame than the one before, and
\* noted that frame or a later one.
Passes(n) == loop.last # NoPicture /\ loop.last.pull = tally.pull /\ tally.analysed <= loop.last.n - tally.first + n
Counted ==
  ~late /\ tally.pull # 0 =>
    /\ tally.first <= tally.last /\ tally.analysed <= tally.last - tally.first + 1
    /\ loop.at = "wait" /\ tally.pull = current => (tally.analysed = 0 \/ Passes(1))
    /\ loop.at = "begin" /\ tally.pull = current => Passes(0)
    /\ loop.at \notin {"wait", "begin"} =>
         /\ tally.pull = current => loop.seq # NoPicture /\ loop.seq.pull = current
         /\ loop.seq # NoPicture /\ loop.seq.pull = tally.pull =>
              Passes(0) /\ loop.last.n <= loop.seq.n

ExchangeInv == Typed /\ Threads /\ OfThisPull /\ Tick /\ TickHasOnePicture /\ Seen /\ Counted

LEMMA PictureFacts ==
  /\ \A p \in Pulls : p \in Nat \ {0} /\ Pictures[p] \in Nat
  /\ \A x \in Picture : x \in [pull : Nat, n : Nat] /\ x.pull \in Pulls /\ x.n \in 1..Pictures[x.pull]
  /\ \A p \in Pulls : \A n \in 1..Pictures[p] : [pull |-> p, n |-> n] \in Picture
  /\ NoPicture \notin Picture
PROOF
<1>1. \A p \in Pulls : p \in Nat \ {0} /\ Pictures[p] \in Nat BY ExchangeAssumption DEF Pulls
<1>2. \A x \in Picture : x \in [pull : Nat, n : Nat] /\ x.pull \in Pulls /\ x.n \in 1..Pictures[x.pull]
  BY <1>1 DEF Picture
<1>3. \A p \in Pulls : \A n \in 1..Pictures[p] : [pull |-> p, n |-> n] \in Picture BY DEF Picture
<1>4. QED BY <1>1, <1>2, <1>3, ExchangeAssumption

LEMMA ExchangeInitInv == ExchangeInit => ExchangeInv
PROOF
<1> SUFFICES ASSUME ExchangeInit PROVE ExchangeInv OBVIOUS
<1>1. Len(Pictures) \in Nat BY ExchangeAssumption
<1>2. Typed
  <2>1. loop \in [at : Step, last : MaybePicture, seq : MaybePicture, frame : MaybePicture, jpeg : MaybePicture]
    BY DEF ExchangeInit, NoTick, Step, MaybePicture
  <2>2. tally \in [pull : 0..started, first : Nat, last : Nat, analysed : Nat, empty : BOOLEAN]
    BY DEF ExchangeInit, NoTally
  <2>3. every \in Nat \ {0} /\ late \in BOOLEAN BY ExchangeAssumption DEF ExchangeInit
  <2>4. QED BY <1>1, <2>1, <2>2, <2>3 DEF ExchangeInit, Typed, Made, NoTick
<1>3. Threads
  <2>1. \A p \in Pulls : <<>> \in Seq(Stored(p)) OBVIOUS
  <2>2. QED BY <2>1, PictureFacts DEF ExchangeInit, Threads
<1>4. OfThisPull /\ Tick /\ TickHasOnePicture
  BY DEF ExchangeInit, OfThisPull, Tick, TickHasOnePicture, NoTick
<1>5. Seen /\ Counted BY DEF ExchangeInit, Seen, Counted, UpTo, NoTick, NoTally
<1>6. QED BY <1>2, <1>3, <1>4, <1>5 DEF ExchangeInv

-----------------------------------------------------------------------------
\* Each step keeps the invariant.
LEMMA StopStreamInv == ASSUME ExchangeInv, StopStream PROVE ExchangeInv'
PROOF
<1> USE DEF ExchangeInv
<1>1. /\ current' = 0 /\ table' = 0 /\ snapshot' = 0
      /\ latest' = NoPicture /\ latestSeq' = NoPicture /\ latestTime' = NoPicture /\ analysed' = NoPicture
      /\ UNCHANGED <<every, started, frame, jpeg, jpegs, loop, tally, late>>
  BY DEF StopStream, threads
<1>2. started \in Nat BY DEF Typed
<1>3. Typed' BY <1>1, <1>2 DEF Typed, Made
<1>4. Threads' BY <1>1 DEF Threads
<1>5. OfThisPull' /\ Tick' BY <1>1 DEF OfThisPull, Tick
<1>6. \A x : Made(x) /\ x # NoPicture => x.pull # 0 BY PictureFacts DEF Made
<1>7. TickHasOnePicture' BY <1>1, <1>6 DEF TickHasOnePicture, Typed
<1>8. Seen' BY <1>1, <1>6 DEF Seen, UpTo, Typed
<1>9. Counted' BY <1>1 DEF Counted, Passes
<1>10. QED BY <1>3, <1>4, <1>5, <1>7, <1>8, <1>9

LEMMA StartStreamInv == ASSUME ExchangeInv, StartStream PROVE ExchangeInv'
PROOF
<1> USE DEF ExchangeInv
<1>1. /\ current = 0 /\ started < Len(Pictures) /\ started' = started + 1 /\ current' = started + 1
      /\ table' = started + 1 /\ latestSeq' = NoPicture
      /\ UNCHANGED <<every, frame, jpeg, jpegs, latest, latestTime, snapshot, loop, analysed, tally, late>>
  BY DEF StartStream, threads
<1>2. started \in Nat /\ Len(Pictures) \in Nat BY ExchangeAssumption DEF Typed
<1>3. \A x : Made(x) => Made(x)' BY <1>1, <1>2, PictureFacts DEF Made
<1>4. Typed'
  <2>1. /\ Made(latest)' /\ Made(latestSeq)' /\ (latestTime = latest)' /\ Made(analysed)'
        /\ Made(loop.last)' /\ Made(loop.seq)' /\ Made(loop.frame)' /\ Made(loop.jpeg)'
    BY <1>1, <1>2, PictureFacts DEF Typed, Made
  <2>2. started' \in 0..Len(Pictures) /\ current' \in {0, started'} /\ table' = current'
        /\ snapshot' \in 0..started'
    BY <1>1, <1>2 DEF Typed
  <2>3. tally' \in [pull : 0..started', first : Nat, last : Nat, analysed : Nat, empty : BOOLEAN]
    BY <1>1, <1>2 DEF Typed
  <2>4. QED BY <1>1, <2>1, <2>2, <2>3 DEF Typed
<1>5. Threads' BY <1>1, <1>2, PictureFacts DEF Threads
<1>6. \A x : Made(x) /\ x # NoPicture => x.pull # 0 /\ x.pull # started + 1
  BY <1>2, PictureFacts DEF Made
<1>7. ~late => latest = NoPicture /\ analysed = NoPicture /\ snapshot = 0
  BY <1>1, <1>6 DEF OfThisPull, Typed
<1>8. OfThisPull' /\ Tick' BY <1>1, <1>7 DEF OfThisPull, Tick
<1>9. TickHasOnePicture' BY <1>1, <1>6 DEF TickHasOnePicture, Typed
<1>10. tally.pull # started + 1 BY <1>2 DEF Typed
<1>11. Seen' BY <1>1, <1>6, <1>10 DEF Seen, UpTo, Typed
<1>12. Counted' BY <1>1, <1>10 DEF Counted, Passes
<1>13. QED BY <1>4, <1>5, <1>8, <1>9, <1>11, <1>12

LEMMA ReadsFrameInv == ASSUME ExchangeInv, NEW p \in Pulls, ReadsFrame(p) PROVE ExchangeInv'
PROOF
<1> USE DEF ExchangeInv
<1>1. /\ p = current /\ ~frame[p].held /\ frame[p].n < Pictures[p]
      /\ frame' = [frame EXCEPT ![p] = [n |-> frame[p].n + 1, held |-> TRUE]]
      /\ UNCHANGED <<every, started, current, table, jpeg, jpegs, latest, latestSeq, latestTime, snapshot, loop,
                     analysed, tally, late>>
  BY DEF ReadsFrame, tables
<1>2. p \in Nat \ {0} /\ p <= started /\ Pictures[p] \in Nat BY <1>1, PictureFacts DEF Typed
<1>3. frame[p].n \in Nat BY DEF Threads
<1>4. frame'[p] = [n |-> frame[p].n + 1, held |-> TRUE] /\ \A q \in Pulls \ {p} : frame'[q] = frame[q]
  BY <1>1 DEF Threads
<1>5. Typed' BY <1>1 DEF Typed, Made
<1>6. Threads'
  <2>1. frame' \in [Pulls -> [n : Nat, held : BOOLEAN]] BY <1>1, <1>3 DEF Threads
  <2>2. \A q \in Pulls : frame'[q].n <= Pictures[q] /\ (frame'[q].held => frame'[q].n # 0 /\ q <= started)
    BY <1>1, <1>2, <1>3, <1>4 DEF Threads
  <2>3. QED BY <1>1, <2>1, <2>2 DEF Threads
<1>7. OfThisPull'
  <2>1. ~late /\ latest # NoPicture => latest.n \in Nat BY PictureFacts DEF Typed, Made
  <2>2. QED BY <1>1, <1>3, <1>4, <2>1 DEF OfThisPull
<1>8. Tick' /\ TickHasOnePicture' BY <1>1 DEF Tick, TickHasOnePicture
<1>9. Seen' /\ Counted' BY <1>1 DEF Seen, UpTo, Counted, Passes
<1>10. QED BY <1>5, <1>6, <1>7, <1>8, <1>9

LEMMA StoresFrameInv == ASSUME ExchangeInv, NEW p \in Pulls, StoresFrame(p) PROVE ExchangeInv'
PROOF
<1> USE DEF ExchangeInv
<1> DEFINE f == [pull |-> p, n |-> frame[p].n]
<1>1. /\ frame[p].held /\ latest' = f /\ latestSeq' = f /\ latestTime' = f
      /\ frame' = [frame EXCEPT ![p].held = FALSE] /\ late' = (late \/ p # current)
      /\ UNCHANGED <<every, started, current, table, jpeg, jpegs, snapshot, loop, analysed, tally>>
  BY DEF StoresFrame
<1>2. p \in Nat \ {0} /\ p <= started /\ Pictures[p] \in Nat BY <1>1, PictureFacts DEF Threads
<1>3. frame[p].n \in 1..Pictures[p] /\ frame[p].n \in Nat BY <1>1, <1>2 DEF Threads
<1>4. f \in Picture /\ f # NoPicture /\ Made(f) /\ f.pull = p /\ f.n = frame[p].n
  BY <1>2, <1>3, PictureFacts DEF Made
<1> HIDE DEF f
<1>5. /\ frame'[p].n = frame[p].n /\ ~frame'[p].held /\ frame'[p] \in [n : Nat, held : BOOLEAN]
      /\ \A q \in Pulls \ {p} : frame'[q] = frame[q]
  <2>1. frame[p] = [n |-> frame[p].n, held |-> TRUE] BY <1>1 DEF Threads
  <2>2. frame'[p] = [frame[p] EXCEPT !.held = FALSE] BY <1>1 DEF Threads
  <2>3. frame'[p] = [n |-> frame[p].n, held |-> FALSE] BY <2>1, <2>2
  <2>4. QED BY <1>1, <1>3, <2>3 DEF Threads
<1>6. Typed' BY <1>1, <1>4 DEF Typed, Made
<1>7. Threads'
  <2>1. frame' \in [Pulls -> [n : Nat, held : BOOLEAN]] BY <1>1, <1>5 DEF Threads
  <2>2. \A q \in Pulls : frame'[q].n <= Pictures[q] /\ (frame'[q].held => frame'[q].n # 0 /\ q <= started)
    BY <1>2, <1>3, <1>5 DEF Threads
  <2>3. QED BY <1>1, <2>1, <2>2 DEF Threads
<1>8. ~late' => ~late /\ p = current BY <1>1
<1>9. OfThisPull' BY <1>1, <1>3, <1>4, <1>5, <1>8 DEF OfThisPull
<1>10. Tick' /\ TickHasOnePicture' BY <1>1 DEF Tick, TickHasOnePicture
<1>11. ~late' /\ latest # NoPicture => latest.n \in Nat /\ latest.n < f.n
  BY <1>1, <1>4, <1>8, PictureFacts DEF OfThisPull, Typed, Made
<1>12. Seen'
  <2>1. ASSUME NEW x, Made(x), ~late', UpTo(x) PROVE UpTo(x)'
    BY <1>1, <1>4, <1>11, <2>1, PictureFacts DEF UpTo, Made
  <2>2. ~late' => UpTo(loop.last)' /\ UpTo(loop.seq)'
    <3>1. Made(loop.last) /\ Made(loop.seq) BY DEF Typed
    <3>2. ~late' => UpTo(loop.last) /\ UpTo(loop.seq) BY <1>8 DEF Seen
    <3>3. QED BY <1>1, <2>1, <3>1, <3>2 DEF UpTo
  <2>3. tally.last \in Nat /\ f.n \in Nat BY <1>3, <1>4 DEF Typed
  <2>4. ~late' /\ tally.pull = current /\ tally.pull # 0 => latest' # NoPicture /\ tally.last <= f.n
    BY <1>1, <1>4, <1>8, <1>11, <2>3 DEF Seen
  <2>5. QED BY <1>1, <2>2, <2>4 DEF Seen
<1>13. Counted' BY <1>1, <1>8 DEF Counted, Passes
<1>14. QED BY <1>6, <1>7, <1>9, <1>10, <1>12, <1>13

LEMMA StoresJpegInv == ASSUME ExchangeInv, NEW p \in Pulls, StoresJpeg(p) PROVE ExchangeInv'
PROOF
<1> USE DEF ExchangeInv
<1> DEFINE of == Encoded(jpeg[p].of)
           one == [seq |-> of, of |-> of]
<1>1. /\ p = current /\ of <= Pictures[p]
      /\ UNCHANGED <<every, started, current, table, frame, latest, latestSeq, latestTime, snapshot, loop,
                     analysed, tally, late>>
  BY DEF StoresJpeg, tables
<1>2. jpeg[p].of = jpeg[p].seq /\ jpeg[p].of \in Nat /\ every \in Nat \ {0} BY DEF Threads, Typed
<1>3. of \in 1..Pictures[p] /\ Numbered(jpeg[p].seq) = of BY <1>1, <1>2, PictureFacts DEF Encoded, Numbered
<1>4. jpeg' = [jpeg EXCEPT ![p] = [of |-> of, seq |-> of, writing |-> TRUE]]
  BY <1>3 DEF StoresJpeg
<1>5. jpegs' = [jpegs EXCEPT ![p] = IF Len(Append(jpegs[p], one)) > JpegKeep THEN Tail(Append(jpegs[p], one))
                                    ELSE Append(jpegs[p], one)]
  BY <1>3 DEF StoresJpeg
<1>6. one \in Stored(p) BY <1>3 DEF Stored
<1> HIDE DEF one, of
<1>7. p <= started /\ p \in Nat BY <1>1, PictureFacts DEF Typed
<1>8. Typed' BY <1>1 DEF Typed, Made
<1>9. Threads'
  <2>1. jpeg' \in [Pulls -> [of : Nat, seq : Nat, writing : BOOLEAN]]
    BY <1>3, <1>4, PictureFacts DEF Threads
  <2>2. \A q \in Pulls : jpeg'[q].of = jpeg'[q].seq /\ (jpeg'[q].writing => q <= started)
    BY <1>4, <1>7 DEF Threads
  <2>3. Append(jpegs[p], one) \in Seq(Stored(p)) /\ Append(jpegs[p], one) # <<>>
    <3>1. jpegs[p] \in Seq(Stored(p)) BY DEF Threads
    <3>2. QED BY <1>6, <3>1, AppendProperties
  <2>4. Tail(Append(jpegs[p], one)) \in Seq(Stored(p)) BY <2>3, HeadTailProperties
  <2>5. /\ DOMAIN jpegs' = Pulls /\ jpegs'[p] \in Seq(Stored(p))
        /\ \A q \in Pulls \ {p} : jpegs'[q] = jpegs[q]
    BY <1>5, <2>3, <2>4 DEF Threads
  <2>6. \A q \in Pulls : jpegs'[q] \in Seq(Stored(q)) /\ (q > started => jpegs'[q] = <<>>)
    BY <1>7, <2>5 DEF Threads, Typed
  <2>7. QED BY <1>1, <2>1, <2>2, <2>5, <2>6 DEF Threads, Stored
<1>10. OfThisPull' /\ Tick' /\ TickHasOnePicture' BY <1>1 DEF OfThisPull, Tick, TickHasOnePicture
<1>11. Seen' /\ Counted' BY <1>1 DEF Seen, UpTo, Counted, Passes
<1>12. QED BY <1>8, <1>9, <1>10, <1>11

LEMMA WritesSnapshotInv == ASSUME ExchangeInv, NEW p \in Pulls, WritesSnapshot(p) PROVE ExchangeInv'
PROOF
<1> USE DEF ExchangeInv
<1>1. /\ jpeg[p].writing /\ jpeg' = [jpeg EXCEPT ![p].writing = FALSE]
      /\ \/ snapshot' = snapshot /\ late' = late
         \/ snapshot' = p /\ late' = (late \/ p # current)
      /\ UNCHANGED <<every, started, current, table, frame, jpegs, latest, latestSeq, latestTime, loop, analysed,
                     tally>>
  BY DEF WritesSnapshot, tables
<1>2. p \in Nat /\ p <= started BY <1>1, PictureFacts DEF Threads
<1>3. Typed'
  <2>1. late' \in BOOLEAN BY <1>1 DEF Typed
  <2>2. snapshot' \in 0..started BY <1>1, <1>2 DEF Typed
  <2>3. QED BY <1>1, <2>1, <2>2 DEF Typed, Made
<1>4. Threads'
  <2>1. jpeg[p] = [of |-> jpeg[p].of, seq |-> jpeg[p].seq, writing |-> jpeg[p].writing] BY DEF Threads
  <2>2. jpeg'[p] = [jpeg[p] EXCEPT !.writing = FALSE] /\ \A q \in Pulls \ {p} : jpeg'[q] = jpeg[q]
    BY <1>1 DEF Threads
  <2>3. jpeg'[p] = [of |-> jpeg[p].of, seq |-> jpeg[p].seq, writing |-> FALSE] BY <2>1, <2>2
  <2>4. jpeg' \in [Pulls -> [of : Nat, seq : Nat, writing : BOOLEAN]]
    <3>1. jpeg[p].of \in Nat /\ jpeg[p].seq \in Nat BY DEF Threads
    <3>2. QED BY <1>1, <2>3, <3>1 DEF Threads
  <2>5. \A q \in Pulls : jpeg'[q].of = jpeg'[q].seq /\ (jpeg'[q].writing => q <= started)
    BY <1>2, <2>2, <2>3 DEF Threads
  <2>6. QED BY <1>1, <2>4, <2>5 DEF Threads, Stored
<1>5. ~late' => ~late /\ (snapshot' = snapshot \/ snapshot' = current) BY <1>1
<1>6. OfThisPull' BY <1>1, <1>5 DEF OfThisPull
<1>7. Tick' /\ TickHasOnePicture' BY <1>1 DEF Tick, TickHasOnePicture
<1>8. Seen' /\ Counted' BY <1>1, <1>5 DEF Seen, UpTo, Counted, Passes
<1>9. QED BY <1>3, <1>4, <1>6, <1>7, <1>8

-----------------------------------------------------------------------------
\* The steps of the poll loop.
Loop == [at : Step, last : MaybePicture, seq : MaybePicture, frame : MaybePicture, jpeg : MaybePicture]

LEMMA WakesInv == ASSUME ExchangeInv, Wakes PROVE ExchangeInv'
PROOF
<1> USE DEF ExchangeInv
<1>1. /\ loop.at = "wait" /\ (latestTime = NoPicture \/ latestTime # loop.last)
      /\ loop' = [loop EXCEPT !.at = "begin", !.last = latestTime]
      /\ UNCHANGED <<every, started, current, table, frame, jpeg, jpegs, latest, latestSeq, latestTime, snapshot,
                     late, analysed, tally>>
      /\ latestTime = latest
  BY DEF Wakes, loopOnly, threads, tables, Typed
<1>2. loop' = [at |-> "begin", last |-> latestTime, seq |-> loop.seq, frame |-> loop.frame, jpeg |-> loop.jpeg]
  BY <1>1 DEF Typed
<1>3. loop' \in Loop
  <2>1. loop.seq \in MaybePicture /\ loop.frame \in MaybePicture /\ loop.jpeg \in MaybePicture BY DEF Typed
  <2>2. latestTime \in MaybePicture BY DEF Typed, Made, MaybePicture
  <2>3. QED BY <1>2, <2>1, <2>2 DEF Loop, Step
<1>4. /\ loop'.at = "begin" /\ loop'.last = latestTime /\ loop'.seq = loop.seq /\ loop'.frame = loop.frame
      /\ loop'.jpeg = loop.jpeg
  BY <1>2
<1>5. Typed' BY <1>1, <1>3, <1>4 DEF Typed, Made, Loop
<1>6. Threads' /\ OfThisPull' BY <1>1 DEF Threads, Stored, OfThisPull
<1>7. Tick' /\ TickHasOnePicture' BY <1>1, <1>4 DEF Tick, TickHasOnePicture
<1>8. latest # NoPicture => latest.n \in Nat BY PictureFacts DEF Typed, Made
<1>9. Seen' BY <1>1, <1>4, <1>8 DEF Seen, UpTo, OfThisPull
<1>10. Counted'
  <2> SUFFICES ASSUME ~late, tally.pull # 0, tally.pull = current
               PROVE  /\ latest # NoPicture /\ latest.pull = tally.pull
                      /\ tally.analysed <= latest.n - tally.first + 0
    BY <1>1, <1>4 DEF Counted, Passes, OfThisPull
  <2>1. latest # NoPicture /\ tally.last <= latest.n /\ latest.pull = current BY DEF Seen, OfThisPull
  <2>2. tally.first \in Nat /\ tally.last \in Nat /\ tally.analysed \in Nat BY DEF Typed
  <2>3. tally.first <= tally.last BY DEF Counted
  <2>4. CASE tally.analysed = 0 BY <1>8, <2>1, <2>2, <2>3, <2>4
  <2>5. CASE Passes(1)
    <3>1. loop.last # NoPicture /\ loop.last.pull = current /\ loop.last \in Picture /\ latest \in Picture
      BY <2>1, <2>5 DEF Passes, Typed, Made
    <3>2. loop.last.n <= latest.n BY <3>1 DEF Seen, UpTo
    <3>3. loop.last # latest BY <1>1, <2>1 DEF OfThisPull
    <3>4. \A x, y \in Picture : x.pull = y.pull /\ x.n = y.n => x = y BY DEF Picture
    <3>5. loop.last.n \in Nat /\ loop.last.n # latest.n BY <2>1, <3>1, <3>3, <3>4, PictureFacts
    <3>6. QED BY <1>8, <2>1, <2>2, <2>5, <3>2, <3>5 DEF Passes
  <2>6. QED BY <1>1, <2>4, <2>5 DEF Counted
<1>11. QED BY <1>5, <1>6, <1>7, <1>9, <1>10

LEMMA BeginsInv == ASSUME ExchangeInv, Begins PROVE ExchangeInv'
PROOF
<1> USE DEF ExchangeInv
<1>1. /\ loop.at = "begin" /\ analysed' = IF latestTime = NoPicture THEN analysed ELSE latestTime
      /\ UNCHANGED <<every, started, current, table, frame, jpeg, jpegs, latest, latestSeq, latestTime, snapshot,
                     late, tally>>
      /\ latestTime = latest
  BY DEF Begins, loopOnly, threads, tables, Typed
<1>2. PICK at \in {"classify", "note"} : loop' = [loop EXCEPT !.at = at, !.seq = latestSeq] BY DEF Begins
<1>3. loop' = [at |-> at, last |-> loop.last, seq |-> latestSeq, frame |-> loop.frame, jpeg |-> loop.jpeg]
  BY <1>2 DEF Typed
<1>4. loop' \in Loop
  <2>1. loop.last \in MaybePicture /\ loop.frame \in MaybePicture /\ loop.jpeg \in MaybePicture BY DEF Typed
  <2>2. latestSeq \in MaybePicture BY DEF Typed, Made, MaybePicture
  <2>3. QED BY <1>3, <2>1, <2>2 DEF Loop, Step
<1>5. /\ loop'.at = at /\ loop'.last = loop.last /\ loop'.seq = latestSeq /\ loop'.frame = loop.frame
      /\ loop'.jpeg = loop.jpeg
  BY <1>3
<1>6. Typed' BY <1>1, <1>4, <1>5 DEF Typed, Made, Loop
<1>7. Threads' /\ OfThisPull' BY <1>1 DEF Threads, Stored, OfThisPull
<1>8. Tick' /\ TickHasOnePicture' BY <1>1, <1>2, <1>5 DEF Tick, TickHasOnePicture
<1>9. Seen'
  <2>1. latest # NoPicture => latest.n \in Nat BY PictureFacts DEF Typed, Made
  <2>2. QED BY <1>1, <1>5, <2>1 DEF Seen, UpTo, OfThisPull
<1>10. Counted'
  <2>1. ~late /\ latest # NoPicture => latest.pull = current /\ latestSeq = latest BY DEF OfThisPull
  <2>2. ~late /\ latest # NoPicture /\ tally.pull = current /\ tally.pull # 0 =>
          Passes(0) /\ loop.last.n <= latest.n
    BY <1>1 DEF Counted, Seen, UpTo, Passes
  <2>3. ~late => latestSeq = latest BY DEF OfThisPull
  <2>4. ~late /\ tally.pull = current /\ tally.pull # 0 => latest # NoPicture BY DEF Seen
  <2>5. Passes(0)' <=> Passes(0) BY <1>1, <1>5 DEF Passes
  <2>6. ~late /\ tally.pull # 0 => tally.first <= tally.last /\ tally.analysed <= tally.last - tally.first + 1
    BY DEF Counted
  <2>7. QED BY <1>1, <1>2, <1>5, <2>1, <2>2, <2>3, <2>4, <2>5, <2>6 DEF Counted
<1>11. QED BY <1>6, <1>7, <1>8, <1>9, <1>10

LEMMA ClassifiesInv == ASSUME ExchangeInv, Classifies PROVE ExchangeInv'
PROOF
<1> USE DEF ExchangeInv
<1> DEFINE at == IF latest = NoPicture \/ latestSeq = NoPicture THEN "note" ELSE "ask"
<1>1. /\ loop.at = "classify" /\ loop' = [loop EXCEPT !.at = at, !.frame = latest]
      /\ analysed' = IF latest = NoPicture THEN analysed ELSE latestTime
      /\ UNCHANGED <<every, started, current, table, frame, jpeg, jpegs, latest, latestSeq, latestTime, snapshot,
                     late, tally>>
      /\ latestTime = latest
  BY DEF Classifies, loopOnly, threads, tables, Typed
<1>2. at \in {"note", "ask"} /\ (at = "ask" => latest # NoPicture) OBVIOUS
<1> HIDE DEF at
<1>3. loop' = [at |-> at, last |-> loop.last, seq |-> loop.seq, frame |-> latest, jpeg |-> loop.jpeg]
  BY <1>1 DEF Typed
<1>4. loop' \in Loop
  <2>1. loop.last \in MaybePicture /\ loop.seq \in MaybePicture /\ loop.jpeg \in MaybePicture BY DEF Typed
  <2>2. latest \in MaybePicture BY DEF Typed, Made, MaybePicture
  <2>3. QED BY <1>2, <1>3, <2>1, <2>2 DEF Loop, Step
<1>5. /\ loop'.at = at /\ loop'.last = loop.last /\ loop'.seq = loop.seq /\ loop'.frame = latest
      /\ loop'.jpeg = loop.jpeg
  BY <1>3
<1>6. Typed' BY <1>1, <1>4, <1>5 DEF Typed, Made, Loop
<1>7. Threads' /\ OfThisPull' BY <1>1 DEF Threads, Stored, OfThisPull
<1>8. loop.jpeg = NoPicture /\ loop'.at \notin {"wait", "begin", "classify"} BY <1>1, <1>2, <1>5 DEF Tick
<1>9. Tick' BY <1>2, <1>5, <1>8 DEF Tick
<1>10. TickHasOnePicture' BY <1>1, <1>5, <1>8 DEF TickHasOnePicture, Typed
<1>11. Seen' BY <1>1, <1>5 DEF Seen, UpTo
<1>12. Counted' BY <1>1, <1>5, <1>8 DEF Counted, Passes
<1>13. QED BY <1>6, <1>7, <1>9, <1>10, <1>11, <1>12

LEMMA AsksJpegInv == ASSUME ExchangeInv, AsksJpeg PROVE ExchangeInv'
PROOF
<1> USE DEF ExchangeInv
<1>1. /\ loop.at = "ask"
      /\ UNCHANGED <<every, started, current, table, frame, jpeg, jpegs, latest, latestSeq, latestTime, snapshot,
                     late, analysed, tally>>
  BY DEF AsksJpeg, loopOnly, threads, tables
<1>2. loop = [at |-> loop.at, last |-> loop.last, seq |-> loop.seq, frame |-> loop.frame, jpeg |-> loop.jpeg]
  BY DEF Typed
<1>3. PICK j \in MaybePicture :
        /\ loop' = [at |-> "note", last |-> loop.last, seq |-> loop.seq, frame |-> loop.frame, jpeg |-> j]
        /\ j = NoPicture \/ (j \in Picture /\ j.pull = table /\ j.n = loop.frame.n)
  <2>1. CASE loop' = [loop EXCEPT !.at = "note"]
    <3>1. loop.jpeg = NoPicture BY <1>1 DEF Tick
    <3>2. loop' = [at |-> "note", last |-> loop.last, seq |-> loop.seq, frame |-> loop.frame, jpeg |-> NoPicture]
      BY <1>2, <2>1, <3>1
    <3>3. QED BY <3>2 DEF MaybePicture
  <2>2. CASE loop' # [loop EXCEPT !.at = "note"]
    <3>1. PICK i \in Asked :
            table # 0 /\ loop' = [loop EXCEPT !.at = "note", !.jpeg = [pull |-> table, n |-> jpegs[table][i].of]]
      BY <2>2 DEF AsksJpeg
    <3> DEFINE j == [pull |-> table, n |-> jpegs[table][i].of]
    <3>2. table \in Pulls /\ table \in Nat BY <3>1, ExchangeAssumption DEF Typed, Pulls
    <3>3. jpegs[table] \in Seq(Stored(table)) BY <3>2 DEF Threads
    <3>4. jpegs[table][i] \in Stored(table) /\ jpegs[table][i].seq = loop.frame.n BY <3>1, <3>3 DEF Asked
    <3>5. jpegs[table][i].of \in 1..Pictures[table] /\ jpegs[table][i].of = loop.frame.n BY <3>4 DEF Stored
    <3>6. j \in Picture /\ j.pull = table /\ j.n = loop.frame.n BY <3>2, <3>5, PictureFacts
    <3>7. loop' = [loop EXCEPT !.at = "note", !.jpeg = j] BY <3>1
    <3> HIDE DEF j
    <3>8. loop' = [at |-> "note", last |-> loop.last, seq |-> loop.seq, frame |-> loop.frame, jpeg |-> j]
      BY <1>2, <3>7
    <3>9. QED BY <3>6, <3>8 DEF MaybePicture
  <2>3. QED BY <2>1, <2>2
<1>4. loop' \in Loop
  <2>1. loop.last \in MaybePicture /\ loop.seq \in MaybePicture /\ loop.frame \in MaybePicture BY DEF Typed
  <2>2. QED BY <1>3, <2>1 DEF Loop, Step
<1>5. /\ loop'.at = "note" /\ loop'.last = loop.last /\ loop'.seq = loop.seq /\ loop'.frame = loop.frame
      /\ loop'.jpeg = j
  BY <1>3
<1>6. Made(j)
  <2>1. table \in 0..started BY DEF Typed
  <2>2. QED BY <1>3, <2>1 DEF Made, Typed
<1>7. Typed' BY <1>1, <1>4, <1>5, <1>6 DEF Typed, Made, Loop
<1>8. Threads' /\ OfThisPull' BY <1>1 DEF Threads, Stored, OfThisPull
<1>9. Tick' BY <1>5 DEF Tick
<1>10. TickHasOnePicture'
  <2>1. \A x, y \in Picture : x.pull = y.pull /\ x.n = y.n => x = y BY DEF Picture
  <2>2. loop.frame # NoPicture => loop.frame \in Picture BY DEF Typed, Made
  <2>3. j # NoPicture /\ loop.frame # NoPicture /\ loop.frame.pull = current => j = loop.frame
    BY <1>3, <2>1, <2>2 DEF Typed
  <2>4. QED BY <1>1, <1>5, <2>3 DEF TickHasOnePicture
<1>11. Seen' /\ Counted' BY <1>1, <1>5 DEF Seen, UpTo, Counted, Passes
<1>12. QED BY <1>7, <1>8, <1>9, <1>10, <1>11

LEMMA NotesInv == ASSUME ExchangeInv, Notes PROVE ExchangeInv'
PROOF
<1> USE DEF ExchangeInv
<1> DEFINE s == loop.seq
           new == [pull |-> s.pull, first |-> s.n, last |-> s.n, analysed |-> 0, empty |-> FALSE]
           on == [tally EXCEPT !.last = s.n, !.analysed = @ + 1, !.pull = IF @ = s.pull THEN @ ELSE 0]
           Tally == [pull : 0..started, first : Nat, last : Nat, analysed : Nat, empty : BOOLEAN]
<1>1. /\ loop.at = "note" /\ loop' = [NoTick EXCEPT !.last = loop.last]
      /\ UNCHANGED <<every, started, current, table, frame, jpeg, jpegs, latest, latestSeq, latestTime, snapshot,
                     late, analysed>>
  BY DEF Notes, loopOnly, threads, tables
<1>2. \/ s = NoPicture /\ tally' = tally
      \/ s # NoPicture /\ tally' = new
      \/ s # NoPicture /\ tally' = on /\ ~(s.n < tally.last)
  BY DEF Notes
<1>3. /\ loop'.at = "wait" /\ loop'.last = loop.last /\ loop'.seq = NoPicture /\ loop'.frame = NoPicture
      /\ loop'.jpeg = NoPicture /\ loop' \in Loop
  <2>1. loop' = [at |-> "wait", last |-> loop.last, seq |-> NoPicture, frame |-> NoPicture, jpeg |-> NoPicture]
    BY <1>1 DEF NoTick
  <2>2. loop.last \in MaybePicture BY DEF Typed
  <2>3. QED BY <2>1, <2>2 DEF Loop, Step, MaybePicture
<1>4. s # NoPicture => s.pull \in 1..started /\ s.n \in Nat BY PictureFacts DEF Typed, Made
<1>5. tally \in Tally BY DEF Typed
<1>6. /\ new.pull = s.pull /\ new.first = s.n /\ new.last = s.n /\ new.analysed = 0
      /\ (s # NoPicture => new \in Tally)
  BY <1>4
<1>7. /\ on.pull = (IF tally.pull = s.pull THEN tally.pull ELSE 0) /\ on.first = tally.first /\ on.last = s.n
      /\ on.analysed = tally.analysed + 1 /\ (s # NoPicture => on \in Tally)
  <2>1. on = [pull |-> IF tally.pull = s.pull THEN tally.pull ELSE 0, first |-> tally.first, last |-> s.n,
              analysed |-> tally.analysed + 1, empty |-> tally.empty]
    <3>1. tally = [pull |-> tally.pull, first |-> tally.first, last |-> tally.last, analysed |-> tally.analysed,
                   empty |-> tally.empty]
      BY <1>5
    <3>2. on = [[[tally EXCEPT !.last = s.n] EXCEPT !.analysed = tally.analysed + 1]
                  EXCEPT !.pull = IF tally.pull = s.pull THEN tally.pull ELSE 0]
      BY <3>1
    <3> HIDE DEF on
    <3>3. QED BY <3>1, <3>2
  <2>2. /\ tally.first \in Nat /\ tally.analysed + 1 \in Nat /\ tally.empty \in BOOLEAN
        /\ (IF tally.pull = s.pull THEN tally.pull ELSE 0) \in 0..started
    BY <1>5 DEF Typed
  <2>3. QED BY <1>4, <2>1, <2>2
<1> HIDE DEF new, on
<1>8. Typed'
  <2>1. tally' \in Tally BY <1>2, <1>5, <1>6, <1>7
  <2>2. QED BY <1>1, <1>3, <2>1 DEF Typed, Made, Loop
<1>9. Threads' /\ OfThisPull' BY <1>1 DEF Threads, Stored, OfThisPull
<1>10. Tick' /\ TickHasOnePicture' BY <1>3 DEF Tick, TickHasOnePicture
<1>11. Seen'
  <2>1. ~late /\ s # NoPicture /\ s.pull = current => latest # NoPicture /\ s.n <= latest.n BY DEF Seen, UpTo
  <2>2. ~late /\ tally'.pull = current /\ tally'.pull # 0 => latest # NoPicture /\ tally'.last <= latest.n
    BY <1>2, <1>6, <1>7, <2>1 DEF Seen
  <2>3. QED BY <1>1, <1>3, <2>2 DEF Seen, UpTo
<1>12. Counted'
  <2> SUFFICES ASSUME ~late, tally'.pull # 0
               PROVE  /\ tally'.first <= tally'.last /\ tally'.analysed <= tally'.last - tally'.first + 1
                      /\ tally'.pull = current => tally'.analysed = 0 \/ Passes(1)'
    BY <1>1, <1>3 DEF Counted
  <2>1. CASE s = NoPicture /\ tally' = tally
    <3>1. tally.pull # current BY <1>1, <2>1 DEF Counted
    <3>2. QED BY <2>1, <3>1 DEF Counted
  <2>2. CASE s # NoPicture /\ tally' = new BY <1>4, <1>6, <2>2
  <2>3. CASE s # NoPicture /\ tally' = on /\ ~(s.n < tally.last)
    <3>1. tally.pull = s.pull /\ tally.pull # 0 BY <1>7, <2>3
    <3>2. Passes(0) /\ loop.last.n <= s.n /\ tally.first <= tally.last BY <1>1, <2>3, <3>1 DEF Counted
    <3>3. loop.last.n \in Nat BY <3>2, PictureFacts DEF Passes, Typed, Made
    <3>4. tally.first \in Nat /\ tally.last \in Nat /\ tally.analysed \in Nat /\ s.n \in Nat BY <1>4, <1>5, <2>3
    <3>5. tally'.analysed <= loop.last.n - tally'.first + 1 BY <1>7, <2>3, <3>2, <3>3, <3>4 DEF Passes
    <3>6. Passes(1)' BY <1>3, <1>7, <2>3, <3>1, <3>2, <3>5 DEF Passes
    <3>7. QED BY <1>7, <2>3, <3>2, <3>3, <3>4, <3>5, <3>6
  <2>4. QED BY <1>2, <2>1, <2>2, <2>3
<1>13. QED BY <1>8, <1>9, <1>10, <1>11, <1>12

LEMMA ExchangeAlways == ExchangeSpec => []ExchangeInv
PROOF
<1>1. ExchangeInv /\ [ExchangeNext]_exchangeVars => ExchangeInv'
  <2> SUFFICES ASSUME ExchangeInv, [ExchangeNext]_exchangeVars PROVE ExchangeInv' OBVIOUS
  <2>1. ASSUME NEW p \in Pulls, ReadsFrame(p) \/ StoresFrame(p) \/ StoresJpeg(p) \/ WritesSnapshot(p)
        PROVE  ExchangeInv'
    BY <2>1, ReadsFrameInv, StoresFrameInv, StoresJpegInv, WritesSnapshotInv
  <2>2. CASE UNCHANGED exchangeVars
    <3>1. Typed' BY <2>2 DEF exchangeVars, tables, threads, ExchangeInv, Typed, Made
    <3>2. Threads' /\ OfThisPull' BY <2>2 DEF exchangeVars, tables, threads, ExchangeInv, Threads, Stored, OfThisPull
    <3>3. Tick' /\ TickHasOnePicture'
      BY <2>2 DEF exchangeVars, tables, threads, ExchangeInv, Tick, TickHasOnePicture
    <3>4. Seen' /\ Counted'
      BY <2>2 DEF exchangeVars, tables, threads, ExchangeInv, Seen, UpTo, Counted, Passes
    <3>5. QED BY <3>1, <3>2, <3>3, <3>4 DEF ExchangeInv
  <2>3. QED
    BY <2>1, <2>2, StopStreamInv, StartStreamInv, WakesInv, BeginsInv, ClassifiesInv, AsksJpegInv, NotesInv
    DEF ExchangeNext
<1>2. QED BY <1>1, ExchangeInitInv, PTL DEF ExchangeSpec

\* The tables hold pictures there have been, and a thread holds something only of a pull there
\* has been.
THEOREM ExchangeTypeCorrect == ExchangeSpec => []ExchangeTypeOK
PROOF
<1>1. ExchangeInv => ExchangeTypeOK
  <2> SUFFICES ASSUME ExchangeInv PROVE ExchangeTypeOK OBVIOUS
  <2>1. \A x : Made(x) => x \in MaybePicture BY DEF Made, MaybePicture
  <2>2. started \in Nat /\ Len(Pictures) \in Nat BY ExchangeAssumption DEF ExchangeInv, Typed
  <2>3. current \in 0..started /\ table \in 0..started /\ snapshot \in 0..started
    BY <2>2 DEF ExchangeInv, Typed
  <2>4. \A p \in Pulls : p > started => ~frame[p].held /\ jpegs[p] = <<>>
    BY <2>2, PictureFacts DEF ExchangeInv, Threads
  <2>5. QED BY <2>1, <2>3, <2>4 DEF ExchangeInv, Typed, ExchangeTypeOK
<1>2. QED BY <1>1, ExchangeAlways, PTL

\* A tick of the poll loop works with one picture, a stop leaves nothing of the pull behind but
\* by a late thread, and no frame is counted as analysed twice, for pulls and deques of any
\* length and every interleaving of the five threads.
THEOREM ExchangeIsOfOnePicture == ExchangeSpec => []OnePicture
PROOF
<1>1. ExchangeInv => OnePicture
  <2> SUFFICES ASSUME ExchangeInv PROVE OnePicture OBVIOUS
  <2>1. StoppedLeavesNothing
    BY DEF ExchangeInv, Typed, OfThisPull, StoppedLeavesNothing
  <2>2. AnalysedAddsUp BY DEF ExchangeInv, Counted, AnalysedAddsUp
  <2>3. QED BY <2>1, <2>2 DEF ExchangeInv, OnePicture
<1>2. QED BY <1>1, ExchangeAlways, PTL

-----------------------------------------------------------------------------
(* The parts side by side                                                  *)

LEMMA PortStepIsAPart ==
  PortNext => /\ [AdoptNext]_adoptVars /\ [InstNext]_instVars /\ [DeliveryNext]_deliveryVars
              /\ [LineNext]_lineVars /\ [ExchangeNext]_exchangeVars
PROOF BY DEF PortNext, On

\* A behaviour of the parts side by side is one of each of them.
LEMMA PortHasItsParts ==
  PortSpec => AdoptSpec /\ InstSpec /\ DeliverySpec /\ LineSpec /\ ExchangeSpec
PROOF
<1>1. PortInit => AdoptInit /\ InstInit /\ DeliveryInit /\ LineInit /\ ExchangeInit BY DEF PortInit
<1>2. [PortNext]_portVars =>
        /\ [AdoptNext]_adoptVars /\ [InstNext]_instVars /\ [DeliveryNext]_deliveryVars
        /\ [LineNext]_lineVars /\ [ExchangeNext]_exchangeVars
  BY PortStepIsAPart DEF portVars
<1>3. QED
  BY <1>1, <1>2, PTL DEF PortSpec, AdoptSpec, InstSpec, DeliverySpec, LineSpec, ExchangeSpec

FocusIsAPart == focus \in Foci

LEMMA PortFocus == PortSpec => []FocusIsAPart
PROOF
<1>1. PortInit => FocusIsAPart BY DEF PortInit, FocusIsAPart
<1>2. FocusIsAPart /\ [PortNext]_portVars => FocusIsAPart' BY DEF PortNext, On, portVars, FocusIsAPart
<1>3. QED BY <1>1, <1>2, PTL DEF PortSpec

\* Every variable of the part in focus has its type.
THEOREM PortTypeCorrect == PortSpec => []PortTypeOK
PROOF
<1>1. FocusIsAPart /\ AdoptTypeOK /\ InstTypeOK /\ DeliveryTypeOK /\ LineTypeOK /\ ExchangeTypeOK => PortTypeOK
  BY DEF PortTypeOK, FocusIsAPart, Foci
<1>2. QED
  BY <1>1, PortHasItsParts, PortFocus, AdoptTypeCorrect, InstTypeCorrect, DeliveryTypeCorrect,
     LineTypeCorrect, ExchangeTypeCorrect, PTL
=============================================================================
