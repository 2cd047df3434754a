------------------------------- MODULE Adoption -------------------------------
(***************************************************************************)
(* How an instance is adopted.  The threads of the HTTP API write what     *)
(* Protect posts to adopt_state.json; the classic client (avclient.py) and *)
(* the ucp4 client read it for the console to dial and the token to        *)
(* present; the classic client empties it when Protect un-adopts the       *)
(* device.  The processes share nothing but this file.                     *)
(*                                                                         *)
(* A write goes to a temporary file, which then replaces the real one.     *)
(* Every thread of a process uses the same temporary file: a thread goes   *)
(* on writing the one it opened, also when another thread has put that in  *)
(* place by then.                                                          *)
(***************************************************************************)
EXTENDS Naturals, FiniteSets

CONSTANTS
  Token,       \* tokens Protect hands out, each for one adoption
  None,
  Writer,      \* threads of the HTTP API
  Body,        \* bound of the model: the payloads that are posted
  ClassicHost, \* the classic client has a host to dial when there is no adoption
  Ucp4Host     \* the ucp4 client has one (--fallback-host-port)

ASSUME HostAssumption == ClassicHost \in BOOLEAN /\ Ucp4Host \in BOOLEAN
ASSUME NoneAssumption == None \notin Token

Client == {"classic", "ucp4"}

\* What the file says.  A host that cannot be parsed counts as "bad".
State == [hosts : {"none", "good", "bad"}, token : Token \cup {None}]
NotAdopted == [hosts |-> "none", token |-> None]

ASSUME BodyAssumption == Body \subseteq State

\* What is not JSON: nothing yet, or the end of a longer text after a shorter one.
Empty == [hosts |-> "empty", token |-> None]
Torn == [hosts |-> "torn", token |-> None]
NoFile == [hosts |-> "no file", token |-> None]
Text == State \cup {Empty, Torn}

VARIABLES
  file,       \* adopt_state.json
  tmp,        \* the HTTP process's temporary file
  post,       \* post[w]: step and body of a write, and what the file it opened is by now
  client,     \* client[c]: step, the state read, whether it sends the token and claims adoption
  used,       \* used[c]: used_tokens
  presented,  \* history: presented[c][t]: how often c has sent t since it started
  lost,       \* history: lost[c]: tokens that were to be sent on a dial that failed
  overlapped  \* history: two writes of the HTTP API overlapped

adoptVars == <<file, tmp, post, client, used, presented, lost, overlapped>>
fileVars == <<file, tmp, post, overlapped>>
clientVars == <<client, used, presented, lost>>

Adopted(s) == s.token # None \/ s.hosts \in {"good", "bad"}

\* A reader takes what is not JSON, and no file at all, for an empty state.
Read == IF file \in State THEN file ELSE NotAdopted

NoPost == [step |-> "idle", fd |-> "gone", body |-> NotAdopted]
Idle == [step |-> "idle", state |-> NotAdopted, sends |-> FALSE, claims |-> FALSE]

AdoptInit ==
  /\ file = NoFile /\ tmp = NoFile
  /\ post = [w \in Writer |-> NoPost]
  /\ client = [c \in Client |-> Idle]
  /\ used = [c \in Client |-> {}]
  /\ presented = [c \in Client |-> [t \in Token |-> 0]]
  /\ lost = [c \in Client |-> {}]
  /\ overlapped = FALSE

-----------------------------------------------------------------------------
(* The HTTP API                                                            *)

Overlaps(w) == \E v \in Writer \ {w} : post[v].step # "idle"

\* A payload without hosts and token is refused; any other is kept whole.
Open(w, body) ==
  /\ post[w].step = "idle" /\ Adopted(body)
  /\ tmp' = Empty
  /\ post' = [post EXCEPT ![w] = [step |-> "opened", fd |-> "tmp", body |-> body]]
  /\ overlapped' = (overlapped \/ Overlaps(w))
  /\ UNCHANGED <<file, clientVars>>

\* What is written over a longer text leaves the end of that.
Over(old, body) == IF old \in {Empty, body} THEN {body} ELSE {body, Torn}

Write(w) ==
  /\ post[w].step = "opened"
  /\ file' \in IF post[w].fd = "file" THEN Over(file, post[w].body) ELSE {file}
  /\ tmp' \in IF post[w].fd = "tmp" THEN Over(tmp, post[w].body) ELSE {tmp}
  /\ post' = [post EXCEPT ![w].step = "written"]
  /\ UNCHANGED <<overlapped, clientVars>>

\* What a file that was opened is after the file in place was replaced.
Moved(fd) == IF fd = "tmp" THEN "file" ELSE "gone"

Replace(w) ==
  /\ post[w].step = "written" /\ tmp # NoFile
  /\ file' = tmp /\ tmp' = NoFile
  /\ post' = [v \in Writer |-> IF v = w \/ post[v].step = "idle" THEN NoPost
                                ELSE [post[v] EXCEPT !.fd = Moved(@)]]
  /\ UNCHANGED <<overlapped, clientVars>>

\* Another thread has moved the temporary file: this raises, and the post is answered with
\* an error.
ReplaceFails(w) ==
  /\ post[w].step = "written" /\ tmp = NoFile
  /\ post' = [post EXCEPT ![w] = NoPost]
  /\ UNCHANGED <<file, tmp, overlapped, clientVars>>

-----------------------------------------------------------------------------
(* The clients.  A token is spent when it is read, before the dial.        *)

\* Mistake: the absence of a token is taken for one.
DialNone(c, s) ==
  /\ client' = [client EXCEPT ![c] =
       [step |-> "dialing", state |-> s, sends |-> s.token \notin used[c], claims |-> TRUE]]
  /\ used' = [used EXCEPT ![c] = @ \cup {s.token}]
  /\ UNCHANGED <<fileVars, presented, lost>>

Dial(c, s) ==
  /\ client' = [client EXCEPT ![c] =
       [step |-> "dialing", state |-> s,
        sends |-> s.token # None /\ s.token \notin used[c],
        claims |-> s.token # None]]
  /\ used' = [used EXCEPT ![c] = IF s.token = None THEN @ ELSE @ \cup {s.token}]
  /\ UNCHANGED <<fileVars, presented, lost>>

\* Dials the adopted host, else the configured one; without either it waits.
ClassicDial == /\ client["classic"].step = "idle"
               /\ Read.hosts = "good" \/ ClassicHost
               /\ Dial("classic", Read)

\* The header that claims adoption reads the file anew.
ClassicHeaders ==
  /\ client["classic"].step = "dialing"
  /\ client' = [client EXCEPT !["classic"].step = "connecting",
                              !["classic"].claims = Adopted(Read)]
  /\ UNCHANGED <<fileVars, used, presented, lost>>

\* Waits for hosts; after a while the fallback is dialed, without a token.
Ucp4Dial == /\ client["ucp4"].step = "idle"
            /\ \/ Read.hosts = "good" /\ Dial("ucp4", Read)
               \/ Read.hosts = "none" /\ Ucp4Host /\ Dial("ucp4", NotAdopted)

Connecting(c) == client[c].step = IF c = "classic" THEN "connecting" ELSE "dialing"

Connect(c) ==
  /\ Connecting(c)
  /\ client' = [client EXCEPT ![c].step = "up"]
  /\ presented' = IF client[c].sends
                  THEN [presented EXCEPT ![c][client[c].state.token] = @ + 1]
                  ELSE presented
  /\ UNCHANGED <<fileVars, used, lost>>

ConnectFails(c) ==
  /\ Connecting(c)
  /\ client' = [client EXCEPT ![c] = Idle]
  /\ lost' = [lost EXCEPT ![c] = IF client[c].sends THEN @ \cup {client[c].state.token} ELSE @]
  /\ UNCHANGED <<fileVars, used, presented>>

\* The console or the network ends the connection.
Drop(c) == /\ client[c].step = "up"
           /\ client' = [client EXCEPT ![c] = Idle]
           /\ UNCHANGED <<fileVars, used, presented, lost>>

\* The watcher thread of a ucp4 connection closes it when the token is another one or gone.
Watch == /\ client["ucp4"].step = "up"
         /\ Read.token # client["ucp4"].state.token
         /\ client' = [client EXCEPT !["ucp4"] = Idle]
         /\ UNCHANGED <<fileVars, used, presented, lost>>

\* Done by another process than the HTTP API, with a temporary file of its own.
Emptied ==
  /\ file' = NotAdopted
  /\ post' = [w \in Writer |-> IF post[w].fd = "file" THEN [post[w] EXCEPT !.fd = "gone"]
                               ELSE post[w]]

\* Mistake: the connection on which the device was un-adopted goes on.
ResetAndStay ==
  /\ client["classic"].step = "up"
  /\ Emptied
  /\ UNCHANGED <<tmp, overlapped, client, used, presented, lost>>

\* The state is emptied and the connection closed.
ResetToDefaults ==
  /\ client["classic"].step = "up"
  /\ Emptied
  /\ client' = [client EXCEPT !["classic"] = Idle]
  /\ UNCHANGED <<tmp, overlapped, used, presented, lost>>

\* All processes of the instance end and start again; the files stay, the tokens spent are
\* forgotten.
Restart ==
  /\ client' = [c \in Client |-> Idle]
  /\ used' = [c \in Client |-> {}]
  /\ presented' = [c \in Client |-> [t \in Token |-> 0]]
  /\ lost' = [c \in Client |-> {}]
  /\ tmp' = NoFile
  /\ post' = [w \in Writer |-> NoPost]
  /\ UNCHANGED <<file, overlapped>>

AdoptNext ==
  \/ \E w \in Writer : (\E body \in Body : Open(w, body)) \/ Write(w)
                      \/ Replace(w) \/ ReplaceFails(w)
  \/ ClassicDial \/ ClassicHeaders \/ Ucp4Dial
  \/ \E c \in Client : Connect(c) \/ ConnectFails(c) \/ Drop(c)
  \/ Watch \/ ResetToDefaults \/ Restart

AdoptSpec == AdoptInit /\ [][AdoptNext]_adoptVars

-----------------------------------------------------------------------------
(* Properties                                                              *)

\* Every variable has its type.
AdoptTypeOK ==
  /\ file \in Text \cup {NoFile} /\ tmp \in Text \cup {NoFile}
  /\ post \in [Writer -> [step : {"idle", "opened", "written"}, fd : {"tmp", "file", "gone"},
                          body : State]]
  /\ client \in [Client -> [step : {"idle", "dialing", "connecting", "up"}, state : State,
                            sends : BOOLEAN, claims : BOOLEAN]]
  /\ used \in [Client -> SUBSET Token] /\ lost \in [Client -> SUBSET Token]
  /\ presented \in [Client -> [Token -> Nat]]
  /\ overlapped \in BOOLEAN

\* No reader sees a half-written state ("Write obj as JSON atomically (tmp + os.replace) so
\* readers never see a torn write"), whenever processes end, unless two posts of the
\* HTTP API overlapped: they share a temporary file.
WholeUnlessOverlapped == ~overlapped => file \in State \cup {NoFile}

\* A client on a connection made for a token has presented it, exactly once since the client
\* started, unless the dial on which it was to go out failed: it is spent then all the same.
PresentedOrLost ==
  \A c \in Client :
    /\ \A t \in Token : presented[c][t] <= 1
    /\ LET t == client[c].state.token IN
       client[c].step = "up" /\ t # None => t \in lost[c] \/ presented[c][t] = 1

\* The classic client claims adoption on a connection only while the device is adopted: it is
\* not, from the reset on, until the next post ("a fresh, honestly-unadopted reconnect").
ClaimIsHonest ==
  client["classic"].step \in {"connecting", "up"} /\ client["classic"].claims
    /\ ~overlapped => Adopted(Read)

\* All three: the adoption on disk is whole, and a client speaks for no other, nor loses one in
\* silence.
AdoptionIsHonest == WholeUnlessOverlapped /\ PresentedOrLost /\ ClaimIsHonest
=============================================================================
