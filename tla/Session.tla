------------------------------ MODULE Session ------------------------------
(***************************************************************************)
(* What a recording session promises, without code cache, translation      *)
(* blocks or exclusive work: a session starts when every client has a link *)
(* to the simulator, in the mode First; it is in one mode at a time; a     *)
(* request to change that mode or to stop is answered by exactly one later *)
(* step, with the effect that was asked for; nothing but a stop ends it.   *)
(***************************************************************************)
CONSTANTS
  Client,     \* who can start, stop and switch a session
  Mode,
  First,      \* the mode a session starts in, one of Mode
  Immediate,  \* modes entered by the request itself, some of Mode
  Idle        \* no mode, no request

VARIABLES
  phase,      \* "idle", "starting", "recording", or "crashed"
  mode,       \* the mode of the session, Idle outside one
  link,       \* each client's link to the simulator: "none", "up" or "down"
  asked       \* the request each client has under way

vars == <<phase, mode, link, asked>>

Phase == {"idle", "starting", "recording", "crashed"}

TypeOK ==
  /\ phase \in Phase
  /\ mode \in Mode \cup {Idle}
  /\ link \in [Client -> {"none", "up", "down"}]
  /\ asked \in [Client -> (Mode \ Immediate) \cup {"stop", Idle}]

NoLink    == [c \in Client |-> "none"]
NoRequest == [c \in Client |-> Idle]

Init == phase = "idle" /\ mode = Idle /\ link = NoLink /\ asked = NoRequest

Start ==
  /\ phase = "idle"
  /\ phase' = "starting"
  /\ UNCHANGED <<mode, link, asked>>

\* The simulator answers, or cannot be reached; the start goes on either way.
Connect(c) ==
  /\ phase = "starting" /\ link[c] = "none"
  /\ \E l \in {"up", "down"} : link' = [link EXCEPT ![c] = l]
  /\ UNCHANGED <<phase, mode, asked>>

Begin ==
  /\ phase = "starting" /\ \A c \in Client : link[c] # "none"
  /\ phase' = "recording"
  /\ mode' = First
  /\ UNCHANGED <<link, asked>>

\* A mode that takes effect at once needs every link.
Enter(m) ==
  /\ phase = "recording" /\ m \in Immediate /\ m # mode
  /\ \A c \in Client : link[c] = "up"
  /\ mode' = m
  /\ UNCHANGED <<phase, link, asked>>

AskMode(c, m) ==
  /\ phase = "recording" /\ m \in Mode \ Immediate /\ m # mode
  /\ asked[c] = Idle
  /\ asked' = [asked EXCEPT ![c] = m]
  /\ UNCHANGED <<phase, mode, link>>

\* The client that stops a session takes its own link down.
AskStop(c) ==
  /\ phase = "recording" /\ asked[c] = Idle
  /\ asked' = [asked EXCEPT ![c] = "stop"]
  /\ link' = [link EXCEPT ![c] = "down"]
  /\ UNCHANGED <<phase, mode>>

Answered(c) == asked' = [asked EXCEPT ![c] = Idle]

\* A request may be answered in a later session than the one it was made in.
GrantMode(c) ==
  /\ phase = "recording" /\ asked[c] \in Mode
  /\ mode' = asked[c]
  /\ Answered(c)
  /\ UNCHANGED <<phase, link>>

GrantStop(c) ==
  /\ phase \in {"idle", "recording"} /\ asked[c] = "stop"
  /\ phase' = "idle" /\ mode' = Idle /\ link' = NoLink
  /\ Answered(c)

\* Whoever uses a link that is not there ends everything, and so does a mode
\* that needs all links while one is down.
Crash ==
  /\ \/ phase \in {"idle", "starting"} /\ \E c \in Client : link[c] = "none"
     \/ phase = "recording" /\ \E c \in Client : link[c] = "down"
  /\ phase' = "crashed" /\ mode' = Idle /\ link' = NoLink /\ asked' = NoRequest

Next ==
  \/ Start \/ Begin \/ Crash
  \/ \E m \in Mode : Enter(m)
  \/ \E c \in Client :
       \/ Connect(c) \/ AskStop(c) \/ GrantMode(c) \/ GrantStop(c)
       \/ \E m \in Mode : AskMode(c, m)

Spec == Init /\ [][Next]_vars

\* A request that can be granted for ever is granted.
Fairness == \A c \in Client : WF_vars(GrantMode(c) \/ GrantStop(c))
=============================================================================
