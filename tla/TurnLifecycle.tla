--------------------------- MODULE TurnLifecycle ---------------------------
(***************************************************************************)
(* What the v2 voice protocol promises about one turn, with no process,    *)
(* queue or restart in sight.  A turn is named by the (device, request id) *)
(* pair of its upload.  It is open until one complete body is accepted     *)
(* under that name, the body is fixed from then on, the agent works on it  *)
(* at most once, and it settles in exactly one outcome.  VoiceJobs is      *)
(* shown to implement this module.                                         *)
(***************************************************************************)
EXTENDS Naturals

CONSTANTS Requests,  \* the (device, request id) pairs
          Audio,     \* the bodies, told apart by their SHA-256
          NoAudio    \* no body has been accepted

VARIABLES turn,  \* the state of each turn
          body,  \* the accepted body of each turn
          acks,  \* the bodies a 202 response was sent for
          runs   \* how many times the agent was set to work on the turn

vars == <<turn, body, acks, runs>>

Outcomes == {"ready", "failed", "interrupted", "cancelled"}

Init ==
  /\ turn = [r \in Requests |-> "open"]
  /\ body = [r \in Requests |-> NoAudio]
  /\ acks = [r \in Requests |-> {}]
  /\ runs = [r \in Requests |-> 0]

\* An upload begins; at most one per turn is under way.
Receive(r) ==
  /\ turn[r] = "open"
  /\ turn' = [turn EXCEPT ![r] = "receiving"]
  /\ UNCHANGED <<body, acks, runs>>

\* Uploads that broke off, or were refused, leave their turns open.
Drop(S) ==
  /\ \A r \in S : turn[r] = "receiving"
  /\ turn' = [r \in Requests |-> IF r \in S THEN "open" ELSE turn[r]]
  /\ UNCHANGED <<body, acks, runs>>

\* The complete body is stored and acknowledged.
Accept(r, a) ==
  /\ turn[r] = "receiving"
  /\ turn' = [turn EXCEPT ![r] = "accepted"]
  /\ body' = [body EXCEPT ![r] = a]
  /\ acks' = [acks EXCEPT ![r] = @ \cup {a}]
  /\ UNCHANGED runs

\* A repeated upload of the accepted body is acknowledged again.
AckAgain(r) ==
  /\ body[r] # NoAudio
  /\ acks' = [acks EXCEPT ![r] = @ \cup {body[r]}]
  /\ UNCHANGED <<turn, body, runs>>

\* The agent is set to work: only ever on one turn at a time.
Work(r) ==
  /\ turn[r] = "accepted"
  /\ \A q \in Requests : turn[q] # "working"
  /\ turn' = [turn EXCEPT ![r] = "working"]
  /\ runs' = [runs EXCEPT ![r] = @ + 1]
  /\ UNCHANGED <<body, acks>>

\* The work ends in an outcome, or the user gives it up first.
Settle(r, outcome) ==
  /\ \/ turn[r] = "working"
     \/ turn[r] = "accepted" /\ outcome = "cancelled"
  /\ turn' = [turn EXCEPT ![r] = outcome]
  /\ UNCHANGED <<body, acks, runs>>

Next ==
  \/ \E r \in Requests : Receive(r) \/ AckAgain(r) \/ Work(r)
  \/ \E S \in SUBSET Requests : Drop(S)
  \/ \E r \in Requests, a \in Audio : Accept(r, a)
  \/ \E r \in Requests, outcome \in Outcomes : Settle(r, outcome)

Spec == Init /\ [][Next]_vars
=============================================================================
