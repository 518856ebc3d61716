----------------------------- MODULE SharedLog -----------------------------
(***************************************************************************)
(* What a room promises its players, without channels, locks or tasks:     *)
(* one log that only grows at its end, and members who each read it from   *)
(* the beginning, in order and without a gap.  The server may condemn a    *)
(* member it can no longer serve: what it reads may then have gaps, and it *)
(* is dropped.                                                             *)
(***************************************************************************)
EXTENDS Integers, SequencesExt

CONSTANTS Member,    \* who may read the log
          Prompt,    \* the members who keep reading what is sent to them
          Action     \* what the log holds

VARIABLES log,       \* the actions published so far
          read,      \* what each member has read
          status     \* where each member is

sharedVars == <<log, read, status>>

Status == {"out", "in", "condemned", "dropped"}

Init ==
  /\ log = <<>>
  /\ read = [m \in Member |-> <<>>]
  /\ status = [m \in Member |-> "out"]

Publish ==
  /\ IsPrefix(log, log')
  /\ \A i \in 1..Len(log') : log'[i] \in Action
  /\ UNCHANGED <<read, status>>

Enter(m) ==
  /\ status[m] = "out"
  /\ status' = [status EXCEPT ![m] = "in"]
  /\ UNCHANGED <<log, read>>

\* A member that is not condemned reads the next action.
Read(m) ==
  /\ status[m] = "in"
  /\ Len(read[m]) < Len(log)
  /\ read' = [read EXCEPT ![m] = Append(@, log[Len(@) + 1])]
  /\ UNCHANGED <<log, status>>

\* A condemned member reads some published action.
ReadAny(m) ==
  /\ status[m] = "condemned"
  /\ \E i \in 1..Len(log) : read' = [read EXCEPT ![m] = Append(@, log[i])]
  /\ UNCHANGED <<log, status>>

Condemn(m) ==
  /\ status[m] \in {"out", "in"}
  /\ status' = [status EXCEPT ![m] = "condemned"]
  /\ UNCHANGED <<log, read>>

Drop(m) ==
  /\ status[m] # "dropped"
  /\ status' = [status EXCEPT ![m] = "dropped"]
  /\ UNCHANGED <<log, read>>

Next ==
  \/ Publish
  \/ \E m \in Member : Enter(m) \/ Read(m) \/ ReadAny(m) \/ Condemn(m) \/ Drop(m)

Safe == Init /\ [][Next]_sharedVars

\* A prompt member reads everything, a condemned one is dropped.
Spec ==
  /\ Safe
  /\ \A m \in Prompt : WF_sharedVars(Read(m))
  /\ \A m \in Member : WF_sharedVars(status[m] = "condemned" /\ Drop(m))

=============================================================================
