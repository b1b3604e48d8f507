----------------------------- MODULE HistoryLog -----------------------------
(***************************************************************************)
(* What the history ring of the firmware promises to whoever reads it: a   *)
(* set of records numbered in the order they were taken.  A new record     *)
(* gets the next number; making room drops the oldest records and no       *)
(* others.  Any records may be lost only in a power cut, a flash error or  *)
(* a clear, each of which ends the run of untroubled records; and nothing  *)
(* ever invents, renumbers or reorders one.                                *)
(***************************************************************************)
EXTENDS Integers

VARIABLES
  log,   \* the numbers of the records that can be read back
  next,  \* the number of the next record
  run    \* records in a row since the last trouble

logVars == <<log, next, run>>

LogInit == log = {} /\ next = 0 /\ run = 0

\* A sample is recorded under the next number.
Record ==
  /\ log' = log \cup {next}
  /\ next' = next + 1
  /\ run' = run + 1

\* Room is made at the old end.
DropOldest ==
  \E bound \in log :
    /\ log' = {s \in log : s > bound}
    /\ UNCHANGED <<next, run>>

\* An error, or a clear on its way through the sectors.
Lose ==
  /\ log' \subseteq log
  /\ run' = 0
  /\ UNCHANGED next

\* A completed clear starts the numbering again.
Cleared ==
  /\ log' = {}
  /\ next' = 0
  /\ run' = 0

(***************************************************************************)
(* After a power cycle numbering goes on after the newest record found.    *)
(* The record being written when the power went may be among them; records *)
(* are missing only if there was trouble.                                  *)
(***************************************************************************)
Restart ==
  /\ log' \subseteq log \cup {next}
  /\ \/ log \subseteq log' /\ UNCHANGED run
     \/ run' = 0
  /\ \/ log' = {} /\ next' = 0
     \/ /\ next' - 1 \in log'
        /\ \A s \in log' : s < next'

LogNext == Record \/ DropOldest \/ Lose \/ Cleared \/ Restart

LogSpec == LogInit /\ [][LogNext]_logVars
=============================================================================
