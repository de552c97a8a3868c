---------------------------- MODULE SampleHistory ----------------------------
(***************************************************************************)
(* What the power history promises: the chart holds the latest RingN       *)
(* samples, oldest first; the log is best effort: rows may be missing, and *)
(* one that was being written when power failed may be damaged, but the    *)
(* others are what was captured; after a restart the chart holds the       *)
(* latest logged samples, or nothing when there is no card.                *)
(***************************************************************************)
EXTENDS Integers, Sequences

CONSTANTS Samples, Garbled, RingN

VARIABLES
  hist,   \* samples the chart can show, oldest first
  log     \* samples on the card

Latest(s) == IF Len(s) <= RingN THEN s ELSE SubSeq(s, Len(s) - RingN + 1, Len(s))

Init == hist = <<>> /\ log = <<>>

Capture ==
  \E s \in Samples :
    /\ hist' = Latest(Append(hist, s))
    /\ log' = log \/ log' = Append(log, s)

PowerLost ==
  hist' = <<>> /\ (log' = log \/ log' = Append(log, Garbled))

Restart == hist = <<>> /\ hist' \in {<<>>, Latest(log)} /\ UNCHANGED log

Next == Capture \/ PowerLost \/ Restart
Spec == Init /\ [][Next]_<<hist, log>>
=============================================================================
