----------------------------- MODULE Attachment -----------------------------
(***************************************************************************)
(* What chromium/supervisor.py promises its consumer, without how: it is   *)
(* handed one client at a time, each a new one, told when that client no   *)
(* longer works, and handed another one once the browser can be reached    *)
(* and answers.                                                            *)
(***************************************************************************)
EXTENDS Naturals

VARIABLES
  up,      \* the browser can be reached
  mute,    \* it accepts and does not answer
  works,   \* the client in the consumer's hands works
  link,    \* that client, 0 for none
  given,   \* the last client handed over
  over     \* the supervisor has returned

avars == <<up, mute, works, link, given, over>>

Init ==
  /\ up \in BOOLEAN /\ mute = FALSE
  /\ works = FALSE /\ link = 0 /\ given = 0 /\ over = FALSE

Boot == up' = TRUE /\ UNCHANGED <<mute, works, link, given, over>>

Die ==
  /\ up' = FALSE /\ mute' = FALSE /\ works' = FALSE
  /\ UNCHANGED <<link, given, over>>

Hang == up /\ mute' = TRUE /\ UNCHANGED <<up, works, link, given, over>>

Recover == mute' = FALSE /\ UNCHANGED <<up, works, link, given, over>>

Break == works' = FALSE /\ UNCHANGED <<up, mute, link, given, over>>

Hand ==
  /\ ~over /\ up /\ ~mute /\ link = 0
  /\ link' = given + 1 /\ given' = given + 1 /\ works' = TRUE
  /\ UNCHANGED <<up, mute, over>>

Notify ==
  /\ ~over /\ link # 0 /\ ~works
  /\ link' = 0
  /\ UNCHANGED <<up, mute, works, given, over>>

Quit ==
  /\ ~over /\ over' = TRUE
  /\ link' = 0 /\ works' = FALSE
  /\ UNCHANGED <<up, mute, given>>

Next == Boot \/ Die \/ Hang \/ Recover \/ Break \/ Hand \/ Notify \/ Quit

Safety == Init /\ [][Next]_avars

\* Reattaching and telling are certain unless the supervisor returns, or the
\* browser does not answer.
Spec == Safety /\ WF_avars(Notify /\ ~mute) /\ WF_avars(Hand)
=============================================================================
