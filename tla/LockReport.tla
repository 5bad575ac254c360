----------------------------- MODULE LockReport -----------------------------
(***************************************************************************)
(* What an observer of the session's lock state promises the monitoring    *)
(* loop (src/stavau/platform/lockstate.py): it reports one word, which is  *)
(* advisory.  The words reach it from the desktop one at a time, each true *)
(* when it was said or a mere request, and it repeats them in that order   *)
(* or says that it does not know; it never makes one up.                   *)
(***************************************************************************)
EXTENDS Sequences

VARIABLES
  screen,   \* external: the session is locked, or it is not
  report,   \* what current() answers
  pending   \* external: the words said that have not been heard

Value == {"locked", "unlocked"}
Word == Value \cup {"unknown"}
Saying == [about : {"hint", "reply", "request"}, value : Word]

vars == <<screen, report, pending>>

Init == screen \in Value /\ report = "unknown" /\ pending = <<>>

\* A hint is said when the screen changes, of the screen as it is from then on.
Changes ==
  /\ screen' \in Value \ {screen}
  /\ pending' \in {pending, Append(pending, [about |-> "hint", value |-> screen'])}
  /\ UNCHANGED report

\* Somebody asks for a lock or an unlock, or the observer asks how things are.
Says(said) ==
  /\ \/ said.about = "request"
     \/ said.about = "reply" /\ said.value \in {screen, "unlocked", "unknown"}
  /\ pending' = Append(pending, said)
  /\ UNCHANGED <<screen, report>>

Repeats ==
  /\ pending # <<>>
  /\ report' = Head(pending).value /\ pending' = Tail(pending)
  /\ UNCHANGED screen

\* The words that are left may go unheard, and a word not taken is not repeated.
Loses ==
  /\ pending # <<>> /\ pending' \in {Tail(pending), <<>>}
  /\ UNCHANGED <<screen, report>>

GivesUp ==
  /\ report' = "unknown" /\ pending' \in {pending, <<>>}
  /\ UNCHANGED screen

Next ==
  \/ Changes
  \/ \E said \in Saying : Says(said)
  \/ Repeats
  \/ Loses
  \/ GivesUp

Spec == Init /\ [][Next]_vars
=============================================================================
