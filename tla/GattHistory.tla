---------------------------- MODULE GattHistory -----------------------------
(***************************************************************************)
(* What the GATT source promises of the tracker it feeds, of the device it *)
(* follows and of what stop() leaves behind, with a history of the two     *)
(* races between the task and the thread that retargets it.                *)
(***************************************************************************)
EXTENDS GattLink

VARIABLES
  torn,       \* the task took the address before a retarget and its generation after
  overtaken,  \* a reading passed the guard before a retarget, and was pushed after it
  strays,     \* samples of another device since the tracker was reset, at most 2
  steady,     \* since the latest sample there was no miss, no drop and no retarget
  rested,     \* the task backed off since the latest contact or retarget
  outpaced    \* a retarget reset the backoff the task had already taken its rest from

ghist == <<torn, overtaken, strays, steady, rested, outpaced>>
gvars == <<vars, ghist>>

GInit ==
  /\ Init
  /\ torn = FALSE /\ overtaken = FALSE /\ strays = 0
  /\ steady = FALSE /\ rested = FALSE /\ outpaced = FALSE

Connecting == {"connecting", "check", "reading", "push", "polling"}
TornNow == wanted # address /\ ~outdated /\ pc \in Connecting

GTakeGeneration ==
  /\ TakeGeneration
  /\ torn' = (torn \/ (wanted # address /\ tray # "generation"))
  /\ UNCHANGED <<overtaken, strays, steady, rested, outpaced>>

GConnected ==
  /\ Connected
  /\ rested' = FALSE
  /\ UNCHANGED <<torn, overtaken, strays, steady, outpaced>>

GSample ==
  /\ \E s \in BOOLEAN : Sample(s)
  /\ strays' = IF wanted # address /\ strays < 2 THEN strays + 1 ELSE strays
  /\ steady' = TRUE
  /\ UNCHANGED <<torn, overtaken, rested, outpaced>>

\* The steps that may end a row of samples: they leave the polling loop, or stay in
\* it without a reading.
GPoll ==
  /\ Check \/ Reads \/ ReadsNothing \/ Stop
  /\ steady' = (steady /\ pc' \in {"reading", "push"})
  /\ UNCHANGED <<torn, overtaken, strays, rested, outpaced>>

GForget ==
  /\ Forget
  /\ rested' = FALSE /\ outpaced' = (pc \in {"double", "store"})
  /\ UNCHANGED <<torn, overtaken, strays, steady>>

GRest ==
  /\ Rest
  /\ rested' = TRUE /\ outpaced' = FALSE
  /\ UNCHANGED <<torn, overtaken, strays, steady>>

GReset ==
  /\ ResetTracker
  /\ torn' = (torn /\ TornNow) /\ overtaken' = (pc = "push" /\ wanted # address)
  /\ strays' = 0 /\ steady' = FALSE
  /\ UNCHANGED <<rested, outpaced>>

GOther ==
  /\ \/ Start \/ Begin \/ TakeAddress \/ ConnectFails \/ Wakes \/ Dropped
     \/ AfterAttempt \/ TakeDelay \/ Double
     \/ (\E d \in Device : Choose(d)) \/ NewGeneration
     \/ Stopping \/ LinkLost \/ Second
  /\ UNCHANGED ghist

GNext ==
  \/ GTakeGeneration \/ GConnected \/ GSample \/ GPoll \/ GRest \/ GForget \/ GReset
  \/ GOther

GSpec == GInit /\ [][GNext]_gvars

GFairSpec == GSpec /\ Fairness

-----------------------------------------------------------------------------
(* Properties. *)

Settled == tray = "idle"

\* Once a retarget is done the tracker averages samples of the chosen device only
\* (gattlink.py:303-307), unless a reading had passed that guard, or the task
\* took the old address with the new generation.
TrackerIsTarget == Settled => heard \subseteq {address} \/ torn \/ overtaken

\* A reading that slipped through is the only one: the task follows the choice.
AtMostOneStray == Settled /\ ~torn => strays <= 1

\* At the relaxed pace too the tracker never goes stale, and so the device never
\* seems gone, while every reading succeeds.
SteadyIsFresh == RelaxedPoll + ReadTimeout <= StaleSeconds /\ steady => ~Silent

\* The first rest after a contact or a retarget is as long as the initial backoff
\* (gattlink.py:246, :295), unless the retarget reset the backoff between the line that
\* takes the rest from it and the rest (:281-283).
FastAfterContact ==
  [][pc # "resting" /\ pc' = "resting" /\ delay' > BackoffInitial
       => rested \/ outpaced]_gvars

\* stop() leaves no connection, whatever the task was doing when it was cancelled.
StopDisconnects ==
  phase = "stopped" => ~linked /\ client = NoDevice /\ pc = "done"

\* A running source comes to try the chosen device, whatever it was doing when the
\* choice was made, unless it took the old address with the new generation.
Trying(d) == wanted = d /\ pc \in Connecting
FollowsChoice ==
  \A d \in Device :
    phase = "running" /\ Settled /\ address = d
      ~> Trying(d) \/ (torn /\ TornNow) \/ ~Settled \/ phase # "running"

\* "retarget() switches address, drops the current connection (at the next loop
\* iteration)" (gattlink.py:196-197): not when the task took the address before the
\* retarget and the generation after it.
RetargetDrops ==
  [][pc = "check" /\ pc' # "check" /\ Settled /\ wanted # address
       => pc' = "dropping"]_gvars

-----------------------------------------------------------------------------
(* Why the safety properties hold: the inductive invariants of GattProofs. *)

GTypeOK ==
  /\ TypeOK
  /\ torn \in BOOLEAN /\ overtaken \in BOOLEAN /\ strays \in 0 .. 2
  /\ steady \in BOOLEAN /\ rested \in BOOLEAN /\ outpaced \in BOOLEAN

\* A connection to another device than the chosen one is outdated, or is about to be,
\* or is torn; and only a reading that had passed the guard can still reach the
\* tracker from it.
Straying == pc = "push" /\ wanted # address
FollowInv ==
  /\ TornNow => torn \/ tray = "generation"
  /\ Settled => heard \subseteq {address} \/ torn \/ overtaken
  /\ Settled /\ Straying => torn \/ overtaken
  /\ Settled /\ ~torn => strays <= 1 /\ (Straying => strays = 0)

\* How old the latest sample can be, by where the task is in its round.
SteadyInv ==
  steady =>
    /\ pc \in {"polling", "check", "reading", "push"} /\ lastSeen # None
    /\ pc = "polling" => lastSeen <= elapsed /\ delay <= RelaxedPoll
    /\ pc = "check" => lastSeen <= RelaxedPoll
    /\ pc = "reading" => lastSeen <= RelaxedPoll + elapsed
    /\ pc = "push" => lastSeen <= RelaxedPoll + ReadTimeout

FastInv ==
  ~rested =>
    /\ backoff = BackoffInitial
    /\ pc \in {"double", "store"} /\ ~outpaced => delay = BackoffInitial

LinkInv ==
  /\ linked => client # NoDevice \/ phase = "disconnecting"
  /\ phase \in {"disconnecting", "stopped"} => client = NoDevice
=============================================================================
