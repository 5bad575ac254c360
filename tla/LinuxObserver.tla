---------------------------- MODULE LinuxObserver ----------------------------
(***************************************************************************)
(* LinuxLockStateObserver (src/stavau/platform/lockstate_linux.py): a task *)
(* of the event loop that connects to the system bus, asks logind for the  *)
(* session's LockedHint and then subscribes to its changes and to the      *)
(* requests to lock and unlock.  Asking, subscribing and the bus' adding   *)
(* of the match are steps of their own: a change between them is missed.   *)
(***************************************************************************)
EXTENDS LockScreen

VARIABLES
  task,      \* where _connect_and_listen is
  bus,       \* external: the connection to the system bus
  proxy,     \* _proxy is set: close() knows of the connection
  leaving,   \* _disconnect_quietly has been scheduled
  handlers,  \* so many of the three handlers were subscribed, in order
  armed,     \* external: so many of their matches the bus has added
  hints      \* external: the desktop keeps LockedHint up to date

busVars == <<task, bus, proxy, leaving, handlers, armed, hints>>

\* The order of lines 206-209.
Hint == 1
LockRequest == 2
UnlockRequest == 3

LinuxTypeOK ==
  /\ task \in {"none", "connecting", "querying", "listening", "failed", "cancelled"}
  /\ bus \in {"none", "open", "dead"}
  /\ proxy \in BOOLEAN /\ leaving \in BOOLEAN /\ hints \in BOOLEAN
  /\ handlers \in 0 .. 3 /\ armed \in 0 .. handlers
  /\ handlers > 0 => task = "listening"

NoBus ==
  /\ task = "none" /\ bus = "none" /\ proxy = FALSE /\ leaving = FALSE
  /\ handlers = 0 /\ armed = 0

LinuxInit == NoBus /\ hints \in BOOLEAN

Hears(handler) == bus = "open" /\ armed >= handler

-----------------------------------------------------------------------------
(* The calls of the monitoring loop. *)

FirstLook ==
  /\ task = "none" /\ ~closed /\ task' = "connecting"
  /\ UNCHANGED <<screenVars, bus, proxy, leaving, handlers, armed, hints>>

\* close(): a task that has not recorded the proxy is cancelled where it waits.
CloseLinux ==
  /\ ~closed /\ closed' = TRUE
  /\ task' = IF task \in {"connecting", "querying"} THEN "cancelled" ELSE task
  /\ leaving' = proxy /\ proxy' = FALSE
  /\ UNCHANGED <<screen, state, notices, bus, handlers, armed, hints>>

Disconnects ==
  /\ leaving /\ leaving' = FALSE
  /\ bus' = IF bus = "open" THEN "none" ELSE bus
  /\ notices' = <<>>
  /\ UNCHANGED <<screen, state, closed, task, proxy, handlers, armed, hints>>

-----------------------------------------------------------------------------
(* _connect_and_listen. *)

BusOpens ==
  /\ task = "connecting" /\ bus = "none" /\ bus' = "open"
  /\ UNCHANGED <<screenVars, task, proxy, leaving, handlers, armed, hints>>

\* The session is found, by pid or by name, and its LockedHint asked for.
Resolves ==
  /\ task = "connecting" /\ bus = "open" /\ task' = "querying"
  /\ UNCHANGED <<screenVars, bus, proxy, leaving, handlers, armed, hints>>

\* logind answers with the hint, or with what is no bool.
Answers ==
  /\ task = "querying" /\ bus = "open" /\ notices = <<>>
  /\ \E value \in {IF hints THEN screen ELSE "unlocked", "unknown"} : Said("reply", value)
  /\ UNCHANGED <<screen, state, closed, busVars>>

\* Any exception before the proxy is recorded: nobody closes a bus that was opened.
Fails ==
  /\ task \in {"connecting", "querying"} /\ task' = "failed"
  /\ state' = "unknown" /\ notices' = <<>>
  /\ UNCHANGED <<screen, closed, bus, proxy, leaving, handlers, armed, hints>>

\* Fault variant: the hint of an answer that cannot be parsed is locked.
ListensGuessing ==
  /\ task = "querying" /\ notices # <<>>
  /\ state' = IF Head(notices).value = "unlocked" THEN "unlocked" ELSE "locked"
  /\ notices' = Tail(notices)
  /\ task' = "listening" /\ proxy' = TRUE
  /\ handlers' \in 0 .. 3
  /\ UNCHANGED <<screen, closed, bus, leaving, armed, hints>>

\* The answer is taken and the handlers subscribed; an exception ends the subscribing.
Listens ==
  /\ task = "querying" /\ Handle
  /\ task' = "listening" /\ proxy' = TRUE
  /\ handlers' \in 0 .. 3
  /\ UNCHANGED <<bus, leaving, armed, hints>>

MatchAdded ==
  /\ bus = "open" /\ armed < handlers /\ armed' = armed + 1
  /\ UNCHANGED <<screenVars, task, bus, proxy, leaving, handlers, hints>>

-----------------------------------------------------------------------------
(* The bus and the desktop. *)

LinuxScreenChanges == ScreenChanges(hints /\ Hears(Hint)) /\ UNCHANGED busVars

\* loginctl lock-session, the lock command's own included, and unlock-session.
Requests(value) ==
  /\ Hears(IF value = "locked" THEN LockRequest ELSE UnlockRequest)
  /\ Said("request", value)
  /\ UNCHANGED <<screen, state, closed, busVars>>

\* _set_state, which ignores what comes after close().
Signal ==
  /\ task = "listening"
  /\ IF closed THEN Ignore ELSE Handle
  /\ UNCHANGED busVars

\* The daemon drops the connection; nothing tells the observer.
BusDies ==
  /\ bus = "open" /\ bus' = "dead" /\ notices' = <<>>
  /\ UNCHANGED <<screen, state, closed, task, proxy, leaving, handlers, armed, hints>>

LinuxNext ==
  \/ FirstLook \/ CloseLinux \/ Disconnects
  \/ BusOpens \/ Resolves \/ Answers \/ Fails \/ Listens \/ MatchAdded
  \/ LinuxScreenChanges
  \/ \E value \in Value : Requests(value)
  \/ Signal \/ BusDies
=============================================================================
