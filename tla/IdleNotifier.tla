----------------------------- MODULE IdleNotifier -----------------------------
(***************************************************************************)
(* espresso/base/IdleNotifier.java: what UiControllerImpl may rely on in a *)
(* source of idleness, whichever implements it.  A callback is registered  *)
(* over no other one, runs at most once, and a source either runs it after *)
(* cancelCallback or does not (MayCallLate; the javadoc of                 *)
(* AsyncTaskPoolMonitor.cancelIdleMonitor reserves that right).            *)
(***************************************************************************)
EXTENDS Naturals

CONSTANTS MaxCallbacks,  \* bound: callbacks registered
          MayCallLate    \* TRUE: a cancelled callback may still run

None == 0

VARIABLES last,        \* callbacks registered so far
          registered,  \* the registered callback, or None
          calls        \* how often each callback has run

vars == <<last, registered, calls>>

Init ==
  /\ last = 0
  /\ registered = None
  /\ calls = [n \in 1 .. MaxCallbacks |-> 0]

Run(n) == calls[n] = 0 /\ calls' = [calls EXCEPT ![n] = 1]

\* registerNotificationCallback: the source may find itself idle at once.
Register ==
  /\ registered = None
  /\ last < MaxCallbacks
  /\ last' = last + 1
  /\ \/ registered' = last' /\ UNCHANGED calls
     \/ registered' = None /\ Run(last')

Callback ==
  /\ registered # None
  /\ Run(registered)
  /\ registered' = None
  /\ UNCHANGED last

Cancel ==
  /\ registered # None
  /\ registered' = None
  /\ UNCHANGED <<last, calls>>

LateCallback ==
  /\ MayCallLate
  /\ \E n \in 1 .. last : n # registered /\ Run(n)
  /\ UNCHANGED <<last, registered>>

Next == Register \/ Callback \/ Cancel \/ LateCallback

Spec == Init /\ [][Next]_vars
=============================================================================
