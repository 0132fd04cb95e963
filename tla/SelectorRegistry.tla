-------------------------- MODULE SelectorRegistry --------------------------
(***************************************************************************)
(* What sel_registerName promises: a call asks for the selector of a name, *)
(* at one instant the selector is registered (if it is not yet) and the    *)
(* answer fixed, and the call returns.  Nothing is ever unregistered.      *)
(***************************************************************************)
CONSTANTS Thread, Name, Id, Hash, NoName, Compiled

VARIABLES
  registered,   (* the method ids that have a descriptor                   *)
  request,      (* the name each thread's call is about                    *)
  answered      (* the threads whose answer is fixed                       *)

rvars == <<registered, request, answered>>

Init ==
  /\ registered = {Hash[n] : n \in Compiled}
  /\ request = [t \in Thread |-> NoName]
  /\ answered = {}

Ask(t, n) ==
  /\ request[t] = NoName
  /\ request' = [request EXCEPT ![t] = n]
  /\ UNCHANGED <<registered, answered>>

Answer(t) ==
  /\ request[t] # NoName /\ t \notin answered
  /\ registered' = registered \cup {Hash[request[t]]}
  /\ answered' = answered \cup {t}
  /\ UNCHANGED request

Return(t) ==
  /\ t \in answered
  /\ answered' = answered \ {t}
  /\ request' = [request EXCEPT ![t] = NoName]
  /\ UNCHANGED registered

Next ==
  \E t \in Thread :
    \/ \E n \in Name : Ask(t, n)
    \/ Answer(t)
    \/ Return(t)

Spec == Init /\ [][Next]_rvars

FairSpec == Spec /\ \A t \in Thread : WF_rvars(Answer(t)) /\ WF_rvars(Return(t))
=============================================================================
