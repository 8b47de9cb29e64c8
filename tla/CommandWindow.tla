--------------------------- MODULE CommandWindow ---------------------------
(***************************************************************************)
(* What the server and the machine promise about commands, whoever moves   *)
(* when: commands are numbered as they are accepted; each one is committed *)
(* to the machine in that order, executed in that order and at most once;  *)
(* a command leaves otherwise only by being dropped before it is           *)
(* committed; and the machine never has more than two commands to do.      *)
(* A lossy link may also drop committed commands.                          *)
(***************************************************************************)
EXTENDS Naturals

CONSTANT Lossy    \* whether either end may restart and forget

VARIABLES
  accepted,   \* how many commands were accepted
  queued,     \* the numbers of those the server still holds
  committed,  \* of those written to the machine and not executed
  executed,   \* of those executed
  dropped     \* of those that never will be

wvars == <<accepted, queued, committed, executed, dropped>>

First(n, S) == n \in S /\ \A m \in S : n <= m

WInit ==
  /\ accepted = 0
  /\ queued = {} /\ committed = {} /\ executed = {} /\ dropped = {}

Accept ==
  /\ accepted' \in Nat /\ accepted' > accepted
  /\ queued' = queued \cup (accepted + 1 .. accepted')
  /\ UNCHANGED <<committed, executed, dropped>>

Commit ==
  /\ Lossy \/ \A m, n \in committed : m = n
  /\ \E n \in queued :
       /\ First(n, queued)
       /\ queued' = queued \ {n}
       /\ committed' = committed \cup {n}
  /\ UNCHANGED <<accepted, executed, dropped>>

Discard ==
  /\ \E n \in queued :
       /\ First(n, queued)
       /\ queued' = queued \ {n}
       /\ dropped' = dropped \cup {n}
  /\ UNCHANGED <<accepted, committed, executed>>

Execute ==
  /\ \E n \in committed :
       /\ First(n, committed)
       /\ committed' = committed \ {n}
       /\ executed' = executed \cup {n}
  /\ UNCHANGED <<accepted, queued, dropped>>

\* A restart forgets part of what its end holds.
Forget ==
  /\ Lossy
  /\ queued' \subseteq queued /\ committed' \subseteq committed
  /\ dropped' = dropped \cup (queued \ queued') \cup (committed \ committed')
  /\ UNCHANGED <<accepted, executed>>

WNext == Accept \/ Commit \/ Discard \/ Execute \/ Forget

WSpec == WInit /\ [][WNext]_wvars
=============================================================================
