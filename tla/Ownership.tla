------------------------------ MODULE Ownership ------------------------------
(***************************************************************************)
(* What the claiming process promises about the possession of blocks,      *)
(* without tables, deadlines, packets or a network: a daemon comes to own  *)
(* a block only at the end of a claim it has announced three times, in     *)
(* three rounds of house keeping, without having been told off before the  *)
(* third.  Possession and claims may be lost at any time.                  *)
(***************************************************************************)
EXTENDS Integers

CONSTANTS Nodes, Blocks

VARIABLES
  owned,      \* the blocks each daemon owns
  announced,  \* how often each daemon has announced its claim to each block
  live        \* the claims of each daemon that nobody has contested

vars == <<owned, announced, live>>

Idle == -1
Announcements == 3

NoClaims == [b \in Blocks |-> Idle]

Init ==
  /\ owned = [n \in Nodes |-> {}]
  /\ announced = [n \in Nodes |-> NoClaims]
  /\ live = [n \in Nodes |-> {}]

\* A claim in a round of house keeping: it is over, it is begun (again), or
\* it goes on, and then it was never contested.  The announcement may fail.
ClaimInRound(n, b, sent) ==
  \/ /\ announced'[n][b] = Idle
     /\ b \notin live'[n]
  \/ /\ announced[n][b] # Announcements
     /\ announced'[n][b] = sent
     /\ b \in live'[n]
  \/ /\ announced[n][b] \in 0 .. Announcements - 1
     /\ b \in live[n] \cap live'[n]
     /\ announced'[n][b] = announced[n][b] + sent

OthersUnmoved(n) ==
  \A m \in Nodes \ {n} : /\ owned'[m] = owned[m]
                         /\ announced'[m] = announced[m]
                         /\ live'[m] = live[m]

\* Claims announced often enough become possession, and nothing else does.
ClaimRound(n) ==
  LET done == {b \in Blocks : announced[n][b] = Announcements}
  IN /\ done \subseteq owned'[n]
     /\ owned'[n] \subseteq owned[n] \cup done
     /\ \E sent \in {0, 1} : \A b \in Blocks : ClaimInRound(n, b, sent)
     /\ OthersUnmoved(n)

\* Blocks are given up, time out or are taken; claims are contested.
Lose ==
  /\ \A n \in Nodes : owned'[n] \subseteq owned[n] /\ live'[n] \subseteq live[n]
  /\ announced' = announced

\* A daemon that stops forgets everything.
Forget(n) ==
  /\ owned'[n] = {}
  /\ announced'[n] = NoClaims
  /\ live'[n] = {}
  /\ OthersUnmoved(n)

Next ==
  \/ \E n \in Nodes : ClaimRound(n) \/ Forget(n)
  \/ Lose

Spec == Init /\ [][Next]_vars
=============================================================================
