--------------------------- MODULE ReplicatedLog ---------------------------
(***************************************************************************)
(* What the agents promise together: they keep one log.  Each replica      *)
(* has its beginning, and goes on at the end; a reader is told the entries *)
(* of its replica from some entry on, one by one and without a gap.        *)
(* Module Paxos implements this when all clients ask the same agent.       *)
(***************************************************************************)
EXTENDS Naturals, Sequences

CONSTANTS
  Replica,  \* the agents
  Reader,   \* the clients
  Home      \* the replica a reader asks

VARIABLES
  stored,  \* the entries each replica has stored, with a field val
  told     \* the values each reader has been told

logVars == <<stored, told>>

LogInit == stored = [r \in Replica |-> <<>>] /\ told = [c \in Reader |-> <<>>]

\* A log goes on: one more entry, behind what there is.
Longer(before, after) ==
  Len(after) = Len(before) + 1 /\ \A i \in DOMAIN before : after[i] = before[i]

\* What a replica stores is the next of the one log, if another knows it already.
Store(r) ==
  /\ \A q \in Replica \ {r} : stored'[q] = stored[q]
  /\ Longer(stored[r], stored'[r])
  /\ \A q \in Replica : \A i \in DOMAIN stored[q] \cap DOMAIN stored'[r] :
       stored[q][i] = stored'[r][i]
  /\ UNCHANGED told

\* What a reader has been told is a piece of its replica's log.
Learn(c) ==
  /\ \A d \in Reader \ {c} : told'[d] = told[d]
  /\ Longer(told[c], told'[c])
  /\ \E skipped \in 0..Len(stored[Home[c]]) : \A i \in DOMAIN told'[c] :
       /\ skipped + i \in DOMAIN stored[Home[c]]
       /\ told'[c][i] = stored[Home[c]][skipped + i].val
  /\ UNCHANGED stored

LogNext == (\E r \in Replica : Store(r)) \/ (\E c \in Reader : Learn(c))

LogSpec == LogInit /\ [][LogNext]_logVars

=============================================================================
