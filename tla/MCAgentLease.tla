---------------------------- MODULE MCAgentLease -----------------------------
EXTENDS AgentLease, TLC

\* The expiry of a lease that is not live, and how an execution without a file
\* began, are set again before they are read.
LeaseView ==
    <<host, state, owner, pin, [l \in Leases |-> state[l] \in Live /\ fresh[l]], run, calls,
      listed, decided, pc, file, [h \in Hosts |-> file[h] # Nil /\ resumed[h]],
      crashes, restarts, actions>>
=============================================================================
