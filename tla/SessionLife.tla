---------------------------- MODULE SessionLife ----------------------------
(***************************************************************************)
(* What the session manager promises of a session id.  It is opened once,  *)
(* for one account, belongs to no other account afterwards, and once ended *)
(* is never that of an account again.  Opening one ends every session of   *)
(* the account that is not already leaving, and one that leaves ends.      *)
(***************************************************************************)
CONSTANTS Users, SessionIDs, Unused, Ended

VARIABLES life,     \* the account of each session id, Unused or Ended
          leaving   \* the open sessions whose logout has begun

vars == <<life, leaving>>

LifeOK ==
  /\ life \in [SessionIDs -> Users \cup {Unused, Ended}]
  /\ leaving \subseteq {s \in SessionIDs : life[s] \in Users}

Init == life = [s \in SessionIDs |-> Unused] /\ leaving = {}

Open(s, u) ==
  /\ life[s] = Unused
  /\ life' = [t \in SessionIDs |->
                IF t = s THEN u
                ELSE IF life[t] = u /\ t \notin leaving THEN Ended
                ELSE life[t]]
  /\ UNCHANGED leaving

Leave(s) ==
  /\ life[s] \in Users
  /\ leaving' = leaving \cup {s}
  /\ UNCHANGED life

Close(S) ==
  /\ \A s \in S : life[s] \in Users
  /\ life' = [s \in SessionIDs |-> IF s \in S THEN Ended ELSE life[s]]
  /\ leaving' = leaving \ S

Next ==
  \/ \E s \in SessionIDs, u \in Users : Open(s, u)
  \/ \E s \in SessionIDs : Leave(s)
  \/ \E S \in SUBSET SessionIDs : Close(S)

Spec == Init /\ [][Next]_vars

=============================================================================
