------------------------------- MODULE Viewer -------------------------------
(***************************************************************************)
(* The reactions to a post as the pages that show it see them:             *)
(* ReactToPostHandler, its broadcast, and useReaction, which shows a click *)
(* at once, takes the answer for it, takes every broadcast of the others'  *)
(* reactions, and goes back to what it showed when a click fails.          *)
(***************************************************************************)
EXTENDS Integers, FiniteSets, Sequences

CONSTANTS Users,      \* each with a page that shows the post
          Requests,   \* bound: the requests of all users
          MaxFaults   \* bound: failed requests and lost broadcasts

ASSUME ViewerAssumption == IsFiniteSet(Users) /\ MaxFaults \in Nat

VARIABLES row,     \* user_post_reaction: each user's reaction to the post
          page,    \* useReaction in each user's page
          req,     \* the requests on their way through the handler
          inbox,   \* broadcasts on the way to each page
          writes,  \* history: how often row has been written
          faults,  \* bound: how much has failed
          behind,  \* history: pages that lost a broadcast or put older
                   \* counts in the place of newer ones
          undone   \* history: pages that took back a click that may land

vars == <<row, page, req, inbox, writes, faults, behind, undone>>

Reaction == {"none", "liked", "disliked"}
Counts == [liked: Int, disliked: Int]

(* of is the number of writes that the counts are from. *)
Shown == [counts: Counts, of: Nat, mine: Reaction]

(* heard: the page still waits for the answer. *)
TypeOK ==
  /\ row \in [Users -> Reaction]
  /\ page \in [Users -> [shown: Shown, previous: Shown, pending: BOOLEAN]]
  /\ req \in [Requests ->
       [step: {"new", "over"}] \cup
       [step: {"asked", "wrote"}, by: Users, want: Reaction, heard: BOOLEAN] \cup
       [step: {"read", "sent"}, by: Users, got: Shown, heard: BOOLEAN]]
  /\ inbox \in [Users -> Seq([counts: Counts, of: Nat])]
  /\ writes \in Nat
  /\ faults \in 0 .. MaxFaults
  /\ behind \subseteq Users
  /\ undone \subseteq Users

CountsOf(r) ==
  [liked |-> Cardinality({u \in Users : r[u] = "liked"}),
   disliked |-> Cardinality({u \in Users : r[u] = "disliked"})]

(* attachReactionData: two queries; only the user's own requests change    *)
(* what the second one reads.                                              *)
Current(u) == [counts |-> CountsOf(row), of |-> writes, mine |-> row[u]]

(* Pages that have just been loaded. *)
Init ==
  /\ row \in [Users -> Reaction]
  /\ writes = 0
  /\ page = [u \in Users |->
       [shown |-> Current(u), previous |-> Current(u), pending |-> FALSE]]
  /\ req = [i \in Requests |-> [step |-> "new"]]
  /\ inbox = [u \in Users |-> <<>>]
  /\ faults = 0
  /\ behind = {}
  /\ undone = {}

At(i, step) == req[i].step = step
Busy(i) == req[i].step \in {"asked", "wrote", "read", "sent"}
Over(i) == req' = [req EXCEPT ![i] = [step |-> "over"]]
Fault == faults < MaxFaults /\ faults' = faults + 1

(* The same reaction again takes it back, the other one replaces it. *)
Toggle(mine, want) == IF mine = want THEN "none" ELSE want

-----------------------------------------------------------------------------
(* useReaction                                                             *)

Add(counts, r, n) == IF r = "none" THEN counts ELSE [counts EXCEPT ![r] = @ + n]

ApplyOptimistic(s, want) ==
  [s EXCEPT !.mine = Toggle(@, want),
            !.counts = Add(Add(@, s.mine, -1), Toggle(s.mine, want), 1)]

(* setState; behind notes that older counts took the place of newer ones. *)
Show(u, s, pending) ==
  /\ page' = [page EXCEPT ![u].shown = s, ![u].pending = pending]
  /\ behind' = IF s.of < page[u].shown.of THEN behind \cup {u} ELSE behind

(* Faulty: the hook does not look at pending. *)
ReactAgain(i, u, want) ==
  /\ At(i, "new")
  /\ page' = [page EXCEPT ![u] =
       [shown |-> ApplyOptimistic(@.shown, want), previous |-> @.shown,
        pending |-> TRUE]]
  /\ req' = [req EXCEPT ![i] =
       [step |-> "asked", by |-> u, want |-> want, heard |-> TRUE]]
  /\ UNCHANGED <<row, inbox, writes, faults, behind, undone>>

(* react: a click shows at once. *)
React(i, u, want) == ~page[u].pending /\ ReactAgain(i, u, want)

(* Faulty: what the click showed is kept. *)
AnsweredByGuess(i) ==
  /\ At(i, "sent") /\ req[i].heard
  /\ page' = [page EXCEPT ![req[i].by].pending = FALSE]
  /\ Over(i)
  /\ UNCHANGED <<row, inbox, writes, faults, behind, undone>>

(* reactToPost resolves. *)
Answered(i) ==
  /\ At(i, "sent") /\ req[i].heard
  /\ Show(req[i].by, req[i].got, FALSE)
  /\ Over(i)
  /\ UNCHANGED <<row, inbox, writes, faults, undone>>

(* It rejects: the page goes back to what it showed. *)
RollBack(i) == Show(req[i].by, page[req[i].by].previous, FALSE)

(* The connection of the request breaks; the handler goes on, and its      *)
(* answer reaches nobody.  Such a request does not fail once more.         *)
Broken(i) ==
  /\ Busy(i) /\ req[i].heard /\ Fault
  /\ RollBack(i)
  /\ req' = [req EXCEPT ![i].heard = FALSE]
  /\ undone' = undone \cup {req[i].by}
  /\ UNCHANGED <<row, inbox, writes>>

(* The subscription: the counts of a broadcast, and never myReaction. *)
Receive(u) ==
  /\ inbox[u] # <<>>
  /\ LET e == Head(inbox[u]) IN
       Show(u, [page[u].shown EXCEPT !.counts = e.counts, !.of = e.of], page[u].pending)
  /\ inbox' = [inbox EXCEPT ![u] = Tail(@)]
  /\ UNCHANGED <<row, req, writes, faults, undone>>

-----------------------------------------------------------------------------
(* ReactToPostHandler                                                      *)

(* The row is deleted, updated or inserted; Posts has the steps of that. *)
Write(i) ==
  /\ At(i, "asked")
  /\ row' = [row EXCEPT ![req[i].by] = Toggle(@, req[i].want)]
  /\ writes' = writes + 1
  /\ req' = [req EXCEPT ![i].step = "wrote"]
  /\ UNCHANGED <<page, inbox, faults, behind, undone>>

ReadCounts(i) ==
  /\ At(i, "wrote")
  /\ req' = [req EXCEPT ![i] = [step |-> "read", by |-> @.by, heard |-> @.heard,
                               got |-> Current(@.by)]]
  /\ UNCHANGED <<row, page, inbox, writes, faults, behind, undone>>

(* broadcastPostReactionUpdate, to every user but the one who reacted. *)
Broadcast(i) ==
  /\ At(i, "read")
  /\ inbox' = [u \in Users |->
       IF u = req[i].by THEN inbox[u]
       ELSE Append(inbox[u], [counts |-> req[i].got.counts, of |-> req[i].got.of])]
  /\ req' = [req EXCEPT ![i].step = "sent"]
  /\ UNCHANGED <<row, page, writes, faults, behind, undone>>

(* The request never reaches the handler, or the handler answers 500       *)
(* before it has written the row.                                          *)
FailsBefore(i) ==
  /\ At(i, "asked") /\ req[i].heard /\ Fault
  /\ RollBack(i)
  /\ Over(i)
  /\ UNCHANGED <<row, inbox, writes, undone>>

(* The handler answers 500 after it has written the row: attachReactionData *)
(* fails, and nobody is told of the write.                                 *)
FailsAfter(i) ==
  /\ At(i, "wrote") /\ req[i].heard /\ Fault
  /\ page' = [page EXCEPT ![req[i].by].shown = page[req[i].by].previous,
                         ![req[i].by].pending = FALSE]
  /\ behind' = Users
  /\ undone' = undone \cup {req[i].by}
  /\ Over(i)
  /\ UNCHANGED <<row, inbox, writes>>

(* The answer to a broken connection. *)
Unheard(i) ==
  /\ At(i, "sent") /\ ~req[i].heard
  /\ Over(i)
  /\ UNCHANGED <<row, page, inbox, writes, faults, behind, undone>>

(* send gives up on a slow client, or a connection ends with the events    *)
(* that wait for it.                                                       *)
Lose(u) ==
  /\ inbox[u] # <<>> /\ Fault
  /\ inbox' = [inbox EXCEPT ![u] = Tail(@)]
  /\ behind' = behind \cup {u}
  /\ UNCHANGED <<row, page, req, writes, undone>>

-----------------------------------------------------------------------------
Next ==
  \/ \E i \in Requests, u \in Users, want \in Reaction \ {"none"} :
       React(i, u, want)
  \/ \E i \in Requests :
       \/ Answered(i) \/ Broken(i) \/ Unheard(i)
       \/ Write(i) \/ ReadCounts(i) \/ Broadcast(i)
       \/ FailsBefore(i) \/ FailsAfter(i)
  \/ \E u \in Users : Receive(u) \/ Lose(u)

Spec == Init /\ [][Next]_vars

-----------------------------------------------------------------------------
Quiet == (\A i \in Requests : ~Busy(i)) /\ (\A u \in Users : inbox[u] = <<>>)

(* A page that waits for no answer shows its own user's reaction as it is  *)
(* stored, unless it took a click back that may have landed: answers and   *)
(* broadcasts arrive in any order among each other.                        *)
MineIsMine ==
  \A u \in Users \ undone : ~page[u].pending => page[u].shown.mine = row[u]

(* When nothing is on its way any more, a page shows the stored counts,    *)
(* unless it missed a broadcast, took back a click, or put counts in the   *)
(* place of newer ones: the guesses of clicks and the broadcasts between   *)
(* them leave nothing behind.                                              *)
CountsSettle ==
  Quiet => \A u \in Users \ (behind \cup undone) : page[u].shown.counts = CountsOf(row)
=============================================================================
