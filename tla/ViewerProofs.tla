---------------------------- MODULE ViewerProofs ----------------------------
(* Theorems about Viewer, for any number of users, clicks and failures. *)
EXTENDS Viewer, TLAPS, FiniteSetTheorems, SequenceTheorems

(* A request that is heard is the one its page waits for, and one that is  *)
(* not is of a page that took its click back.                              *)
OneHeard ==
  \A i \in Requests : Busy(i) =>
    /\ req[i].heard => page[req[i].by].pending
    /\ ~req[i].heard => req[i].by \in undone
    /\ \A j \in Requests \ {i} :
         Busy(j) /\ req[j].by = req[i].by =>
           req[i].by \in undone /\ ~(req[i].heard /\ req[j].heard)

(* What a request holds is the row: to go back to before it is written, to *)
(* show afterwards.                                                        *)
HoldsRow ==
  \A i \in Requests : Busy(i) /\ req[i].by \notin undone =>
    /\ At(i, "asked") => page[req[i].by].previous.mine = row[req[i].by]
    /\ req[i].step \in {"read", "sent"} => req[i].got.mine = row[req[i].by]

IInv == TypeOK /\ OneHeard /\ HoldsRow /\ MineIsMine

Page == [shown: Shown, previous: Shown, pending: BOOLEAN]
Asking == [step: {"asked", "wrote"}, by: Users, want: Reaction, heard: BOOLEAN]
Answer == [step: {"read", "sent"}, by: Users, got: Shown, heard: BOOLEAN]
Req == [step: {"new", "over"}] \cup Asking \cup Answer

-----------------------------------------------------------------------------
(* Types. *)

LEMMA CountsType == ASSUME NEW r PROVE CountsOf(r) \in Counts
<1> DEFINE Who(v) == {u \in Users : r[u] = v}
<1>1. \A v : Cardinality(Who(v)) \in Int
  BY ViewerAssumption, FS_Subset, FS_CardinalityType
<1> QED  BY <1>1 DEF CountsOf, Counts

LEMMA CurrentType == ASSUME TypeOK, NEW u \in Users PROVE Current(u) \in Shown
BY CountsType DEF Current, Shown, TypeOK

(* A request that is on its way is one of two records. *)
LEMMA RequestType ==
  ASSUME TypeOK, NEW i \in Requests
  PROVE  /\ req[i] \in Req
         /\ req[i].step \in {"asked", "wrote"} => req[i] \in Asking
         /\ req[i].step \in {"read", "sent"} => req[i] \in Answer
         /\ Busy(i) => req[i].by \in Users /\ req[i].heard \in BOOLEAN
BY DEF TypeOK, Req, Asking, Answer, Busy

LEMMA FaultType == ASSUME TypeOK, Fault \/ UNCHANGED faults PROVE faults' \in 0 .. MaxFaults
<1>1. faults \in 0 .. MaxFaults
  BY DEF TypeOK
<1> QED  BY <1>1, ViewerAssumption DEF Fault

(* A guess is a reaction and two counts. *)
LEMMA GuessType ==
  ASSUME NEW s \in Shown, NEW want \in Reaction \ {"none"}
  PROVE  ApplyOptimistic(s, want) \in Shown
<1>1. \A c \in Counts, r \in Reaction, n \in Int : Add(c, r, n) \in Counts
  BY DEF Add, Counts, Reaction
<1>2. Toggle(s.mine, want) \in Reaction
  BY DEF Toggle, Reaction
<1>3. s.counts \in Counts /\ s.mine \in Reaction
  BY DEF Shown
<1>4. Add(Add(s.counts, s.mine, -1), Toggle(s.mine, want), 1) \in Counts
  BY <1>1, <1>2, <1>3
<1> QED  BY <1>2, <1>4 DEF ApplyOptimistic, Shown

(* setState changes what one page shows, and whether it waits. *)
LEMMA ShowType ==
  ASSUME TypeOK, NEW u \in Users, NEW s \in Shown, NEW p \in BOOLEAN,
         page' = [page EXCEPT ![u].shown = s, ![u].pending = p]
  PROVE  /\ page' \in [Users -> Page]
         /\ page'[u] = [shown |-> s, previous |-> page[u].previous, pending |-> p]
         /\ \A v \in Users \ {u} : page'[v] = page[v]
<1>1. page \in [Users -> Page]
  BY DEF TypeOK, Page
<1>2. page'[u] = [shown |-> s, previous |-> page[u].previous, pending |-> p]
  BY <1>1 DEF Page
<1>3. \A v \in Users \ {u} : page'[v] = page[v]
  BY <1>1
<1>4. page'[u] \in Page
  BY <1>1, <1>2 DEF Page
<1>5. page' \in [Users -> Page]
  BY <1>1, <1>3, <1>4
<1> QED  BY <1>2, <1>3, <1>5

-----------------------------------------------------------------------------
(* What the page does. *)

LEMMA InitHolds == Init => IInv
<1> SUFFICES ASSUME Init PROVE IInv
  OBVIOUS
<1>1. \A u \in Users : [counts |-> CountsOf(row), of |-> writes, mine |-> row[u]] \in Shown
  BY CountsType DEF Init, Shown
<1>2. page \in [Users -> Page]
  BY <1>1 DEF Init, Current, Page
<1>3. TypeOK
  BY <1>2, ViewerAssumption DEF Init, TypeOK, Page
<1>4. \A i \in Requests : ~Busy(i)
  BY DEF Init, Busy
<1>5. MineIsMine
  BY DEF Init, MineIsMine, Current
<1> QED  BY <1>3, <1>4, <1>5 DEF IInv, OneHeard, HoldsRow

LEMMA ReactKeeps ==
  ASSUME IInv, NEW i \in Requests, NEW u \in Users, NEW want \in Reaction \ {"none"},
         React(i, u, want)
  PROVE  IInv'
<1> DEFINE q == [step |-> "asked", by |-> u, want |-> want, heard |-> TRUE]
           g == ApplyOptimistic(page[u].shown, want)
<1>1. TypeOK
  BY DEF IInv
<1>2. /\ At(i, "new") /\ ~page[u].pending
      /\ page' = [page EXCEPT ![u] = [shown |-> g, previous |-> @.shown, pending |-> TRUE]]
      /\ req' = [req EXCEPT ![i] = q]
      /\ UNCHANGED <<row, inbox, writes, faults, behind, undone>>
  BY DEF React, ReactAgain
<1>3. q \in Asking /\ req \in [Requests -> Req] /\ page \in [Users -> Page]
  BY <1>1 DEF Asking, TypeOK, Req, Answer, Page
<1>4. /\ req' \in [Requests -> Req] /\ req'[i] = q
      /\ \A j \in Requests \ {i} : req'[j] = req[j]
  BY <1>2, <1>3 DEF Req
<1>5. g \in Shown /\ page[u].shown \in Shown
  BY <1>1, GuessType DEF TypeOK
<1>6. /\ page'[u] = [shown |-> g, previous |-> page[u].shown, pending |-> TRUE]
      /\ \A v \in Users \ {u} : page'[v] = page[v]
  BY <1>2, <1>3
<1>7. page'[u] \in Page
  BY <1>5, <1>6 DEF Page
<1>8. page' \in [Users -> Page]
  BY <1>2, <1>3, <1>6, <1>7
<1>9. TypeOK'
  BY <1>1, <1>2, <1>4, <1>8 DEF TypeOK, Req, Asking, Answer, Page
<1>10. \A j \in Requests : Busy(j) /\ req[j].by = u => u \in undone /\ ~req[j].heard
  BY <1>2 DEF IInv, OneHeard
<1>11. \A j \in Requests \ {i} : Busy(j)' <=> Busy(j)
  BY <1>4 DEF Busy
<1>12. OneHeard'
  BY <1>1, <1>2, <1>4, <1>6, <1>10, <1>11, RequestType DEF IInv, OneHeard
<1>13. u \notin undone => page'[u].previous.mine = row[u]
  BY <1>2, <1>6 DEF IInv, MineIsMine
<1>14. HoldsRow'
  <2> SUFFICES ASSUME NEW j \in Requests, Busy(j)', req'[j].by \notin undone'
               PROVE  /\ At(j, "asked")' => page'[req'[j].by].previous.mine = row'[req'[j].by]
                      /\ req'[j].step \in {"read", "sent"} => req'[j].got.mine = row'[req'[j].by]
    BY DEF HoldsRow
  <2>1. CASE j = i
    BY <2>1, <1>2, <1>4, <1>13 DEF At
  <2>2. CASE j # i
    <3>1. Busy(j) /\ req'[j] = req[j] /\ req[j].by \notin undone /\ req[j].by \in Users
      BY <2>2, <1>1, <1>2, <1>4, <1>11, RequestType
    <3>2. req[j].by # u
      BY <3>1, <1>10
    <3> QED  BY <3>1, <3>2, <1>2, <1>6 DEF IInv, HoldsRow, At
  <2> QED  BY <2>1, <2>2
<1>15. MineIsMine'
  BY <1>2, <1>6 DEF IInv, MineIsMine
<1> QED  BY <1>9, <1>12, <1>14, <1>15 DEF IInv

(* The page of a request that is over takes s and waits no more.  It shows *)
(* the row, or is known to have taken back a click.                        *)
LEMMA SettleKeeps ==
  ASSUME IInv, NEW i \in Requests, Busy(i), req[i].heard, NEW s \in Shown,
         page' = [page EXCEPT ![req[i].by].shown = s, ![req[i].by].pending = FALSE],
         behind' \subseteq Users,
         UNCHANGED <<row, inbox, writes>>, faults' \in 0 .. MaxFaults,
         undone' \in {undone, undone \cup {req[i].by}},
         \/ Over(i)
         \/ req' = [req EXCEPT ![i].heard = FALSE] /\ req[i].by \in undone',
         req[i].by \notin undone' => s.mine = row[req[i].by]
  PROVE  IInv'
<1> DEFINE u == req[i].by
<1>1. TypeOK /\ u \in Users
  BY RequestType DEF IInv
<1>2. /\ page' \in [Users -> Page]
      /\ page'[u] = [shown |-> s, previous |-> page[u].previous, pending |-> FALSE]
      /\ \A v \in Users \ {u} : page'[v] = page[v]
  BY <1>1, ShowType
<1>3. req \in [Requests -> Req] /\ req[i] \in Asking \cup Answer
  BY <1>1, RequestType DEF TypeOK, Req, Asking, Answer, Busy
<1>4. /\ \A j \in Requests \ {i} : req'[j] = req[j]
      /\ \/ req'[i] = [step |-> "over"]
         \/ /\ req'[i] = [req[i] EXCEPT !.heard = FALSE]
            /\ u \in undone'
  BY <1>3 DEF Over
<1>5. req'[i] \in Req /\ req' \in [Requests -> Req]
  <2>1. [req[i] EXCEPT !.heard = FALSE] \in Req
    BY <1>3 DEF Asking, Answer, Req
  <2>2. req'[i] \in Req
    BY <1>4, <2>1 DEF Req
  <2> QED  BY <1>3, <1>4, <2>2 DEF Over
<1>6. TypeOK'
  BY <1>1, <1>2, <1>5 DEF TypeOK, Req, Asking, Answer, Page
<1>7. Busy(i)' => u \in undone' /\ req'[i].by = u /\ ~req'[i].heard
  BY <1>3, <1>4 DEF Busy, Asking, Answer
<1>8. \A j \in Requests \ {i} : Busy(j)' =>
        /\ Busy(j) /\ req'[j] = req[j]
        /\ req[j].by = u => u \in undone
  BY <1>4 DEF Busy, IInv, OneHeard
<1>9. \A j \in Requests \ {i} : Busy(j)' /\ req[j].heard => req[j].by # u
  BY <1>8 DEF Busy, IInv, OneHeard
<1>10. OneHeard'
  <2> SUFFICES ASSUME NEW j \in Requests, Busy(j)'
               PROVE  /\ req'[j].heard => page'[req'[j].by].pending
                      /\ ~req'[j].heard => req'[j].by \in undone'
                      /\ \A k \in Requests \ {j} :
                           Busy(k)' /\ req'[k].by = req'[j].by =>
                             req'[j].by \in undone' /\ ~(req'[j].heard /\ req'[k].heard)
    BY DEF OneHeard
  <2>1. CASE j = i
    BY <2>1, <1>7
  <2>2. CASE j # i
    <3>1. Busy(j) /\ req'[j] = req[j] /\ req[j].by \in Users
      BY <2>2, <1>1, <1>8, RequestType
    <3>2. req[j].heard => page'[req[j].by].pending
      BY <2>2, <3>1, <1>2, <1>9 DEF IInv, OneHeard
    <3>3. \A k \in Requests \ {j} :
            Busy(k)' /\ req'[k].by = req'[j].by =>
              req'[j].by \in undone' /\ ~(req'[j].heard /\ req'[k].heard)
      BY <2>2, <3>1, <1>7, <1>8 DEF IInv, OneHeard
    <3> QED  BY <3>1, <3>2, <3>3 DEF IInv, OneHeard
  <2> QED  BY <2>1, <2>2
<1>11. HoldsRow'
  <2> SUFFICES ASSUME NEW j \in Requests, Busy(j)', req'[j].by \notin undone'
               PROVE  /\ At(j, "asked")' => page'[req'[j].by].previous.mine = row'[req'[j].by]
                      /\ req'[j].step \in {"read", "sent"} => req'[j].got.mine = row'[req'[j].by]
    BY DEF HoldsRow
  <2>1. j # i /\ Busy(j) /\ req'[j] = req[j] /\ req[j].by # u /\ req[j].by \notin undone
    BY <1>7, <1>8
  <2>2. req[j].by \in Users
    BY <2>1, <1>1, RequestType
  <2> QED  BY <2>1, <2>2, <1>2 DEF IInv, HoldsRow, At
<1>12. MineIsMine'
  BY <1>2, <1>1 DEF IInv, MineIsMine
<1> QED  BY <1>6, <1>10, <1>11, <1>12 DEF IInv

LEMMA PageKeeps ==
  ASSUME IInv, NEW i \in Requests,
         Answered(i) \/ Broken(i) \/ FailsBefore(i) \/ FailsAfter(i)
  PROVE  IInv'
<1> DEFINE u == req[i].by
<1>1. TypeOK
  BY DEF IInv
<1>2. Busy(i) /\ req[i].heard
  BY DEF Answered, Broken, FailsBefore, FailsAfter, At, Busy
<1>3. u \in Users /\ page[u].previous \in Shown
  <2>1. u \in Users
    BY <1>1, <1>2, RequestType
  <2> QED  BY <1>1, <2>1 DEF TypeOK
<1>4. \A s : Show(u, s, FALSE) => behind' \subseteq Users
  BY <1>1, <1>3 DEF Show, TypeOK
<1>5. faults' \in 0 .. MaxFaults
  BY <1>1, FaultType DEF Answered, Broken, FailsBefore, FailsAfter
<1>6. CASE Answered(i)
  <2>1. req[i].got \in Shown
    BY <1>6, <1>1, RequestType DEF Answered, At, Answer
  <2>2. u \notin undone => req[i].got.mine = row[u]
    BY <1>2, <1>6 DEF Answered, At, IInv, HoldsRow
  <2> QED  BY <1>2, <1>4, <1>5, <1>6, <2>1, <2>2, SettleKeeps DEF Answered, Show
<1>7. CASE Broken(i)
  BY <1>2, <1>3, <1>4, <1>5, <1>7, SettleKeeps DEF Broken, RollBack, Show
<1>8. CASE FailsBefore(i)
  <2>1. u \notin undone => page[u].previous.mine = row[u]
    BY <1>2, <1>8 DEF FailsBefore, IInv, HoldsRow
  <2> QED  BY <1>2, <1>3, <1>4, <1>5, <1>8, <2>1, SettleKeeps DEF FailsBefore, RollBack, Show
<1>9. CASE FailsAfter(i)
  BY <1>2, <1>3, <1>5, <1>9, SettleKeeps DEF FailsAfter
<1> QED  BY <1>6, <1>7, <1>8, <1>9

(* A broadcast changes the counts a page shows, and no more. *)
LEMMA ReceiveKeeps ==
  ASSUME IInv, NEW u \in Users, Receive(u)
  PROVE  IInv'
<1> DEFINE e == Head(inbox[u])
           s == [page[u].shown EXCEPT !.counts = e.counts, !.of = e.of]
<1>1. TypeOK
  BY DEF IInv
<1>2. /\ inbox[u] # <<>>
      /\ Show(u, s, page[u].pending)
      /\ inbox' = [inbox EXCEPT ![u] = Tail(@)]
      /\ UNCHANGED <<row, req, writes, faults, undone>>
  BY DEF Receive
<1>3. inbox \in [Users -> Seq([counts: Counts, of: Nat])] /\ page \in [Users -> Page]
  BY <1>1 DEF TypeOK, Page
<1>4. e \in [counts: Counts, of: Nat] /\ Tail(inbox[u]) \in Seq([counts: Counts, of: Nat])
  BY <1>2, <1>3, HeadTailProperties
<1>5. s \in Shown /\ s.mine = page[u].shown.mine /\ page[u].pending \in BOOLEAN
  BY <1>3, <1>4 DEF Page, Shown
<1>6. /\ page' \in [Users -> Page]
      /\ page'[u] = [shown |-> s, previous |-> page[u].previous, pending |-> page[u].pending]
      /\ \A v \in Users \ {u} : page'[v] = page[v]
  BY <1>1, <1>2, <1>5, ShowType DEF Show
<1>7. inbox' \in [Users -> Seq([counts: Counts, of: Nat])]
  BY <1>2, <1>3, <1>4
<1>8. behind' \subseteq Users
  BY <1>1, <1>2 DEF Show, TypeOK
<1>9. TypeOK'
  BY <1>1, <1>2, <1>6, <1>7, <1>8 DEF TypeOK, Page
<1>10. \A v \in Users : /\ page'[v].pending = page[v].pending
                        /\ page'[v].previous = page[v].previous
                        /\ page'[v].shown.mine = page[v].shown.mine
  <2>1. /\ page'[u].pending = page[u].pending
        /\ page'[u].previous = page[u].previous
        /\ page'[u].shown.mine = page[u].shown.mine
    <3> HIDE DEF s
    <3> QED  BY <1>5, <1>6
  <2> QED  BY <1>6, <2>1
<1>11. OneHeard' /\ HoldsRow'
  <2>1. \A j \in Requests : (Busy(j)' <=> Busy(j)) /\ (Busy(j) => req[j].by \in Users)
    BY <1>1, <1>2, RequestType DEF Busy
  <2>2. OneHeard'
    BY <1>2, <1>10, <2>1 DEF IInv, OneHeard
  <2>3. HoldsRow'
    BY <1>2, <1>10, <2>1 DEF IInv, HoldsRow, At
  <2> QED  BY <2>2, <2>3
<1>12. MineIsMine'
  BY <1>2, <1>10 DEF IInv, MineIsMine
<1> QED  BY <1>9, <1>11, <1>12 DEF IInv

LEMMA LoseKeeps ==
  ASSUME IInv, NEW u \in Users, Lose(u)
  PROVE  IInv'
<1>1. TypeOK
  BY DEF IInv
<1>2. inbox' \in [Users -> Seq([counts: Counts, of: Nat])]
  <2>1. inbox[u] \in Seq([counts: Counts, of: Nat]) /\ inbox[u] # <<>>
    BY <1>1 DEF TypeOK, Lose
  <2>2. Tail(inbox[u]) \in Seq([counts: Counts, of: Nat])
    BY <2>1, HeadTailProperties
  <2> QED  BY <1>1, <2>2 DEF TypeOK, Lose
<1>3. TypeOK'
  BY <1>1, <1>2, FaultType DEF TypeOK, Lose
<1>4. UNCHANGED <<row, page, req, undone>>
  BY DEF Lose
<1>5. OneHeard' /\ HoldsRow' /\ MineIsMine'
  BY <1>4 DEF IInv, OneHeard, HoldsRow, MineIsMine, Busy, At
<1> QED  BY <1>3, <1>5 DEF IInv

-----------------------------------------------------------------------------
(* What the handler does. *)

(* A request goes on: it stays its user's and as heard as it was, and what *)
(* it holds is what the row holds.                                         *)
LEMMA GoesOn ==
  ASSUME IInv, NEW i \in Requests, Busy(i), NEW q \in Asking \cup Answer,
         q.by = req[i].by, q.heard = req[i].heard,
         req' = [req EXCEPT ![i] = q],
         q.step # "asked",
         q.step \in {"read", "sent"} /\ q.by \notin undone => q.got.mine = row'[q.by],
         \A v \in Users \ {q.by} : row'[v] = row[v],
         row'[q.by] # row[q.by] => q.step = "wrote",
         row' \in [Users -> Reaction], writes' \in Nat,
         inbox' \in [Users -> Seq([counts: Counts, of: Nat])],
         UNCHANGED <<page, faults, behind, undone>>
  PROVE  IInv'
<1> DEFINE u == req[i].by
<1>1. TypeOK /\ u \in Users
  BY RequestType DEF IInv
<1>2. /\ req' \in [Requests -> Req] /\ req'[i] = q
      /\ \A j \in Requests \ {i} : req'[j] = req[j]
  BY <1>1 DEF TypeOK, Req, Asking, Answer
<1>3. TypeOK'
  BY <1>1, <1>2 DEF TypeOK, Req, Asking, Answer
<1>4. \A j \in Requests : Busy(j)' => Busy(j)
  BY <1>2 DEF Busy
<1>5. \A j \in Requests : Busy(j)' => req'[j].by = req[j].by /\ req'[j].heard = req[j].heard
  BY <1>2
<1>6. OneHeard'
  BY <1>4, <1>5 DEF IInv, OneHeard
<1>7. \A j \in Requests \ {i} : Busy(j) /\ req[j].by = u => u \in undone
  BY DEF IInv, OneHeard
<1>8. HoldsRow'
  <2> SUFFICES ASSUME NEW j \in Requests, Busy(j)', req'[j].by \notin undone'
               PROVE  /\ At(j, "asked")' => page'[req'[j].by].previous.mine = row'[req'[j].by]
                      /\ req'[j].step \in {"read", "sent"} => req'[j].got.mine = row'[req'[j].by]
    BY DEF HoldsRow
  <2>1. CASE j = i
    BY <2>1, <1>2 DEF At
  <2>2. CASE j # i
    <3>1. Busy(j) /\ req'[j] = req[j] /\ req[j].by \notin undone /\ req[j].by \in Users
      BY <2>2, <1>1, <1>2, <1>4, RequestType
    <3>2. row'[req[j].by] = row[req[j].by]
      BY <2>2, <3>1, <1>7
    <3> QED  BY <3>1, <3>2 DEF IInv, HoldsRow, At
  <2> QED  BY <2>1, <2>2
<1>9. u \notin undone => page[u].pending
  BY DEF IInv, OneHeard
<1>10. MineIsMine'
  BY <1>1, <1>9 DEF IInv, MineIsMine
<1> QED  BY <1>3, <1>6, <1>8, <1>10 DEF IInv

LEMMA HandlerKeeps ==
  ASSUME IInv, NEW i \in Requests,
         Write(i) \/ ReadCounts(i) \/ Broadcast(i) \/ Unheard(i)
  PROVE  IInv'
<1>1. TypeOK /\ Busy(i) /\ req[i].by \in Users
  BY RequestType DEF IInv, Write, ReadCounts, Broadcast, Unheard, At, Busy
<1>2. row \in [Users -> Reaction] /\ writes \in Nat
      /\ inbox \in [Users -> Seq([counts: Counts, of: Nat])]
  BY <1>1 DEF TypeOK
<1>3. CASE Write(i)
  <2> DEFINE q == [req[i] EXCEPT !.step = "wrote"]
  <2>1. req[i] \in Asking
    BY <1>1, <1>3, RequestType DEF Write, At
  <2>2. q \in Asking /\ q.by = req[i].by /\ q.heard = req[i].heard /\ q.step = "wrote"
    BY <2>1 DEF Asking
  <2>3. Toggle(row[req[i].by], req[i].want) \in Reaction
    BY <1>1, <1>2, <2>1 DEF Toggle, Asking, Reaction
  <2>4. row' \in [Users -> Reaction] /\ \A v \in Users \ {req[i].by} : row'[v] = row[v]
    BY <1>2, <1>3, <2>3 DEF Write
  <2>5. req' = [req EXCEPT ![i] = q] /\ writes' \in Nat
    BY <1>2, <1>3 DEF Write
  <2> QED  BY <1>1, <1>2, <1>3, <2>2, <2>4, <2>5, GoesOn DEF Write
<1>4. CASE ReadCounts(i)
  <2> DEFINE q == [step |-> "read", by |-> req[i].by, heard |-> req[i].heard,
                   got |-> Current(req[i].by)]
  <2>1. q \in Answer
    BY <1>1, CurrentType, RequestType DEF Answer
  <2>2. req' = [req EXCEPT ![i] = q]
    BY <1>4 DEF ReadCounts
  <2>3. q.got.mine = row[q.by]
    BY DEF Current
  <2> QED  BY <1>1, <1>2, <1>4, <2>1, <2>2, <2>3, GoesOn DEF ReadCounts
<1>5. CASE Broadcast(i)
  <2> DEFINE q == [req[i] EXCEPT !.step = "sent"]
             e == [counts |-> req[i].got.counts, of |-> req[i].got.of]
  <2>1. req[i] \in Answer /\ req[i].step = "read"
    BY <1>1, <1>5, RequestType DEF Broadcast, At
  <2>2. q \in Answer /\ q.by = req[i].by /\ q.heard = req[i].heard /\ q.step = "sent"
        /\ q.got = req[i].got
    BY <2>1 DEF Answer
  <2>3. e \in [counts: Counts, of: Nat]
    BY <2>1 DEF Answer, Shown
  <2>4. inbox' \in [Users -> Seq([counts: Counts, of: Nat])]
    <3>1. \A u \in Users : Append(inbox[u], e) \in Seq([counts: Counts, of: Nat])
      BY <1>2, <2>3, AppendProperties
    <3>2. inbox' = [u \in Users |-> IF u = req[i].by THEN inbox[u] ELSE Append(inbox[u], e)]
      BY <1>5 DEF Broadcast
    <3> QED  BY <1>2, <3>1, <3>2
  <2>5. q.by \notin undone => q.got.mine = row[q.by]
    BY <1>1, <2>1, <2>2 DEF IInv, HoldsRow
  <2> QED  BY <1>1, <1>2, <1>5, <2>2, <2>4, <2>5, GoesOn DEF Broadcast
<1>6. CASE Unheard(i)
  <2>1. /\ \A j \in Requests \ {i} : req'[j] = req[j]
        /\ req'[i] = [step |-> "over"]
        /\ UNCHANGED <<row, page, inbox, writes, faults, behind, undone>>
    BY <1>1, <1>6 DEF Unheard, Over, TypeOK
  <2>2. TypeOK'
    BY <1>1, <1>6, <2>1 DEF TypeOK, Unheard, Over
  <2>3. \A j \in Requests : Busy(j)' => Busy(j) /\ req'[j] = req[j]
    BY <2>1 DEF Busy
  <2>4. OneHeard'
    BY <2>1, <2>3 DEF IInv, OneHeard
  <2>5. HoldsRow'
    BY <2>1, <2>3 DEF IInv, HoldsRow, At
  <2> QED  BY <2>1, <2>2, <2>4, <2>5 DEF IInv, MineIsMine
<1> QED  BY <1>3, <1>4, <1>5, <1>6

-----------------------------------------------------------------------------
LEMMA NextKeeps == ASSUME IInv, [Next]_vars PROVE IInv'
<1>1. CASE UNCHANGED vars
  BY <1>1 DEF vars, IInv, TypeOK, OneHeard, HoldsRow, MineIsMine, Busy, At
<1>2. CASE Next
  BY <1>2, ReactKeeps, PageKeeps, HandlerKeeps, ReceiveKeeps, LoseKeeps DEF Next
<1> QED  BY <1>1, <1>2

(* Every reachable state of the table, the pages, the requests and the     *)
(* broadcasts is well-typed.                                               *)
THEOREM TypeCorrect == Spec => []TypeOK
<1>1. IInv => TypeOK
  BY DEF IInv
<1> QED  BY <1>1, InitHolds, NextKeeps, PTL DEF Spec

(* useReaction.ts:46-51: whatever broadcasts, answers and failures arrive, *)
(* in any order, for any number of users and clicks, a page that waits for *)
(* no answer shows its own user's reaction as it is stored, unless it took *)
(* back a click that may have landed.                                      *)
THEOREM MineStaysMine == Spec => []MineIsMine
<1>1. IInv => MineIsMine
  BY DEF IInv
<1> QED  BY <1>1, InitHolds, NextKeeps, PTL DEF Spec

-----------------------------------------------------------------------------
(* That the counts settle.                                                 *)

Carried(s) == {s[n] : n \in 1 .. Len(s)}

(* Counts are from a write that has been, and right if from the last. *)
Honest(s) == s.of <= writes /\ (s.of = writes => s.counts = CountsOf(row))

HonestPage(u) ==
  /\ page[u].shown.of <= writes
  /\ ~page[u].pending => Honest(page[u].shown)
  /\ Honest(page[u].previous)
HonestRequest(i) == req[i].step \in {"read", "sent"} => Honest(req[i].got)

(* Whatever is shown, but for guesses, and whatever is on its way. *)
Truthful ==
  /\ \A u \in Users : HonestPage(u)
  /\ \A u \in Users : \A e \in Carried(inbox[u]) : Honest(e)
  /\ \A i \in Requests : HonestRequest(i)

(* A page waits only for a request that it will hear of. *)
Waits(u) ==
  page[u].pending => \E i \in Requests : Busy(i) /\ req[i].by = u /\ req[i].heard

(* The counts of the last write are shown to u or are on the way: request  *)
(* i will read or send or answer them, or they wait in the inbox.          *)
Newest(i, u) ==
  \/ At(i, "wrote")
  \/ At(i, "read") /\ req[i].got.of = writes
  \/ At(i, "sent") /\ req[i].got.of = writes /\ req[i].by = u /\ req[i].heard
WillKnow(u) ==
  \/ page[u].shown.of = writes
  \/ \E e \in Carried(inbox[u]) : e.of = writes
  \/ \E i \in Requests : Newest(i, u)
NewsComes == \A u \in Users \ (behind \cup undone) : WillKnow(u)

SettleInv == Truthful /\ (\A u \in Users : Waits(u)) /\ NewsComes

Event == [counts: Counts, of: Nat]

LEMMA TailCarries ==
  ASSUME NEW S, NEW s \in Seq(S), s # <<>>
  PROVE  Carried(s) = Carried(Tail(s)) \cup {Head(s)}
<1>1. /\ Len(s) \in Nat \ {0} /\ Len(Tail(s)) = Len(s) - 1 /\ Head(s) = s[1]
      /\ \A n \in 1 .. Len(s) - 1 : Tail(s)[n] = s[n + 1]
  BY HeadTailProperties, EmptySeq, LenProperties
<1>2. ASSUME NEW e \in Carried(s) PROVE e \in Carried(Tail(s)) \cup {Head(s)}
  <2>1. PICK n \in 1 .. Len(s) : e = s[n]
    BY <1>2 DEF Carried
  <2>2. CASE n = 1
    BY <1>1, <2>1, <2>2
  <2>3. CASE n # 1
    <3>1. n - 1 \in 1 .. Len(s) - 1 /\ (n - 1) + 1 = n
      BY <1>1, <2>1, <2>3
    <3>2. e = Tail(s)[n - 1]
      BY <1>1, <2>1, <3>1
    <3> QED  BY <1>1, <3>1, <3>2 DEF Carried
  <2> QED  BY <2>2, <2>3
<1>3. ASSUME NEW e \in Carried(Tail(s)) PROVE e \in Carried(s)
  <2>1. PICK n \in 1 .. Len(s) - 1 : e = s[n + 1]
    BY <1>1, <1>3 DEF Carried
  <2>2. n + 1 \in 1 .. Len(s)
    BY <1>1
  <2> QED  BY <2>1, <2>2 DEF Carried
<1>4. Head(s) \in Carried(s)
  <2>1. 1 \in 1 .. Len(s)
    BY <1>1
  <2> QED  BY <1>1, <2>1 DEF Carried
<1> QED
  BY <1>2, <1>3, <1>4

LEMMA AppendCarries ==
  ASSUME NEW S, NEW s \in Seq(S), NEW e \in S
  PROVE  Carried(Append(s, e)) = Carried(s) \cup {e}
<1> PICK t : t = Append(s, e)
    OBVIOUS
<1>1. /\ Len(s) \in Nat /\ Len(t) = Len(s) + 1 /\ t[Len(s) + 1] = e
      /\ \A n \in 1 .. Len(s) : t[n] = s[n]
  BY AppendProperties, LenProperties
<1>2. ASSUME NEW x \in Carried(t) PROVE x \in Carried(s) \cup {e}
  <2>1. PICK n \in 1 .. Len(s) + 1 : x = t[n]
    BY <1>1, <1>2 DEF Carried
  <2>2. n \in 1 .. Len(s) \/ n = Len(s) + 1
    BY <1>1
  <2> QED  BY <1>1, <2>1, <2>2 DEF Carried
<1>3. ASSUME NEW x \in Carried(s) PROVE x \in Carried(t)
  <2>1. PICK n \in 1 .. Len(s) : x = s[n]
    BY <1>3 DEF Carried
  <2>2. n \in 1 .. Len(t)
    BY <1>1, <2>1
  <2> QED  BY <1>1, <2>1, <2>2 DEF Carried
<1>4. e \in Carried(t)
  <2>1. Len(s) + 1 \in 1 .. Len(t)
    BY <1>1
  <2> QED  BY <1>1, <2>1 DEF Carried
<1> QED
  BY <1>2, <1>3, <1>4

LEMMA InitSettles == Init => SettleInv
<1> SUFFICES ASSUME Init PROVE SettleInv
    OBVIOUS
<1>1. \A u \in Users : /\ page[u].shown = Current(u) /\ page[u].previous = Current(u)
                       /\ ~page[u].pending /\ inbox[u] = <<>>
  BY DEF Init
<1>2. \A u \in Users : Current(u).of = writes /\ Current(u).counts = CountsOf(row)
  BY DEF Current
<1>3. \A u \in Users : HonestPage(u)
  BY <1>1, <1>2 DEF Init, HonestPage, Honest
<1>4. \A u \in Users : Carried(inbox[u]) = {}
  BY <1>1 DEF Carried
<1>5. \A i \in Requests : HonestRequest(i)
  BY DEF Init, HonestRequest
<1>6. \A u \in Users : WillKnow(u) /\ Waits(u)
  BY <1>1, <1>2 DEF WillKnow, Waits
<1> QED
  BY <1>3, <1>4, <1>5, <1>6 DEF SettleInv, Truthful, NewsComes

(* A click changes nothing but a guess. *)
LEMMA ReactSettles ==
  ASSUME IInv, SettleInv, NEW i \in Requests, NEW u \in Users,
         NEW want \in Reaction \ {"none"}, React(i, u, want)
  PROVE  SettleInv'
<1> PICK g, q : /\ g = ApplyOptimistic(page[u].shown, want)
                /\ q = [step |-> "asked", by |-> u, want |-> want, heard |-> TRUE]
    OBVIOUS
<1>1. /\ TypeOK /\ At(i, "new") /\ ~page[u].pending
      /\ page' = [page EXCEPT ![u] = [shown |-> g, previous |-> page[u].shown, pending |-> TRUE]]
      /\ req' = [req EXCEPT ![i] = q]
      /\ UNCHANGED <<row, inbox, writes, behind, undone>>
  BY DEF React, ReactAgain, IInv
<1>2. /\ req'[i] = q /\ \A j \in Requests \ {i} : req'[j] = req[j]
      /\ page'[u] = [shown |-> g, previous |-> page[u].shown, pending |-> TRUE]
      /\ \A v \in Users \ {u} : page'[v] = page[v]
  BY <1>1 DEF TypeOK
<1>3. g.of = page[u].shown.of
  BY <1>1 DEF TypeOK, Shown, ApplyOptimistic
<1>4. ASSUME NEW v \in Users PROVE HonestPage(v)'
  <2>1. HonestPage(v)
    BY DEF SettleInv, Truthful
  <2>2. CASE v = u
    BY <1>1, <1>2, <1>3, <2>1, <2>2 DEF HonestPage, Honest
  <2>3. CASE v # u
    BY <1>1, <1>2, <2>1, <2>3 DEF HonestPage, Honest
  <2> QED  BY <2>2, <2>3
<1>5. \A v \in Users : \A e \in Carried(inbox'[v]) : Honest(e)'
  BY <1>1 DEF SettleInv, Truthful, Honest
<1>6. \A j \in Requests : HonestRequest(j)'
  BY <1>1, <1>2 DEF SettleInv, Truthful, HonestRequest, Honest
<1>7. ASSUME NEW v \in Users PROVE Waits(v)'
  <2>1. CASE v = u
    <3>1. Busy(i)' /\ req'[i].by = u /\ req'[i].heard
      BY <1>2 DEF Busy
    <3> QED  BY <2>1, <3>1 DEF Waits
  <2>2. CASE v # u
    <3>1. page'[v] = page[v] /\ Waits(v)
      BY <1>2, <2>2 DEF SettleInv
    <3>2. \A j \in Requests : Busy(j) => j # i
      BY <1>1 DEF Busy, At
    <3> QED  BY <1>2, <3>1, <3>2 DEF Waits, Busy
  <2> QED  BY <2>1, <2>2
<1>8. ASSUME NEW v \in Users \ (behind \cup undone) PROVE WillKnow(v)'
  <2>1. WillKnow(v)
    BY DEF SettleInv, NewsComes
  <2>2. page'[v].shown.of = page[v].shown.of
    BY <1>2, <1>3
  <2>3. \A j \in Requests : Newest(j, v) => Newest(j, v)'
    <3>1. \A j \in Requests : Newest(j, v) => j # i
      BY <1>1 DEF Newest, At
    <3> QED  BY <1>1, <1>2, <3>1 DEF Newest, At
  <2> QED  BY <1>1, <2>1, <2>2, <2>3 DEF WillKnow
<1> QED
  BY <1>1, <1>4, <1>5, <1>6, <1>7, <1>8 DEF SettleInv, Truthful, NewsComes

(* The page of a request that is over takes s and waits no more; s is as   *)
(* new as what it takes the place of, or the page is known to be behind.   *)
LEMMA SettlingSettles ==
  ASSUME IInv, SettleInv, NEW i \in Requests, Busy(i), req[i].heard, NEW s, Honest(s), s.of \in Nat,
         page' = [page EXCEPT ![req[i].by].shown = s, ![req[i].by].pending = FALSE],
         UNCHANGED <<row, inbox, writes>>,
         behind \subseteq behind', undone \subseteq undone',
         Over(i) \/ req' = [req EXCEPT ![i].heard = FALSE],
         req[i].by \notin behind' \cup undone' =>
           s.of >= page[req[i].by].shown.of /\ (Newest(i, req[i].by) => s.of = writes),
         \A v \in Users \ {req[i].by} :
           v \notin behind' \cup undone' /\ Newest(i, v) => Newest(i, v)'
  PROVE  SettleInv'
<1> PICK u : u = req[i].by
    OBVIOUS
<1>1. TypeOK /\ u \in Users
  BY RequestType DEF IInv
<1>2. /\ page'[u].shown = s /\ page'[u].previous = page[u].previous /\ ~page'[u].pending
      /\ \A v \in Users \ {u} : page'[v] = page[v]
  BY <1>1 DEF TypeOK
<1>3. /\ \A j \in Requests \ {i} : req'[j] = req[j]
      /\ req'[i].step \in {"read", "sent"} =>
           req[i].step = req'[i].step /\ req'[i].got = req[i].got
  <2>1. req[i] \in Asking \/ req[i] \in Answer
    BY <1>1, RequestType DEF Busy
  <2>2. CASE Over(i)
    BY <1>1, <2>2 DEF TypeOK, Over
  <2>3. CASE req' = [req EXCEPT ![i].heard = FALSE]
    BY <1>1, <2>1, <2>3 DEF TypeOK, Asking, Answer
  <2> QED  BY <2>2, <2>3
<1>4. ASSUME NEW v \in Users PROVE HonestPage(v)'
  <2>1. HonestPage(v)
    BY DEF SettleInv, Truthful
  <2>2. CASE v = u
    BY <1>2, <2>1, <2>2 DEF HonestPage, Honest
  <2>3. CASE v # u
    BY <1>2, <2>1, <2>3 DEF HonestPage, Honest
  <2> QED  BY <2>2, <2>3
<1>5. \A v \in Users : \A e \in Carried(inbox'[v]) : Honest(e)'
  BY DEF SettleInv, Truthful, Honest
<1>6. \A j \in Requests : HonestRequest(j)'
  BY <1>3 DEF SettleInv, Truthful, HonestRequest, Honest
<1>7. ASSUME NEW v \in Users PROVE Waits(v)'
  <2>1. CASE v = u
    BY <1>2, <2>1 DEF Waits
  <2>2. CASE v # u
    <3>1. page'[v] = page[v] /\ Waits(v)
      BY <1>2, <2>2 DEF SettleInv
    <3> QED  BY <1>3, <2>2, <3>1 DEF Waits, Busy
  <2> QED  BY <2>1, <2>2
<1>8. ASSUME NEW v \in Users, v \notin behind' \cup undone' PROVE WillKnow(v)'
  <2>1. WillKnow(v)
    BY <1>8 DEF SettleInv, NewsComes
  <2>2. \A j \in Requests \ {i} : Newest(j, v) => Newest(j, v)'
    BY <1>3 DEF Newest, At
  <2>3. CASE v # u
    BY <1>2, <1>8, <2>1, <2>2, <2>3 DEF WillKnow
  <2>4. CASE v = u
    <3>1. page[u].shown.of = writes => s.of = writes
      <4>1. page[u].shown.of \in Nat /\ writes \in Nat
        BY <1>1 DEF TypeOK, Shown
      <4> QED  BY <1>8, <2>4, <4>1 DEF Honest
    <3>2. Newest(i, u) => s.of = writes
      BY <1>8, <2>4
    <3>3. s.of = writes => WillKnow(v)'
      BY <1>2, <2>4 DEF WillKnow
    <3> QED  BY <2>1, <2>2, <2>4, <3>1, <3>2, <3>3 DEF WillKnow
  <2> QED  BY <2>3, <2>4
<1> QED
  BY <1>4, <1>5, <1>6, <1>7, <1>8 DEF SettleInv, Truthful, NewsComes

LEMMA PageSettles ==
  ASSUME IInv, SettleInv, NEW i \in Requests,
         Answered(i) \/ Broken(i) \/ FailsBefore(i) \/ FailsAfter(i)
  PROVE  SettleInv'
<1> PICK u, p : u = req[i].by /\ p = page[u].previous
    OBVIOUS
<1>1. TypeOK /\ Busy(i) /\ req[i].heard
  BY DEF IInv, Answered, Broken, FailsBefore, FailsAfter, At, Busy
<1>2. u \in Users
  BY <1>1, RequestType
<1>3. p.of \in Nat /\ Honest(p) /\ page[u].shown.of \in Nat
  BY <1>1, <1>2 DEF TypeOK, Shown, SettleInv, Truthful, HonestPage
<1>4. ASSUME NEW s, s.of \in Nat, Show(u, s, FALSE)
      PROVE  /\ page' = [page EXCEPT ![u].shown = s, ![u].pending = FALSE]
             /\ behind \subseteq behind'
             /\ u \notin behind' => s.of >= page[u].shown.of
  BY <1>3, <1>4 DEF Show
<1>5. CASE Answered(i)
  <2> PICK s : s = req[i].got
      OBVIOUS
  <2>1. req[i].step = "sent" /\ Show(u, s, FALSE) /\ Over(i) /\ UNCHANGED <<row, inbox, writes, undone>>
    BY <1>5 DEF Answered, At
  <2>2. s.of \in Nat /\ Honest(s)
    BY <1>1, <2>1, RequestType DEF Answer, Shown, SettleInv, Truthful, HonestRequest
  <2>3. Newest(i, u) => s.of = writes
    BY <2>1 DEF Newest, At
  <2>4. \A v \in Users \ {u} : ~Newest(i, v)
    BY <2>1 DEF Newest, At
  <2> QED  BY <1>1, <1>4, <2>1, <2>2, <2>3, <2>4, SettlingSettles
<1>6. CASE Broken(i)
  <2>1. /\ Show(u, p, FALSE) /\ req' = [req EXCEPT ![i].heard = FALSE]
        /\ undone' = undone \cup {u} /\ UNCHANGED <<row, inbox, writes>>
    BY <1>6 DEF Broken, RollBack
  <2>2. req'[i].step = req[i].step /\ (req[i].step \in {"read", "sent"} => req'[i].got = req[i].got)
    <3>1. req[i] \in Asking \/ req[i] \in Answer
      BY <1>1, RequestType DEF Busy
    <3> QED  BY <1>1, <2>1, <3>1 DEF TypeOK, Asking, Answer
  <2>3. \A v \in Users \ {u} : Newest(i, v) => Newest(i, v)'
    BY <2>1, <2>2 DEF Newest, At
  <2> QED  BY <1>1, <1>3, <1>4, <2>1, <2>3, SettlingSettles
<1>7. CASE FailsBefore(i)
  <2>1. Show(u, p, FALSE) /\ Over(i) /\ UNCHANGED <<row, inbox, writes, undone>>
    BY <1>7 DEF FailsBefore, RollBack
  <2>2. \A v \in Users : ~Newest(i, v)
    BY <1>7 DEF FailsBefore, Newest, At
  <2> QED  BY <1>1, <1>2, <1>3, <1>4, <2>1, <2>2, SettlingSettles
<1>8. CASE FailsAfter(i)
  <2>1. /\ page' = [page EXCEPT ![u].shown = p, ![u].pending = FALSE]
        /\ behind' = Users /\ Over(i) /\ UNCHANGED <<row, inbox, writes>> /\ undone \subseteq undone'
    BY <1>8 DEF FailsAfter
  <2>2. behind \subseteq behind'
    BY <1>1, <2>1 DEF TypeOK
  <2> QED  BY <1>1, <1>2, <1>3, <2>1, <2>2, SettlingSettles
<1> QED
  BY <1>5, <1>6, <1>7, <1>8

LEMMA ReceiveSettles ==
  ASSUME IInv, SettleInv, NEW u \in Users, Receive(u)
  PROVE  SettleInv'
<1> PICK e, s : e = Head(inbox[u]) /\ s = [page[u].shown EXCEPT !.counts = e.counts, !.of = e.of]
    OBVIOUS
<1>1. /\ TypeOK /\ inbox[u] # <<>>
      /\ Show(u, s, page[u].pending)
      /\ inbox' = [inbox EXCEPT ![u] = Tail(@)]
      /\ UNCHANGED <<row, req, writes, undone>>
  BY DEF Receive, IInv
<1>2. inbox[u] \in Seq(Event) /\ e \in Event
  BY <1>1, HeadTailProperties DEF TypeOK, Event
<1>3. Carried(inbox[u]) = Carried(inbox'[u]) \cup {e}
  <2>1. inbox'[u] = Tail(inbox[u])
    BY <1>1 DEF TypeOK
  <2> QED  BY <1>1, <1>2, <2>1, TailCarries
<1>4. s.of = e.of /\ s.counts = e.counts /\ e.of \in Nat /\ page[u].shown.of \in Nat /\ writes \in Nat
  BY <1>1, <1>2 DEF TypeOK, Shown, Event
<1>5. /\ page'[u].shown = s /\ page'[u].previous = page[u].previous
      /\ page'[u].pending = page[u].pending
      /\ \A v \in Users \ {u} : page'[v] = page[v]
  BY <1>1 DEF Show, TypeOK
<1>6. Honest(e) /\ Honest(s)
  BY <1>3, <1>4 DEF SettleInv, Truthful, Honest
<1>7. \A v \in Users \ {u} : inbox'[v] = inbox[v]
  BY <1>1 DEF TypeOK
<1>8. ASSUME NEW v \in Users PROVE HonestPage(v)'
  <2>1. HonestPage(v)
    BY DEF SettleInv, Truthful
  <2>2. CASE v = u
    BY <1>1, <1>5, <1>6, <2>1, <2>2 DEF HonestPage, Honest
  <2>3. CASE v # u
    BY <1>1, <1>5, <2>1, <2>3 DEF HonestPage, Honest
  <2> QED  BY <2>2, <2>3
<1>9. ASSUME NEW v \in Users PROVE \A x \in Carried(inbox'[v]) : Honest(x)'
  <2>1. \A x \in Carried(inbox'[v]) : x \in Carried(inbox[v])
    BY <1>3, <1>7
  <2> QED  BY <1>1, <2>1 DEF SettleInv, Truthful, Honest
<1>10. \A j \in Requests : HonestRequest(j)'
  BY <1>1 DEF SettleInv, Truthful, HonestRequest, Honest
<1>11. ASSUME NEW v \in Users PROVE Waits(v)'
  <2>1. page'[v].pending = page[v].pending /\ Waits(v)
    BY <1>5 DEF SettleInv
  <2> QED  BY <1>1, <2>1 DEF Waits, Busy
<1>12. ASSUME NEW v \in Users, v \notin behind' \cup undone' PROVE WillKnow(v)'
  <2>1. behind \subseteq behind' /\ (u \notin behind' => e.of >= page[u].shown.of)
    BY <1>1, <1>4 DEF Show
  <2>2. WillKnow(v)
    BY <1>1, <1>12, <2>1 DEF SettleInv, NewsComes
  <2>3. \A j \in Requests : Newest(j, v) => Newest(j, v)'
    BY <1>1 DEF Newest, At
  <2>4. CASE v # u
    BY <1>1, <1>5, <1>7, <2>2, <2>3, <2>4 DEF WillKnow
  <2>5. CASE v = u
    <3>1. page[u].shown.of = writes => e.of = writes
      BY <1>4, <1>6, <1>12, <2>1, <2>5 DEF Honest
    <3>2. e.of = writes => WillKnow(v)'
      BY <1>1, <1>4, <1>5, <2>5 DEF WillKnow
    <3> QED  BY <1>1, <1>3, <2>2, <2>3, <2>5, <3>1, <3>2 DEF WillKnow
  <2> QED  BY <2>4, <2>5
<1> QED
  BY <1>8, <1>9, <1>10, <1>11, <1>12 DEF SettleInv, Truthful, NewsComes

LEMMA LoseSettles ==
  ASSUME IInv, SettleInv, NEW u \in Users, Lose(u)
  PROVE  SettleInv'
<1>1. /\ TypeOK /\ inbox[u] # <<>>
      /\ inbox' = [inbox EXCEPT ![u] = Tail(@)]
      /\ behind' = behind \cup {u}
      /\ UNCHANGED <<row, page, req, writes, undone>>
  BY DEF Lose, IInv
<1>2. Carried(inbox'[u]) \subseteq Carried(inbox[u])
  <2>1. inbox[u] \in Seq(Event) /\ inbox'[u] = Tail(inbox[u])
    BY <1>1 DEF TypeOK, Event
  <2> QED  BY <1>1, <2>1, TailCarries
<1>3. \A v \in Users \ {u} : inbox'[v] = inbox[v]
  BY <1>1 DEF TypeOK
<1>4. ASSUME NEW v \in Users PROVE \A x \in Carried(inbox'[v]) : Honest(x)'
  <2>1. \A x \in Carried(inbox'[v]) : x \in Carried(inbox[v])
    BY <1>2, <1>3
  <2> QED  BY <1>1, <2>1 DEF SettleInv, Truthful, Honest
<1>5. (\A v \in Users : HonestPage(v)') /\ (\A j \in Requests : HonestRequest(j)')
  BY <1>1 DEF SettleInv, Truthful, HonestPage, HonestRequest, Honest
<1>6. \A v \in Users : Waits(v)'
  BY <1>1 DEF SettleInv, Waits, Busy
<1>7. ASSUME NEW v \in Users, v \notin behind' \cup undone' PROVE WillKnow(v)'
  <2>1. WillKnow(v) /\ v # u
    BY <1>1, <1>7 DEF SettleInv, NewsComes
  <2> QED  BY <1>1, <1>3, <2>1 DEF WillKnow, Newest, At
<1> QED
  BY <1>4, <1>5, <1>6, <1>7 DEF SettleInv, Truthful, NewsComes

(* A write makes all counts old, and the request that did it will read.    *)
LEMMA WriteSettles ==
  ASSUME IInv, SettleInv, NEW i \in Requests, Write(i)
  PROVE  SettleInv'
<1>1. /\ TypeOK /\ req[i].step = "asked"
      /\ writes' = writes + 1 /\ writes \in Nat
      /\ req' = [req EXCEPT ![i].step = "wrote"]
      /\ UNCHANGED <<page, inbox, behind, undone>>
  BY DEF Write, At, IInv, TypeOK
<1>2. req[i] \in Asking
  BY <1>1, RequestType
<1>3. /\ req'[i].step = "wrote" /\ req'[i].by = req[i].by /\ req'[i].heard = req[i].heard
      /\ \A j \in Requests \ {i} : req'[j] = req[j]
  BY <1>1, <1>2 DEF TypeOK, Asking
<1>4. \A s : s.of \in Nat /\ s.of <= writes => s.of <= writes' /\ s.of # writes'
  BY <1>1
<1>5. \A s : s.of \in Nat /\ Honest(s) => Honest(s)'
  BY <1>4 DEF Honest
<1>6. ASSUME NEW v \in Users PROVE HonestPage(v)'
  <2>1. HonestPage(v) /\ page[v].shown.of \in Nat /\ page[v].previous.of \in Nat
    BY <1>1 DEF SettleInv, Truthful, TypeOK, Shown
  <2>2. page'[v] = page[v]
    BY <1>1
  <2>3. Honest(page[v].previous)' /\ (~page[v].pending => Honest(page[v].shown)')
    <3> PICK s, p : s = page[v].shown /\ p = page[v].previous
        OBVIOUS
    <3>1. Honest(p)' /\ (~page[v].pending => Honest(s)')
      BY <1>5, <2>1 DEF HonestPage
    <3> QED  BY <2>2, <3>1 DEF Honest
  <2> QED  BY <1>4, <2>1, <2>2, <2>3 DEF HonestPage
<1>7. ASSUME NEW v \in Users PROVE \A e \in Carried(inbox'[v]) : Honest(e)'
  <2>1. \A e \in Carried(inbox[v]) : e.of \in Nat
    <3>1. inbox[v] \in Seq(Event)
      BY <1>1 DEF TypeOK, Event
    <3>2. \A n \in 1 .. Len(inbox[v]) : inbox[v][n] \in Event
      BY <3>1, ElementOfSeq
    <3> QED  BY <3>2 DEF Carried, Event
  <2>2. inbox'[v] = inbox[v]
    BY <1>1
  <2> QED  BY <1>5, <2>1, <2>2 DEF SettleInv, Truthful
<1>8. ASSUME NEW j \in Requests PROVE HonestRequest(j)'
  <2>1. CASE j = i
    BY <1>3, <2>1 DEF HonestRequest
  <2>2. CASE j # i
    <3>1. req'[j] = req[j] /\ HonestRequest(j)
      BY <1>3, <2>2 DEF SettleInv, Truthful
    <3>2. req[j].step \in {"read", "sent"} => req[j].got.of \in Nat
      BY <1>1, RequestType DEF Answer, Shown
    <3> PICK s : s = req[j].got
        OBVIOUS
    <3>3. req[j].step \in {"read", "sent"} => Honest(s)'
      BY <1>5, <3>1, <3>2 DEF HonestRequest
    <3> QED  BY <3>1, <3>3 DEF HonestRequest, Honest
  <2> QED  BY <2>1, <2>2
<1>9. ASSUME NEW v \in Users PROVE Waits(v)'
  <2>1. page'[v] = page[v] /\ Waits(v)
    BY <1>1 DEF SettleInv
  <2>2. \A j \in Requests : Busy(j) => Busy(j)' /\ req'[j].by = req[j].by /\ req'[j].heard = req[j].heard
    BY <1>3 DEF Busy
  <2> QED  BY <2>1, <2>2 DEF Waits
<1>10. \A v \in Users : WillKnow(v)'
  BY <1>3 DEF WillKnow, Newest, At
<1> QED
  BY <1>6, <1>7, <1>8, <1>9, <1>10 DEF SettleInv, Truthful, NewsComes

(* A request goes on after its write: it may read the counts as they are,  *)
(* and what it knows the others are told.                                  *)
LEMMA ReadSettles ==
  ASSUME IInv, SettleInv, NEW i \in Requests, ReadCounts(i)
  PROVE  SettleInv'
<1> PICK q : q = [step |-> "read", by |-> req[i].by, heard |-> req[i].heard,
                  got |-> Current(req[i].by)]
    OBVIOUS
<1>1. /\ TypeOK /\ req[i].step = "wrote"
      /\ req' = [req EXCEPT ![i] = q]
      /\ UNCHANGED <<row, page, inbox, writes, behind, undone>>
  BY DEF ReadCounts, At, IInv
<1>2. /\ req'[i].step = "read" /\ req'[i].by = req[i].by /\ req'[i].heard = req[i].heard
      /\ req'[i].got.of = writes /\ req'[i].got.counts = CountsOf(row)
      /\ \A j \in Requests \ {i} : req'[j] = req[j]
  BY <1>1 DEF TypeOK, Current
<1>3. (\A v \in Users : HonestPage(v)') /\ \A v \in Users : \A e \in Carried(inbox'[v]) : Honest(e)'
  BY <1>1 DEF SettleInv, Truthful, HonestPage, Honest
<1>4. ASSUME NEW j \in Requests PROVE HonestRequest(j)'
  <2>1. CASE j = i
    <3>1. writes <= writes
      BY <1>1 DEF TypeOK
    <3> QED  BY <1>1, <1>2, <2>1, <3>1 DEF HonestRequest, Honest
  <2>2. CASE j # i
    BY <1>1, <1>2, <2>2 DEF SettleInv, Truthful, HonestRequest, Honest
  <2> QED  BY <2>1, <2>2
<1>5. ASSUME NEW v \in Users PROVE Waits(v)'
  <2>1. page'[v] = page[v] /\ Waits(v)
    BY <1>1 DEF SettleInv
  <2>2. \A j \in Requests : Busy(j) => Busy(j)' /\ req'[j].by = req[j].by /\ req'[j].heard = req[j].heard
    BY <1>2 DEF Busy
  <2> QED  BY <2>1, <2>2 DEF Waits
<1>6. ASSUME NEW v \in Users \ (behind \cup undone) PROVE WillKnow(v)'
  <2>1. WillKnow(v)
    BY DEF SettleInv, NewsComes
  <2>2. \A j \in Requests : Newest(j, v) => Newest(j, v)'
    BY <1>1, <1>2 DEF Newest, At
  <2> QED  BY <1>1, <2>1, <2>2 DEF WillKnow
<1> QED
  BY <1>1, <1>3, <1>4, <1>5, <1>6 DEF SettleInv, Truthful, NewsComes

LEMMA BroadcastSettles ==
  ASSUME IInv, SettleInv, NEW i \in Requests, Broadcast(i)
  PROVE  SettleInv'
<1> PICK g, e : g = req[i].got /\ e = [counts |-> g.counts, of |-> g.of]
    OBVIOUS
<1>1. /\ TypeOK /\ req[i].step = "read"
      /\ req' = [req EXCEPT ![i].step = "sent"]
      /\ inbox' = [u \in Users |-> IF u = req[i].by THEN inbox[u] ELSE Append(inbox[u], e)]
      /\ UNCHANGED <<row, page, writes, behind, undone>>
  BY DEF Broadcast, At, IInv
<1>2. req[i] \in Answer /\ Honest(g)
  BY <1>1, RequestType DEF SettleInv, Truthful, HonestRequest
<1>3. /\ req'[i].step = "sent" /\ req'[i].by = req[i].by /\ req'[i].heard = req[i].heard
      /\ req'[i].got = g
      /\ \A j \in Requests \ {i} : req'[j] = req[j]
  BY <1>1, <1>2 DEF TypeOK, Answer
<1>4. e \in Event /\ Honest(e)
  BY <1>2 DEF Answer, Shown, Event, Honest
<1>5. \A v \in Users : Carried(inbox'[v]) = IF v = req[i].by THEN Carried(inbox[v])
                                            ELSE Carried(inbox[v]) \cup {e}
  <2>1. \A v \in Users : inbox[v] \in Seq(Event)
    BY <1>1 DEF TypeOK, Event
  <2>2. \A v \in Users : Carried(Append(inbox[v], e)) = Carried(inbox[v]) \cup {e}
    BY <1>4, <2>1, AppendCarries
  <2> QED  BY <1>1, <2>2
<1>6. ASSUME NEW v \in Users PROVE \A x \in Carried(inbox'[v]) : Honest(x)'
  <2>1. \A x \in Carried(inbox'[v]) : Honest(x)
    BY <1>4, <1>5 DEF SettleInv, Truthful
  <2> QED  BY <1>1, <2>1 DEF Honest
<1>7. \A v \in Users : HonestPage(v)'
  BY <1>1 DEF SettleInv, Truthful, HonestPage, Honest
<1>8. \A j \in Requests : HonestRequest(j)'
  BY <1>1, <1>2, <1>3 DEF SettleInv, Truthful, HonestRequest, Honest
<1>9. ASSUME NEW v \in Users PROVE Waits(v)'
  <2>1. page'[v] = page[v] /\ Waits(v)
    BY <1>1 DEF SettleInv
  <2>2. \A j \in Requests : Busy(j) => Busy(j)' /\ req'[j].by = req[j].by /\ req'[j].heard = req[j].heard
    BY <1>3 DEF Busy
  <2> QED  BY <2>1, <2>2 DEF Waits
<1>10. ASSUME NEW v \in Users \ (behind \cup undone) PROVE WillKnow(v)'
  <2>1. WillKnow(v)
    BY DEF SettleInv, NewsComes
  <2>2. \A j \in Requests \ {i} : Newest(j, v) => Newest(j, v)'
    BY <1>1, <1>3 DEF Newest, At
  <2>3. ASSUME Newest(i, v) PROVE WillKnow(v)'
    <3>1. g.of = writes
      BY <1>1, <2>3 DEF Newest, At
    <3>2. CASE v = req[i].by
      <4>1. req[i].heard
        BY <1>1, <3>2 DEF IInv, OneHeard, Busy
      <4>2. Newest(i, v)'
        BY <1>1, <1>3, <3>1, <3>2, <4>1 DEF Newest, At
      <4> QED  BY <4>2 DEF WillKnow
    <3>3. CASE v # req[i].by
      <4>1. e \in Carried(inbox'[v]) /\ e.of = writes'
        BY <1>1, <1>5, <3>1, <3>3
      <4> QED  BY <4>1 DEF WillKnow
    <3> QED  BY <3>2, <3>3
  <2> QED  BY <1>1, <1>5, <2>1, <2>2, <2>3 DEF WillKnow
<1> QED
  BY <1>1, <1>6, <1>7, <1>8, <1>9, <1>10 DEF SettleInv, Truthful, NewsComes

LEMMA UnheardSettles ==
  ASSUME IInv, SettleInv, NEW i \in Requests, Unheard(i)
  PROVE  SettleInv'
<1>1. /\ TypeOK /\ req[i].step = "sent" /\ ~req[i].heard
      /\ req'[i].step = "over" /\ \A j \in Requests \ {i} : req'[j] = req[j]
      /\ UNCHANGED <<row, page, inbox, writes, behind, undone>>
  BY DEF Unheard, At, Over, IInv, TypeOK
<1>2. Truthful'
  BY <1>1 DEF SettleInv, Truthful, HonestPage, HonestRequest, Honest
<1>3. ASSUME NEW v \in Users PROVE Waits(v)'
  <2>1. page'[v] = page[v] /\ Waits(v)
    BY <1>1 DEF SettleInv
  <2> QED  BY <1>1, <2>1 DEF Waits, Busy
<1>4. ASSUME NEW v \in Users \ (behind \cup undone) PROVE WillKnow(v)'
  <2>1. WillKnow(v) /\ ~Newest(i, v)
    BY <1>1 DEF SettleInv, NewsComes, Newest, At
  <2>2. \A j \in Requests \ {i} : Newest(j, v) => Newest(j, v)'
    BY <1>1 DEF Newest, At
  <2> QED  BY <1>1, <2>1, <2>2 DEF WillKnow
<1> QED
  BY <1>1, <1>2, <1>3, <1>4 DEF SettleInv, NewsComes

LEMMA NextSettles == ASSUME IInv, SettleInv, [Next]_vars PROVE SettleInv'
<1>1. CASE UNCHANGED vars
  BY <1>1 DEF vars, SettleInv, Truthful, HonestPage, HonestRequest, Honest, Waits, Busy,
              NewsComes, WillKnow, Newest, At
<1>2. CASE Next
  BY <1>2, ReactSettles, PageSettles, WriteSettles, ReadSettles, BroadcastSettles,
     UnheardSettles, ReceiveSettles, LoseSettles DEF Next
<1> QED  BY <1>1, <1>2

(* useReaction.ts:51-88, handlers.go:1396: when nothing is on its way any  *)
(* more, every page that missed no broadcast, took no click back and put   *)
(* no older counts over newer ones shows the counts as they are stored,    *)
(* whatever its guesses were and in whatever order the rest arrived.       *)
THEOREM CountsAlwaysSettle == Spec => []CountsSettle
<1>1. TypeOK /\ SettleInv => CountsSettle
  <2> SUFFICES ASSUME TypeOK, SettleInv, Quiet, NEW u \in Users \ (behind \cup undone)
               PROVE  page[u].shown.counts = CountsOf(row)
      BY DEF CountsSettle
  <2>1. ~page[u].pending
    BY DEF Quiet, SettleInv, Waits
  <2>2. Carried(inbox[u]) = {}
    BY DEF Quiet, Carried
  <2>3. \A i \in Requests : ~Newest(i, u)
    BY DEF Quiet, Newest, At, Busy
  <2>4. page[u].shown.of = writes
    BY <2>2, <2>3 DEF SettleInv, NewsComes, WillKnow
  <2> QED  BY <2>1, <2>4 DEF SettleInv, Truthful, HonestPage, Honest
<1>2. IInv => TypeOK
  BY DEF IInv
<1> QED
  BY <1>1, <1>2, InitHolds, NextKeeps, InitSettles, NextSettles, PTL DEF Spec
=============================================================================
