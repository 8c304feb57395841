----------------------------- MODULE PostsProofs -----------------------------
(* Theorems about posts and what hangs on them, and their proofs. *)
EXTENDS Posts, TLAPS, FiniteSetTheorems

(* What a handler knows at each place it can be: whom it acts for, the     *)
(* post, row and file it acts on, and that it has tries left.              *)
OnPost == {"edit", "drop", "swap", "current", "comment", "notify", "find",
           "insert", "reread", "apply", "save", "unsave"}
OnRow == {"notify", "editComment", "dropComment", "apply", "unsave"}
OnMark == {"find", "insert", "reread", "apply", "save", "unsave"}
Knows(l) ==
  /\ l.pc # "idle" => l.by \in Users
  /\ l.pc \in OnPost => l.post \in Ids
  /\ l.pc \in OnRow => l.id \in Ids
  /\ l.pc \in OnMark => l.value \in Values
  /\ l.pc \in {"comment", "notify"} => l.owner \in Users
  /\ l.pc = "unlink" => l.img \in Files
  /\ l.pc \in {"swap", "current"} => l.file \in Files /\ l.tries < MaxTries
  /\ l.pc = "reread" => l.tries < MaxTries
HandlersKnow == \A h \in Handlers : Knows(req[h])

TypeInv == TypeOK /\ HandlersKnow

-----------------------------------------------------------------------------
(* Type correctness. *)

LEMMA IdleType == Idle \in Local /\ Knows(Idle)
BY PostsAssumption DEF Idle, Local, Knows, Steps, OnPost, OnRow, OnMark

LEMMA OneMoreTry ==
  ASSUME NEW n \in 0..MaxTries, n < MaxTries
  PROVE  n + 1 \in 0..MaxTries /\ (n + 1 # MaxTries => n + 1 < MaxTries)
BY PostsAssumption

(* Whatever a handler does to its place, the places stay well-typed. *)
LEMMA PlaceTyped ==
  ASSUME TypeInv, NEW h \in Handlers, NEW l \in Local, Knows(l),
         req' = [req EXCEPT ![h] = l]
  PROVE  req' \in [Handlers -> Local] /\ HandlersKnow'
BY DEF TypeInv, TypeOK, HandlersKnow

LEMMA ReturnTyped ==
  ASSUME TypeInv, NEW h \in Handlers, Return(h)
  PROVE  req' \in [Handlers -> Local] /\ HandlersKnow' /\ asked' \in Nat
BY IdleType, PlaceTyped DEF Return, Goto, TypeInv, TypeOK

LEMMA GotoTyped ==
  ASSUME TypeInv, NEW h \in Handlers, NEW l \in Local, Knows(l), Goto(h, l)
  PROVE  req' \in [Handlers -> Local] /\ HandlersKnow' /\ asked' \in Nat
BY PlaceTyped DEF Goto, TypeInv, TypeOK

LEMMA ArriveTyped ==
  ASSUME TypeInv, NEW h \in Handlers, NEW op, NEW l \in Local, Knows(l),
         Arrive(h, op, l)
  PROVE  req' \in [Handlers -> Local] /\ HandlersKnow' /\ asked' \in Nat
<1>1. req' = [req EXCEPT ![h] = l] /\ asked' = asked + 1
  BY DEF Arrive
<1>2. asked' \in Nat
  BY <1>1 DEF TypeInv, TypeOK
<1> QED
  BY <1>1, <1>2, PlaceTyped

LEMMA InitTyped == Init => TypeInv
<1> SUFFICES ASSUME Init PROVE TypeInv
    OBVIOUS
<1>1. post \in [Ids -> Post \cup {None}]
  BY PostsAssumption DEF Init, Empty, Post
<1>2. issued \in [Tables -> [Ids -> Nat]]
  BY DEF Init, Tables
<1> QED
  BY <1>1, <1>2, IdleType DEF Init, TypeInv, TypeOK, HandlersKnow, Empty

(* The first step of each handler, which changes at most the files. *)
LEMMA StartTyped ==
  ASSUME TypeInv, NEW h \in Handlers, NEW u \in Users, Start(h, u)
  PROVE  TypeInv'
<1> USE DEF TypeInv, TypeOK
<1> DEFINE Came == req' \in [Handlers -> Local] /\ HandlersKnow' /\ asked' \in Nat
<1>1. ASSUME NEW p \in Ids, EditStart(h, u, p) PROVE TypeInv'
  <2> DEFINE l == [Idle EXCEPT !.pc = "edit", !.by = u, !.post = p,
                               !.postAt = issued["post"][p]]
  <2>1. l \in Local /\ Knows(l)
    BY IdleType DEF Tables, Idle, Local, Knows, Steps, OnPost, OnRow, OnMark
  <2> HIDE DEF l
  <2>2. Came
    BY <1>1, <2>1, ArriveTyped DEF EditStart, l
  <2> QED  BY <1>1, <2>2 DEF EditStart, rows
<1>2. ASSUME NEW p \in Ids, DeleteStart(h, u, p) PROVE TypeInv'
  <2> DEFINE l == [Idle EXCEPT !.pc = "drop", !.by = u, !.post = p, !.img = post[p].img]
  <2>1. l \in Local /\ Knows(l)
    BY <1>2, IdleType DEF DeleteStart, Idle, Local, Knows, Steps, OnPost, OnRow, OnMark, Post
  <2> HIDE DEF l
  <2>2. Came
    BY <1>2, <2>1, ArriveTyped DEF DeleteStart, l
  <2> QED  BY <1>2, <2>2 DEF DeleteStart, rows
<1>3. ASSUME NEW p \in Ids, UploadStart(h, u, p) PROVE TypeInv'
  <2>1. PICK f \in Files :
          /\ files' = [files EXCEPT ![f] = [post |-> p, time |-> issued["post"][p]]]
          /\ Arrive(h, "upload", [Idle EXCEPT !.pc = "swap", !.by = u, !.post = p,
                                              !.img = post[p].img, !.file = f])
    BY <1>3 DEF UploadStart
  <2>2. PICK i \in Files \cup {None} : i = post[p].img
    BY <1>3 DEF UploadStart, Post
  <2> DEFINE l == [Idle EXCEPT !.pc = "swap", !.by = u, !.post = p, !.img = i, !.file = f]
  <2>3. 0 < MaxTries /\ 0 \in 0..MaxTries
    BY PostsAssumption
  <2>4. l \in Local /\ Knows(l)
    BY <2>3, IdleType DEF Idle, Local, Knows, Steps, OnPost, OnRow, OnMark
  <2>5. Arrive(h, "upload", l)
    BY <2>1, <2>2
  <2> HIDE DEF l
  <2>6. Came
    BY <2>4, <2>5, ArriveTyped
  <2>7. files' \in [Files -> Upload \cup {None}]
    BY <2>1 DEF Upload, Tables
  <2> QED  BY <1>3, <2>6, <2>7 DEF UploadStart, rows
<1>4. ASSUME NEW p \in Ids, CommentStart(h, u, p) PROVE TypeInv'
  <2> DEFINE l == [Idle EXCEPT !.pc = "comment", !.by = u, !.post = p,
                               !.owner = post[p].owner, !.postAt = issued["post"][p]]
  <2>1. l \in Local /\ Knows(l)
    BY <1>4, IdleType DEF CommentStart, Tables, Idle, Local, Knows, Steps, OnPost, OnRow, OnMark, Post
  <2> HIDE DEF l
  <2>2. Came
    BY <1>4, <2>1, ArriveTyped DEF CommentStart, l
  <2> QED  BY <1>4, <2>2 DEF CommentStart, rows
<1>5. ASSUME NEW p \in Ids, BookmarkStart(h, u, p) PROVE TypeInv'
  <2> DEFINE l == [Idle EXCEPT !.pc = "find", !.by = u, !.post = p, !.value = "saved"]
  <2>1. l \in Local /\ Knows(l)
    BY IdleType DEF Idle, Local, Knows, Steps, OnPost, OnRow, OnMark, Values
  <2> HIDE DEF l
  <2>2. Came
    BY <1>5, <2>1, ArriveTyped DEF BookmarkStart, l
  <2> QED  BY <1>5, <2>2 DEF BookmarkStart, rows
<1>6. ASSUME NEW p \in Ids, NEW v \in Values, ReactStart(h, u, p, v) PROVE TypeInv'
  <2> DEFINE l == [Idle EXCEPT !.pc = "find", !.by = u, !.post = p, !.value = v]
  <2>1. l \in Local /\ Knows(l)
    BY IdleType DEF Idle, Local, Knows, Steps, OnPost, OnRow, OnMark
  <2> HIDE DEF l
  <2>2. Came
    BY <1>6, <2>1, ArriveTyped DEF ReactStart, l
  <2> QED  BY <1>6, <2>2 DEF ReactStart, rows
<1>7. ASSUME NEW c \in Ids, EditCommentStart(h, u, c) PROVE TypeInv'
  <2> DEFINE l == [Idle EXCEPT !.pc = "editComment", !.by = u, !.id = c,
                               !.idAt = issued["comment"][c]]
  <2>1. l \in Local /\ Knows(l)
    BY IdleType DEF Tables, Idle, Local, Knows, Steps, OnPost, OnRow, OnMark
  <2> HIDE DEF l
  <2>2. Came
    BY <1>7, <2>1, ArriveTyped DEF EditCommentStart, l
  <2> QED  BY <1>7, <2>2 DEF EditCommentStart, rows
<1>8. ASSUME NEW c \in Ids, DeleteCommentStart(h, u, c) PROVE TypeInv'
  <2> DEFINE l == [Idle EXCEPT !.pc = "dropComment", !.by = u, !.id = c]
  <2>1. l \in Local /\ Knows(l)
    BY IdleType DEF Idle, Local, Knows, Steps, OnPost, OnRow, OnMark
  <2> HIDE DEF l
  <2>2. Came
    BY <1>8, <2>1, ArriveTyped DEF DeleteCommentStart, l
  <2> QED  BY <1>8, <2>2 DEF DeleteCommentStart, rows
<1> QED
  BY <1>1, <1>2, <1>3, <1>4, <1>5, <1>6, <1>7, <1>8 DEF Start

-----------------------------------------------------------------------------
(* The steps on posts and their images. *)
LEMMA PostStepTyped ==
  ASSUME TypeInv, NEW h \in Handlers,
         Edit(h) \/ DropPost(h) \/ Unlink(h) \/ Swap(h) \/ Current(h)
  PROVE  TypeInv'
<1> USE DEF TypeInv, TypeOK
<1> DEFINE l == req[h]
           Went == req' \in [Handlers -> Local] /\ HandlersKnow' /\ asked' \in Nat
<1>1. l \in Local /\ Knows(l)
  BY DEF HandlersKnow
<1> HIDE DEF l
<1>2. CASE Edit(h)
  <2>1. Went
    BY <1>2, ReturnTyped DEF Edit
  <2>2. l.post \in Ids /\ l.by \in Users
    BY <1>1, <1>2 DEF Edit, At, Knows, OnPost, l
  <2>3. post' \in [Ids -> Post \cup {None}]
    <3>1. CASE post[l.post] = None
      BY <1>2, <3>1 DEF Edit, l
    <3>2. CASE post[l.post] # None
      <4>1. post[l.post] \in Post
        BY <2>2, <3>2
      <4>2. [post[l.post] EXCEPT !.by = l.by, !.stray = PostReissued(l)] \in Post
        BY ONLY <2>2, <4>1 DEF Post, PostReissued
      <4>3. post' = [post EXCEPT ![l.post] = [@ EXCEPT !.by = l.by, !.stray = PostReissued(l)]]
        BY <1>2, <3>2 DEF Edit, l
      <4> QED  BY <2>2, <4>2, <4>3
    <3> QED  BY <3>1, <3>2
  <2> QED  BY <1>2, <2>1, <2>3 DEF Edit
<1>3. CASE DropPost(h)
  <2>1. Went
    <3>1. CASE Return(h)
      BY <3>1, ReturnTyped
    <3>2. CASE Goto(h, [l EXCEPT !.pc = "unlink"]) /\ l.img # None
      <4>1. [l EXCEPT !.pc = "unlink"] \in Local /\ Knows([l EXCEPT !.pc = "unlink"])
        BY <1>1, <1>3, <3>2 DEF DropPost, At, Local, Steps, Knows, OnPost, OnRow, OnMark, l
      <4> QED  BY <3>2, <4>1, GotoTyped
    <3> QED  BY <1>3, <3>1, <3>2 DEF DropPost, Return, l
  <2>2. /\ post' \in [Ids -> Post \cup {None}]
        /\ comment' \in [Ids -> Comment \cup {None}]
        /\ note' \in [Ids -> Note \cup {None}]
        /\ reaction' \in [Ids -> Mark \cup {None}]
        /\ bookmark' \in [Ids -> Mark \cup {None}]
    BY <1>3 DEF DropPost, Without, rows
  <2> QED  BY <1>3, <2>1, <2>2 DEF DropPost
<1>4. CASE Unlink(h)
  <2>1. Went
    BY <1>4, ReturnTyped DEF Unlink
  <2>2. files' \in [Files -> Upload \cup {None}]
    BY <1>4 DEF Unlink
  <2> QED  BY <1>4, <2>1, <2>2 DEF Unlink, rows
<1>5. CASE Swap(h)
  <2>1. l.pc = "swap" /\ l.post \in Ids /\ l.file \in Files /\ l.tries < MaxTries
    BY <1>1, <1>5 DEF Swap, At, Knows, OnPost, l
  <2>2. Went
    <3>1. CASE Return(h)
      BY <3>1, ReturnTyped
    <3>2. CASE Goto(h, [l EXCEPT !.pc = "unlink"]) /\ l.img # None
      <4>1. [l EXCEPT !.pc = "unlink"] \in Local /\ Knows([l EXCEPT !.pc = "unlink"])
        BY <1>1, <2>1, <3>2 DEF Local, Steps, Knows, OnPost, OnRow, OnMark
      <4> QED  BY <3>2, <4>1, GotoTyped
    <3>3. CASE Goto(h, [l EXCEPT !.pc = "current"])
      <4>1. [l EXCEPT !.pc = "current"] \in Local /\ Knows([l EXCEPT !.pc = "current"])
        BY <1>1, <2>1 DEF Local, Steps, Knows, OnPost, OnRow, OnMark
      <4> QED  BY <3>3, <4>1, GotoTyped
    <3> QED  BY <1>5, <3>1, <3>2, <3>3 DEF Swap, Return, l
  <2>3. post' \in [Ids -> Post \cup {None}]
    <3>1. CASE post' = post
      BY <3>1
    <3>2. CASE post[l.post] # None /\ post' = [post EXCEPT ![l.post].img = l.file]
      <4>1. post[l.post] \in Post
        BY <2>1, <3>2
      <4>2. [post[l.post] EXCEPT !.img = l.file] \in Post
        BY ONLY <2>1, <4>1 DEF Post
      <4> QED  BY <3>2, <4>2
    <3> QED  BY <1>5, <3>1, <3>2 DEF Swap, l
  <2> QED  BY <1>5, <2>2, <2>3 DEF Swap
<1>6. CASE Current(h)
  <2>1. l.pc = "current" /\ l.post \in Ids /\ l.file \in Files /\ l.tries < MaxTries
    BY <1>1, <1>6 DEF Current, At, Knows, OnPost, l
  <2>2. CASE post[l.post] = None \/ l.tries + 1 = MaxTries
    <3>1. Return(h) /\ files' = [files EXCEPT ![l.file] = None]
      BY <1>6, <2>2 DEF Current, l
    <3>2. Went
      BY <3>1, ReturnTyped
    <3> QED  BY <1>6, <3>1, <3>2 DEF Current, rows
  <2>3. CASE ~(post[l.post] = None \/ l.tries + 1 = MaxTries)
    <3>1. PICK i \in Files \cup {None} : i = post[l.post].img
      BY <2>1, <2>3 DEF Post
    <3> DEFINE m == [l EXCEPT !.pc = "swap", !.img = i, !.tries = @ + 1]
    <3>2. Goto(h, m) /\ files' = files
      BY <1>6, <2>3, <3>1 DEF Current, l
    <3>3. l.tries + 1 \in 0..MaxTries /\ l.tries + 1 < MaxTries
      <4>1. l.tries \in 0..MaxTries /\ l.tries < MaxTries /\ l.tries + 1 # MaxTries
        BY <1>1, <2>1, <2>3 DEF Local
      <4> QED  BY ONLY <4>1, OneMoreTry
    <3>4. m \in Local
      BY <1>1, <3>3 DEF Local, Steps
    <3>5. Knows(m)
      BY <1>1, <2>1, <3>3, <3>4 DEF Local, Knows, OnPost, OnRow, OnMark
    <3> HIDE DEF m
    <3>6. Went
      BY <3>2, <3>4, <3>5, GotoTyped
    <3> QED  BY <1>6, <3>2, <3>6 DEF Current, rows
  <2> QED  BY <2>2, <2>3
<1> QED
  BY <1>2, <1>3, <1>4, <1>5, <1>6

(* The steps on comments and notifications. *)
LEMMA CommentStepTyped ==
  ASSUME TypeInv, NEW h \in Handlers,
         AddComment(h) \/ Notify(h) \/ EditComment(h) \/ DropComment(h)
  PROVE  TypeInv'
<1> USE DEF TypeInv, TypeOK
<1> DEFINE l == req[h]
           Went == req' \in [Handlers -> Local] /\ HandlersKnow' /\ asked' \in Nat
<1>1. l \in Local /\ Knows(l)
  BY DEF HandlersKnow
<1> HIDE DEF l
<1>2. CASE AddComment(h)
  <2>1. l.pc = "comment" /\ l.post \in Ids /\ l.by \in Users /\ l.owner \in Users
    BY <1>1, <1>2 DEF AddComment, At, Knows, OnPost, l
  <2>2. CASE post[l.post] = None
    <3>1. Return(h) /\ UNCHANGED <<comment, issued>>
      BY <1>2, <2>2 DEF AddComment, l
    <3>2. Went
      BY <3>1, ReturnTyped
    <3> QED  BY <1>2, <3>1, <3>2 DEF AddComment
  <2>3. CASE post[l.post] # None
    <3>1. PICK c \in Ids :
            /\ comment' = [comment EXCEPT ![c] = [user |-> l.by, post |-> l.post,
                                                  by |-> l.by, stray |-> FALSE]]
            /\ Issue("comment", c)
            /\ Goto(h, IF l.owner = l.by THEN Idle
                       ELSE [l EXCEPT !.pc = "notify", !.id = c,
                                      !.idAt = issued["comment"][c] + 1])
      BY <1>2, <2>3 DEF AddComment, l
    <3> DEFINE m == [l EXCEPT !.pc = "notify", !.id = c, !.idAt = issued["comment"][c] + 1]
    <3>0. issued["comment"][c] + 1 \in Nat
      BY DEF Tables
    <3>2. m \in Local /\ Knows(m)
      BY <1>1, <2>1, <3>0 DEF Local, Steps, Knows, OnPost, OnRow, OnMark
    <3>3. Return(h) \/ Goto(h, m)
      BY <3>1 DEF Return
    <3> HIDE DEF m
    <3>4. Went
      BY <3>2, <3>3, ReturnTyped, GotoTyped
    <3>5. comment' \in [Ids -> Comment \cup {None}]
      BY <2>1, <3>1 DEF Comment
    <3>6. issued' \in [Tables -> [Ids -> Nat]]
      BY <3>1 DEF Issue, Tables
    <3> QED  BY <1>2, <3>4, <3>5, <3>6 DEF AddComment
  <2> QED  BY <2>2, <2>3
<1>3. CASE Notify(h)
  <2>1. l.post \in Ids /\ l.id \in Ids /\ l.owner \in Users
    BY <1>1, <1>3 DEF Notify, At, Knows, OnPost, OnRow, l
  <2>2. Went
    BY <1>3, ReturnTyped DEF Notify
  <2>3. note' \in [Ids -> Note \cup {None}]
    <3>1. CASE note' = note
      BY <3>1
    <3>2. CASE \E n \in Ids :
                 note' = [note EXCEPT ![n] = [to |-> l.owner, post |-> l.post,
                                              comment |-> l.id, read |-> FALSE,
                                              stray |-> PostReissued(l) \/ CommentReissued(l)]]
      BY <2>1, <3>2 DEF Note
    <3> QED  BY <1>3, <3>1, <3>2 DEF Notify, l
  <2> QED  BY <1>3, <2>2, <2>3 DEF Notify
<1>4. CASE EditComment(h)
  <2>1. l.id \in Ids /\ l.by \in Users
    BY <1>1, <1>4 DEF EditComment, At, Knows, OnRow, l
  <2>2. Went
    BY <1>4, ReturnTyped DEF EditComment
  <2>3. comment' \in [Ids -> Comment \cup {None}]
    <3>1. CASE comment[l.id] = None
      BY <1>4, <3>1 DEF EditComment, l
    <3>2. CASE comment[l.id] # None
      <4>1. comment[l.id] \in Comment
        BY <2>1, <3>2
      <4>2. [comment[l.id] EXCEPT !.by = l.by, !.stray = CommentReissued(l)] \in Comment
        BY ONLY <2>1, <4>1 DEF Comment, CommentReissued
      <4>3. comment' = [comment EXCEPT ![l.id] = [@ EXCEPT !.by = l.by,
                                                           !.stray = CommentReissued(l)]]
        BY <1>4, <3>2 DEF EditComment, l
      <4> QED  BY <2>1, <4>2, <4>3
    <3> QED  BY <3>1, <3>2
  <2> QED  BY <1>4, <2>2, <2>3 DEF EditComment
<1>5. CASE DropComment(h)
  <2>1. Went
    BY <1>5, ReturnTyped DEF DropComment
  <2>2. /\ note' \in [Ids -> Note \cup {None}]
        /\ comment' \in [Ids -> Comment \cup {None}]
    BY <1>5 DEF DropComment, Without
  <2> QED  BY <1>5, <2>1, <2>2 DEF DropComment
<1> QED
  BY <1>2, <1>3, <1>4, <1>5

(* A handler that found the row of its user's reaction. *)
LEMMA FoundTyped ==
  ASSUME NEW l \in Local, Knows(l), l.by \in Users, l.post \in Ids, l.value \in Values,
         reaction \in [Ids -> Mark \cup {None}], NEW i \in Of(reaction, l.by, l.post)
  PROVE  LET m == [l EXCEPT !.pc = "apply", !.id = i, !.had = reaction[i].value]
         IN  m \in Local /\ Knows(m)
<1>1. PICK v \in Values : v = reaction[i].value
  BY DEF Of, RowsOf, Mark
<1> DEFINE m == [l EXCEPT !.pc = "apply", !.id = i, !.had = v]
<1>2. i \in Ids
  BY DEF Of, RowsOf
<1>3. m \in Local
  BY <1>2 DEF Local, Steps
<1>4. m.pc = "apply" /\ m.by = l.by /\ m.post = l.post /\ m.value = l.value /\ m.id = i
  BY DEF Local
<1> HIDE DEF m
<1>5. Knows(m)
  BY <1>2, <1>4 DEF Knows, OnPost, OnRow, OnMark
<1> QED
  BY <1>1, <1>3, <1>5 DEF m

(* The steps on reactions and bookmarks. *)
LEMMA MarkStepTyped ==
  ASSUME TypeInv, NEW h \in Handlers,
         Find(h) \/ Insert(h) \/ Reread(h) \/ Apply(h) \/ Save(h) \/ Unsave(h)
  PROVE  TypeInv'
<1> USE DEF TypeInv, TypeOK
<1> DEFINE l == req[h]
           Went == req' \in [Handlers -> Local] /\ HandlersKnow' /\ asked' \in Nat
<1>1. l \in Local /\ Knows(l)
  BY DEF HandlersKnow
<1> HIDE DEF l
<1>2. l.post \in Ids /\ l.by \in Users /\ l.value \in Values
  BY <1>1 DEF Find, Insert, Reread, Apply, Save, Unsave, At, Knows, OnPost, OnMark, l
<1> DEFINE Found == \E i \in Of(reaction, l.by, l.post) :
                      Goto(h, [l EXCEPT !.pc = "apply", !.id = i, !.had = reaction[i].value])
<1>3. Found => Went
  <2> SUFFICES ASSUME NEW i \in Of(reaction, l.by, l.post),
                      Goto(h, [l EXCEPT !.pc = "apply", !.id = i, !.had = reaction[i].value])
               PROVE  Went
    OBVIOUS
  <2> DEFINE m == [l EXCEPT !.pc = "apply", !.id = i, !.had = reaction[i].value]
  <2>1. m \in Local /\ Knows(m)
    BY <1>1, <1>2, FoundTyped
  <2> HIDE DEF m
  <2> QED  BY <2>1, GotoTyped DEF m
<1>4. ASSUME NEW pc \in {"save", "insert", "reread"}, Goto(h, [l EXCEPT !.pc = pc]),
             pc = "reread" => l.tries < MaxTries
      PROVE  Went
  <2> DEFINE m == [l EXCEPT !.pc = pc]
  <2>1. m \in Local
    BY ONLY <1>1, <1>4 DEF Local, Steps
  <2>2. /\ m.pc = pc /\ m.by = l.by /\ m.post = l.post
        /\ m.value = l.value /\ m.tries = l.tries
    BY ONLY <1>1 DEF Local
  <2> HIDE DEF m
  <2>3. Knows(m)
    BY ONLY <1>2, <1>4, <2>2 DEF Knows, OnPost, OnRow, OnMark
  <2> QED  BY <1>4, <2>1, <2>3, GotoTyped DEF m
<1>5. CASE Find(h)
  <2>1. ASSUME NEW i \in Of(bookmark, l.by, l.post),
               Goto(h, [l EXCEPT !.pc = "unsave", !.id = i])
        PROVE  Went
    <3> DEFINE m == [l EXCEPT !.pc = "unsave", !.id = i]
    <3>1. i \in Ids
      BY DEF Of, RowsOf
    <3>2. m \in Local
      BY ONLY <1>1, <3>1 DEF Local, Steps
    <3>3. m.pc = "unsave" /\ m.by = l.by /\ m.post = l.post /\ m.value = l.value /\ m.id = i
      BY ONLY <1>1 DEF Local
    <3> HIDE DEF m
    <3>4. Knows(m)
      BY ONLY <1>2, <3>1, <3>3 DEF Knows, OnPost, OnRow, OnMark
    <3> QED  BY <2>1, <3>2, <3>4, GotoTyped DEF m
  <2>2. \/ \E i \in Of(bookmark, l.by, l.post) :
             Goto(h, [l EXCEPT !.pc = "unsave", !.id = i])
        \/ Goto(h, [l EXCEPT !.pc = "save"])
        \/ Goto(h, [l EXCEPT !.pc = "insert"])
        \/ Found
    BY <1>5 DEF Find, l
  <2>3. Went
    BY <1>3, <1>4, <2>1, <2>2
  <2> QED  BY <1>5, <2>3 DEF Find, rows
<1>6. CASE Insert(h)
  <2>1. CASE Return(h) /\ UNCHANGED reaction
    <3>1. Went
      BY <2>1, ReturnTyped
    <3> QED  BY <1>6, <2>1, <3>1 DEF Insert
  <2>2. CASE l.tries < MaxTries /\ Goto(h, [l EXCEPT !.pc = "reread"]) /\ UNCHANGED reaction
    <3>1. Went
      BY <1>4, <2>2
    <3> QED  BY <1>6, <2>2, <3>1 DEF Insert
  <2>3. CASE Return(h) /\ \E i \in Ids : NewMark(i, l, reaction)
    <3>1. Went
      BY <2>3, ReturnTyped
    <3>2. reaction' \in [Ids -> Mark \cup {None}]
      BY <1>1, <1>2, <2>3 DEF NewMark, Mark
    <3> QED  BY <1>6, <3>1, <3>2 DEF Insert
  <2> QED  BY <1>6, <2>1, <2>2, <2>3 DEF Insert, l
<1>7. CASE Reread(h)
  <2>1. CASE Goto(h, [l EXCEPT !.pc = "insert", !.tries = @ + 1])
    <3> DEFINE m == [l EXCEPT !.pc = "insert", !.tries = @ + 1]
    <3>1. l.tries \in 0..MaxTries /\ l.tries < MaxTries
      BY <1>1, <1>7 DEF Reread, At, Knows, Local, l
    <3>2. l.tries + 1 \in 0..MaxTries
      BY ONLY <3>1, OneMoreTry
    <3>3. m \in Local
      BY ONLY <1>1, <3>2 DEF Local, Steps
    <3>4. m.pc = "insert" /\ m.by = l.by /\ m.post = l.post /\ m.value = l.value
      BY ONLY <1>1 DEF Local
    <3> HIDE DEF m
    <3>5. Knows(m)
      BY ONLY <1>2, <3>4 DEF Knows, OnPost, OnRow, OnMark
    <3> QED  BY <1>7, <2>1, <3>3, <3>5, GotoTyped DEF m, Reread, rows
  <2>2. CASE Found
    BY <1>3, <1>7, <2>2 DEF Reread, rows
  <2> QED  BY <1>7, <2>1, <2>2 DEF Reread, l
<1>8. CASE Apply(h)
  <2>1. l.id \in Ids
    BY <1>1, <1>8 DEF Apply, At, Knows, OnRow, l
  <2>2. Went
    BY <1>8, ReturnTyped DEF Apply
  <2>3. reaction' \in [Ids -> Mark \cup {None}]
    BY <1>2, <1>8, <2>1 DEF Apply, Mark, l
  <2> QED  BY <1>8, <2>2, <2>3 DEF Apply
<1>9. CASE Save(h)
  <2>1. Went
    BY <1>9, ReturnTyped DEF Save
  <2>2. bookmark' \in [Ids -> Mark \cup {None}]
    BY <1>2, <1>9 DEF Save, NewMark, Mark, l
  <2> QED  BY <1>9, <2>1, <2>2 DEF Save
<1>10. CASE Unsave(h)
  <2>1. Went
    BY <1>10, ReturnTyped DEF Unsave
  <2>2. bookmark' \in [Ids -> Mark \cup {None}]
    BY <1>10 DEF Unsave
  <2> QED  BY <1>10, <2>1, <2>2 DEF Unsave
<1> QED
  BY <1>5, <1>6, <1>7, <1>8, <1>9, <1>10

LEMMA NextTyped == TypeInv /\ [Next]_vars => TypeInv'
<1> SUFFICES ASSUME TypeInv, [Next]_vars PROVE TypeInv'
    OBVIOUS
<1>1. ASSUME NEW h \in Handlers, Step(h) PROVE TypeInv'
  BY <1>1, PostStepTyped, CommentStepTyped, MarkStepTyped DEF Step
<1>2. ASSUME NEW h \in Handlers, NEW u \in Users, Start(h, u) PROVE TypeInv'
  BY <1>2, StartTyped
<1>3. ASSUME NEW u \in Users, AddPost(u) PROVE TypeInv'
  <2>1. PICK p \in Ids :
          /\ post' = [post EXCEPT ![p] = [owner |-> u, by |-> u, img |-> None, stray |-> FALSE]]
          /\ Issue("post", p)
    BY <1>3 DEF AddPost
  <2>2. post' \in [Ids -> Post \cup {None}]
    BY <2>1 DEF TypeInv, TypeOK, Post
  <2>3. issued' \in [Tables -> [Ids -> Nat]]
    BY <2>1 DEF TypeInv, TypeOK, Issue, Tables
  <2>4. asked' \in Nat
    BY <1>3 DEF AddPost, TypeInv, TypeOK
  <2> QED
    BY <1>3, <2>2, <2>3, <2>4 DEF AddPost, TypeInv, TypeOK, HandlersKnow
<1>4. ASSUME NEW u \in Users, NEW S, MarkRead(u, S) PROVE TypeInv'
  <2>1. note' \in [Ids -> Note \cup {None}]
    BY <1>4 DEF MarkRead, TypeInv, TypeOK, RowsOf, Note
  <2>2. asked' \in Nat
    BY <1>4 DEF MarkRead, TypeInv, TypeOK
  <2> QED
    BY <1>4, <2>1, <2>2 DEF MarkRead, TypeInv, TypeOK, HandlersKnow
<1>5. CASE UNCHANGED vars
  BY <1>5 DEF vars, rows, TypeInv, TypeOK, HandlersKnow
<1> QED
  BY <1>1, <1>2, <1>3, <1>4, <1>5 DEF Next

LEMMA TypedAlways == Spec => []TypeInv
BY InitTyped, NextTyped, PTL DEF Spec

(* Posts.tla, TypeOK: every reachable state of the tables, the files and   *)
(* the handlers in flight is well-typed.                                   *)
THEOREM TypeCorrect == Spec => []TypeOK
<1>1. TypeInv => TypeOK
  BY DEF TypeInv
<1> QED
  BY <1>1, TypedAlways, PTL

-----------------------------------------------------------------------------
(* One reaction and one bookmark. *)

(* A table after a step has no row but those it had, of the same users and *)
(* posts, or one more: of a user who had none on that post, which exists.  *)
Kept(t, u) ==
  \A i \in RowsOf(u) :
    i \in RowsOf(t) /\ u[i].user = t[i].user /\ u[i].post = t[i].post
Added(t, u) ==
  \E i \in Ids, m \in Mark :
    /\ post[m.post] # None
    /\ Of(t, m.user, m.post) = {}
    /\ u = [t EXCEPT ![i] = m]
KeptOrAdded(t, u) == Kept(t, u) \/ Added(t, u)

LEMMA KeptIfSame == ASSUME NEW t PROVE Kept(t, t)
BY DEF Kept, RowsOf

LEMMA KeptWithout ==
  ASSUME NEW t \in [Ids -> Mark \cup {None}], NEW S
  PROVE  Kept(t, Without(t, S))
BY DEF Kept, RowsOf, Without

LEMMA KeptErased ==
  ASSUME NEW t \in [Ids -> Mark \cup {None}], NEW i \in Ids
  PROVE  Kept(t, [t EXCEPT ![i] = None])
BY DEF Kept, RowsOf

LEMMA MarkSteps ==
  TypeInv /\ [Next]_vars =>
    KeptOrAdded(reaction, reaction') /\ KeptOrAdded(bookmark, bookmark')
<1> SUFFICES ASSUME TypeInv, [Next]_vars
             PROVE  KeptOrAdded(reaction, reaction') /\ KeptOrAdded(bookmark, bookmark')
    OBVIOUS
<1> USE KeptIfSame DEF KeptOrAdded
<1>1. /\ reaction \in [Ids -> Mark \cup {None}]
      /\ bookmark \in [Ids -> Mark \cup {None}]
      /\ HandlersKnow
  BY DEF TypeInv, TypeOK
<1>2. ASSUME NEW h \in Handlers, DropPost(h)
      PROVE  Kept(reaction, reaction') /\ Kept(bookmark, bookmark')
  BY <1>1, <1>2, KeptWithout DEF DropPost, rows
<1>3. ASSUME NEW h \in Handlers, Insert(h)
      PROVE  KeptOrAdded(reaction, reaction') /\ bookmark' = bookmark
  <2> DEFINE l == req[h]
             m == [user |-> l.by, post |-> l.post, value |-> l.value]
  <2>1. l.by \in Users /\ l.post \in Ids /\ l.value \in Values
    BY <1>1, <1>3 DEF Insert, At, HandlersKnow, Knows, OnPost, OnMark
  <2>2. m \in Mark
    BY <2>1 DEF Mark
  <2>3. CASE UNCHANGED reaction
    BY <1>3, <2>3 DEF Insert
  <2>4. CASE ~Refused(reaction, l) /\ \E i \in Ids : NewMark(i, l, reaction)
    <3>1. Added(reaction, reaction')
      BY <2>2, <2>4 DEF Refused, NewMark, Added
    <3> QED  BY <1>3, <3>1 DEF Insert
  <2>5. CASE ~(l.tries < MaxTries) /\ ~(l.tries = MaxTries)
    <3>1. l.tries \in 0..MaxTries
      BY DEF TypeInv, TypeOK, Local
    <3> QED  BY <2>5, <3>1, PostsAssumption
  <2> QED  BY <1>3, <2>3, <2>4, <2>5 DEF Insert
<1>4. ASSUME NEW h \in Handlers, Apply(h)
      PROVE  Kept(reaction, reaction') /\ bookmark' = bookmark
  <2>1. req[h].id \in Ids
    BY <1>1, <1>4 DEF Apply, At, HandlersKnow, Knows, OnRow
  <2>2. CASE reaction' = [reaction EXCEPT ![req[h].id] = None]
    <3>1. Kept(reaction, [reaction EXCEPT ![req[h].id] = None])
      BY <1>1, <2>1, KeptErased
    <3> QED  BY <1>4, <2>2, <3>1 DEF Apply
  <2>3. CASE /\ reaction[req[h].id] # None
             /\ reaction' = [reaction EXCEPT ![req[h].id].value = req[h].value]
    BY <1>1, <1>4, <2>1, <2>3 DEF Apply, Kept, RowsOf, Mark
  <2> QED  BY <1>4, <2>2, <2>3 DEF Apply
<1>5. ASSUME NEW h \in Handlers, Save(h)
      PROVE  KeptOrAdded(bookmark, bookmark') /\ reaction' = reaction
  <2> DEFINE l == req[h]
             m == [user |-> l.by, post |-> l.post, value |-> l.value]
  <2>1. l.by \in Users /\ l.post \in Ids /\ l.value \in Values
    BY <1>1, <1>5 DEF Save, At, HandlersKnow, Knows, OnPost, OnMark
  <2>2. m \in Mark
    BY <2>1 DEF Mark
  <2>3. CASE ~Refused(bookmark, l) /\ \E i \in Ids : NewMark(i, l, bookmark)
    <3>1. Added(bookmark, bookmark')
      BY <2>2, <2>3 DEF Refused, NewMark, Added
    <3> QED  BY <1>5, <3>1 DEF Save
  <2> QED  BY <1>5, <2>3 DEF Save
<1>6. ASSUME NEW h \in Handlers, Unsave(h)
      PROVE  Kept(bookmark, bookmark') /\ reaction' = reaction
  <2>1. req[h].id \in Ids
    BY <1>1, <1>6 DEF Unsave, At, HandlersKnow, Knows, OnRow
  <2> QED  BY <1>1, <1>6, <2>1, KeptErased DEF Unsave
<1>7. ASSUME NEW h \in Handlers, Step(h)
      PROVE  KeptOrAdded(reaction, reaction') /\ KeptOrAdded(bookmark, bookmark')
  <2>1. CASE DropPost(h) \/ Insert(h) \/ Apply(h) \/ Save(h) \/ Unsave(h)
    BY <1>2, <1>3, <1>4, <1>5, <1>6, <2>1
  <2>2. CASE Edit(h) \/ Unlink(h) \/ Swap(h) \/ Current(h) \/ AddComment(h) \/ Notify(h)
    BY <2>2 DEF Edit, Unlink, Swap, Current, AddComment, Notify, rows
  <2>3. CASE EditComment(h) \/ DropComment(h) \/ Find(h) \/ Reread(h)
    BY <2>3 DEF EditComment, DropComment, Find, Reread, rows
  <2> QED  BY <1>7, <2>1, <2>2, <2>3 DEF Step
<1>8. ASSUME NEW h \in Handlers, NEW u \in Users, Start(h, u)
      PROVE  reaction' = reaction /\ bookmark' = bookmark
  BY <1>8 DEF Start, EditStart, DeleteStart, UploadStart, CommentStart, BookmarkStart,
              ReactStart, EditCommentStart, DeleteCommentStart, rows
<1>9. ASSUME NEW u \in Users, AddPost(u) \/ \E S \in {{n} : n \in Ids} \cup {Ids} : MarkRead(u, S)
      PROVE  reaction' = reaction /\ bookmark' = bookmark
  BY <1>9 DEF AddPost, MarkRead
<1> QED
  BY <1>7, <1>8, <1>9 DEF Next, vars, rows

(* The rows of a table are each the only one of their user and post. *)
Single(t) ==
  \A i, j \in RowsOf(t) : t[i].user = t[j].user /\ t[i].post = t[j].post => i = j

LEMMA SingleStep ==
  ASSUME NEW t \in [Ids -> Mark \cup {None}], NEW u, Single(t), KeptOrAdded(t, u)
  PROVE  Single(u)
<1>1. CASE Kept(t, u)
  BY <1>1 DEF Kept, Single
<1>2. CASE Added(t, u)
  <2>1. PICK i \in Ids, m \in Mark :
          Of(t, m.user, m.post) = {} /\ u = [t EXCEPT ![i] = m]
    BY <1>2 DEF Added
  <2>2. \A j \in RowsOf(t) : ~(t[j].user = m.user /\ t[j].post = m.post)
    BY <2>1 DEF Of
  <2> QED  BY <2>1, <2>2 DEF Single, RowsOf
<1> QED
  BY <1>1, <1>2 DEF KeptOrAdded

LEMMA SingleIsOne ==
  ASSUME NEW t, Single(t), NEW u, NEW p
  PROVE  Cardinality(Of(t, u, p)) <= 1
<1>1. CASE Of(t, u, p) = {}
  BY <1>1, FS_EmptySet
<1>2. CASE Of(t, u, p) # {}
  <2>1. PICK i : i \in Of(t, u, p)
    BY <1>2
  <2>2. Of(t, u, p) = {i}
    BY <2>1 DEF Of, Single
  <2>3. Cardinality({i}) = 1
    BY FS_Singleton
  <2> QED  BY <2>2, <2>3
<1> QED
  BY <1>1, <1>2

(* createTables.sql:88-103: whatever requests race, a user has at most one *)
(* reaction to a post and at most one bookmark of it.                      *)
THEOREM OneOfEach == Spec => []OncePerPost
<1> DEFINE Inv == Single(reaction) /\ Single(bookmark)
<1>1. Init => Inv
  BY DEF Init, Empty, Single, RowsOf
<1>2. TypeInv /\ Inv /\ [Next]_vars => Inv'
  <2> SUFFICES ASSUME TypeInv, Inv, [Next]_vars PROVE Inv'
      OBVIOUS
  <2>1. KeptOrAdded(reaction, reaction') /\ KeptOrAdded(bookmark, bookmark')
    BY MarkSteps
  <2>2. Single(reaction')
    BY <2>1, SingleStep DEF TypeInv, TypeOK
  <2>3. Single(bookmark')
    BY <2>1, SingleStep DEF TypeInv, TypeOK
  <2> QED  BY <2>2, <2>3 DEF Single, RowsOf
<1>3. Inv => OncePerPost
  BY SingleIsOne DEF OncePerPost
<1> QED
  BY <1>1, <1>2, <1>3, TypedAlways, PTL DEF Spec

-----------------------------------------------------------------------------
(* Rows refer to rows. *)

OnPosts(t) == \A i \in RowsOf(t) : post[t[i].post] # None
NotesOnComments == \A n \in RowsOf(note) : comment[note[n].comment] # None

LEMMA DanglesByParts ==
  ASSUME TypeInv
  PROVE  NothingDangles <=>
           /\ OnPosts(comment) /\ OnPosts(note) /\ OnPosts(reaction) /\ OnPosts(bookmark)
           /\ NotesOnComments
<1>1. (\A i \in Ids : \A table \in {comment, note, reaction, bookmark} :
         table[i] # None => post[table[i].post] # None)
      <=> OnPosts(comment) /\ OnPosts(note) /\ OnPosts(reaction) /\ OnPosts(bookmark)
  BY DEF OnPosts, RowsOf
<1> QED
  BY <1>1 DEF NothingDangles, NotesOnComments

(* No step but the transaction of a deletion takes a post away. *)
LEMMA PostsStay ==
  ASSUME TypeInv, [Next]_vars, \A h \in Handlers : ~DropPost(h), NEW p \in Ids,
         post[p] # None
  PROVE  post'[p] # None
<1>1. post \in [Ids -> Post \cup {None}] /\ HandlersKnow
  BY DEF TypeInv, TypeOK
<1>2. ASSUME NEW h \in Handlers, Edit(h) PROVE post'[p] # None
  <2>1. req[h].post \in Ids /\ req[h].by \in Users
    BY <1>1, <1>2 DEF Edit, At, HandlersKnow, Knows, OnPost
  <2>2. post[p] \in Post
    BY <1>1
  <2> DEFINE r == [post[p] EXCEPT !.by = req[h].by, !.stray = PostReissued(req[h])]
  <2>3. r \in Post
    BY <2>1, <2>2 DEF Post, PostReissued
  <2>4. post'[p] \in {post[p], r}
    BY <1>1, <1>2, <2>1 DEF Edit
  <2> QED  BY <2>2, <2>3, <2>4, NoneIsNoRow
<1>3. ASSUME NEW h \in Handlers, Swap(h) PROVE post'[p] # None
  <2>1. req[h].post \in Ids /\ req[h].file \in Files
    BY <1>1, <1>3 DEF Swap, At, HandlersKnow, Knows, OnPost
  <2>2. post[p] \in Post
    BY <1>1
  <2>3. [post[p] EXCEPT !.img = req[h].file] \in Post
    BY <2>1, <2>2 DEF Post
  <2>4. post'[p] \in {post[p], [post[p] EXCEPT !.img = req[h].file]}
    BY <1>1, <1>3, <2>1 DEF Swap
  <2> QED  BY <2>2, <2>3, <2>4, NoneIsNoRow
<1>4. ASSUME NEW u \in Users, AddPost(u) PROVE post'[p] # None
  BY <1>1, <1>4 DEF AddPost, NextRow
<1>5. ASSUME NEW h \in Handlers, Step(h) PROVE post'[p] # None
  <2>1. CASE Edit(h) \/ Swap(h)
    BY <1>2, <1>3, <2>1
  <2>2. CASE Unlink(h) \/ Current(h) \/ AddComment(h) \/ Notify(h) \/ EditComment(h)
    BY <2>2 DEF Unlink, Current, AddComment, Notify, EditComment, rows
  <2>3. CASE DropComment(h) \/ Find(h) \/ Insert(h) \/ Reread(h) \/ Apply(h)
    BY <2>3 DEF DropComment, Find, Insert, Reread, Apply, rows
  <2>4. CASE Save(h) \/ Unsave(h)
    BY <2>4 DEF Save, Unsave
  <2> QED  BY <1>5, <2>1, <2>2, <2>3, <2>4 DEF Step
<1>6. ASSUME NEW h \in Handlers, NEW u \in Users, Start(h, u) PROVE post' = post
  BY <1>6 DEF Start, EditStart, DeleteStart, UploadStart, CommentStart, BookmarkStart,
              ReactStart, EditCommentStart, DeleteCommentStart, rows
<1>7. ASSUME NEW u \in Users, NEW S, MarkRead(u, S) PROVE post' = post
  BY <1>7 DEF MarkRead
<1> QED
  BY <1>4, <1>5, <1>6, <1>7 DEF Next, vars, rows

(* The deletion of a post takes all that is on it, or nothing. *)
LEMMA DropLeavesNothing ==
  ASSUME TypeInv, NothingDangles, NEW h \in Handlers, DropPost(h)
  PROVE  NothingDangles'
<1>1. CASE UNCHANGED rows
  BY <1>1 DEF NothingDangles, rows, RowsOf
<1> DEFINE p == req[h].post
<1>2. CASE /\ \A n \in RowsOf(note) \ On(note, p) : note[n].comment \notin On(comment, p)
           /\ note' = Without(note, On(note, p))
           /\ comment' = Without(comment, On(comment, p))
           /\ reaction' = Without(reaction, On(reaction, p))
           /\ bookmark' = Without(bookmark, On(bookmark, p))
           /\ post' = [post EXCEPT ![p] = None]
  <2>1. p \in Ids
    BY DEF TypeInv, HandlersKnow, Knows, OnPost, DropPost, At
  <2>2. ASSUME NEW t, NEW u, u = Without(t, On(t, p)), OnPosts(t),
               NEW i \in Ids, u[i] # None, t[i].post \in Ids
        PROVE  u[i] = t[i] /\ t[i].post # p /\ post'[t[i].post] # None
    BY <1>2, <2>1, <2>2 DEF Without, On, OnPosts, RowsOf, TypeInv, TypeOK
  <2>3. OnPosts(comment) /\ OnPosts(note) /\ OnPosts(reaction) /\ OnPosts(bookmark)
        /\ NotesOnComments
    BY DanglesByParts
  <2>4. \A i \in Ids :
          /\ comment[i] # None => comment[i].post \in Ids
          /\ note[i] # None => note[i].post \in Ids /\ note[i].comment \in Ids
          /\ reaction[i] # None => reaction[i].post \in Ids
          /\ bookmark[i] # None => bookmark[i].post \in Ids
    BY DEF TypeInv, TypeOK, Comment, Note, Mark
  <2>5. \A i \in Ids :
          /\ comment'[i] # None => comment[i] # None
          /\ note'[i] # None => note[i] # None
          /\ reaction'[i] # None => reaction[i] # None
          /\ bookmark'[i] # None => bookmark[i] # None
    BY <1>2 DEF Without
  <2>6. \A i \in Ids :
          /\ comment'[i] # None => post'[comment'[i].post] # None
          /\ note'[i] # None => post'[note'[i].post] # None
          /\ reaction'[i] # None => post'[reaction'[i].post] # None
          /\ bookmark'[i] # None => post'[bookmark'[i].post] # None
    BY <1>2, <2>2, <2>3, <2>4, <2>5
  <2>7. ASSUME NEW n \in Ids, note'[n] # None PROVE comment'[note'[n].comment] # None
    <3>1. n \in RowsOf(note) \ On(note, p) /\ note'[n] = note[n]
      BY <1>2, <2>7 DEF Without, RowsOf
    <3>2. comment[note[n].comment] # None /\ note[n].comment \notin On(comment, p)
      BY <1>2, <2>3, <3>1 DEF NotesOnComments
    <3>3. note[n].comment \in Ids
      BY <2>4, <3>1 DEF RowsOf
    <3> QED  BY <1>2, <3>1, <3>2, <3>3 DEF Without
  <2> QED  BY <2>6, <2>7 DEF NothingDangles, RowsOf
<1> QED
  BY <1>1, <1>2 DEF DropPost

(* What the steps that keep every post do to comments and notifications. *)
LEMMA CommentsAndNotes ==
  ASSUME TypeInv, NothingDangles, [Next]_vars, \A h \in Handlers : ~DropPost(h)
  PROVE  /\ \A c \in Ids : comment'[c] # None => post[comment'[c].post] # None
         /\ \A n \in Ids : note'[n] # None =>
              post[note'[n].post] # None /\ comment'[note'[n].comment] # None
<1> DEFINE Right == /\ \A c \in Ids : comment'[c] # None => post[comment'[c].post] # None
                    /\ \A n \in Ids : note'[n] # None =>
                         post[note'[n].post] # None /\ comment'[note'[n].comment] # None
<1>1. /\ comment \in [Ids -> Comment \cup {None}]
      /\ note \in [Ids -> Note \cup {None}]
      /\ HandlersKnow
  BY DEF TypeInv, TypeOK
<1>2. /\ \A c \in Ids : comment[c] # None => post[comment[c].post] # None
      /\ \A n \in Ids : note[n] # None =>
           post[note[n].post] # None /\ comment[note[n].comment] # None
  BY DanglesByParts DEF OnPosts, NotesOnComments, RowsOf
<1>3. CASE comment' = comment /\ note' = note
  BY <1>2, <1>3
<1>4. ASSUME NEW h \in Handlers, AddComment(h) PROVE Right
  <2> DEFINE l == req[h]
             r == [user |-> l.by, post |-> l.post, by |-> l.by, stray |-> FALSE]
  <2>1. l.by \in Users /\ l.post \in Ids
    BY <1>1, <1>4 DEF AddComment, At, HandlersKnow, Knows, OnPost
  <2>2. CASE comment' = comment
    BY <1>2, <1>4, <2>2 DEF AddComment
  <2>3. CASE post[l.post] # None /\ \E c \in Ids : comment' = [comment EXCEPT ![c] = r]
    <3>0. r \in Comment /\ r.post = l.post
      BY <2>1 DEF Comment
    <3>1. r # None /\ r.post = l.post
      BY <3>0, NoneIsNoRow
    <3> HIDE DEF r
    <3>2. PICK c \in Ids : comment' = [comment EXCEPT ![c] = r]
      BY <2>3
    <3>3. \A d \in Ids : comment'[d] = IF d = c THEN r ELSE comment[d]
      BY <1>1, <3>2
    <3>4. \A d \in Ids : comment'[d] # None => post[comment'[d].post] # None
      BY <1>2, <2>3, <3>1, <3>3
    <3>5. \A n \in Ids : note[n] # None => note[n].comment \in Ids
      BY <1>1 DEF Note
    <3>6. note' = note
      BY <1>4 DEF AddComment
    <3> QED  BY <1>2, <3>1, <3>3, <3>4, <3>5, <3>6
  <2> QED  BY <1>4, <2>2, <2>3 DEF AddComment
<1>5. ASSUME NEW h \in Handlers, Notify(h) PROVE Right
  BY <1>1, <1>2, <1>5 DEF Notify
<1>6. ASSUME NEW h \in Handlers, EditComment(h) PROVE Right
  <2> DEFINE c == req[h].id
             r == [comment[c] EXCEPT !.by = req[h].by, !.stray = CommentReissued(req[h])]
  <2>1. c \in Ids /\ req[h].by \in Users
    BY <1>1, <1>6 DEF EditComment, At, HandlersKnow, Knows, OnRow
  <2>2. CASE comment[c] = None
    BY <1>2, <1>6, <2>2 DEF EditComment
  <2>3. CASE comment[c] # None
    <3>1. r \in Comment /\ r # None /\ r.post = comment[c].post
      BY <1>1, <2>1, <2>3, NoneIsNoRow DEF Comment, CommentReissued
    <3>2. comment' = [comment EXCEPT ![c] = r]
      BY <1>6, <2>3 DEF EditComment
    <3>3. \A d \in Ids : comment'[d] # None => post[comment'[d].post] # None
      BY <1>1, <1>2, <2>1, <2>3, <3>1, <3>2
    <3>4. \A d \in Ids : comment[d] # None => comment'[d] # None
      BY <1>1, <2>1, <3>1, <3>2
    <3>5. \A n \in Ids : note[n] # None => note[n].comment \in Ids
      BY <1>1 DEF Note
    <3> QED  BY <1>2, <1>6, <3>3, <3>4, <3>5 DEF EditComment
  <2> QED  BY <2>2, <2>3
<1>7. ASSUME NEW h \in Handlers, DropComment(h) PROVE Right
  <2> DEFINE c == req[h].id
  <2>1. /\ note' = Without(note, {n \in RowsOf(note) : note[n].comment = c})
        /\ comment' = [comment EXCEPT ![c] = None]
    BY <1>7 DEF DropComment
  <2>2. \A n \in Ids : note'[n] # None => note'[n] = note[n] /\ note[n].comment # c
    BY <2>1 DEF Without, RowsOf
  <2>3. \A d \in Ids : comment'[d] # None => comment'[d] = comment[d]
    BY <1>1, <2>1
  <2>4. \A d \in Ids \ {c} : comment'[d] = comment[d]
    BY <1>1, <2>1
  <2>5. \A n \in Ids : note[n] # None => note[n].comment \in Ids
    BY <1>1 DEF Note
  <2> QED  BY <1>2, <2>2, <2>3, <2>4, <2>5
<1>8. ASSUME NEW h \in Handlers, Step(h) PROVE Right
  <2>1. CASE Edit(h) \/ Unlink(h) \/ Swap(h) \/ Current(h) \/ Find(h)
    <3>1. comment' = comment /\ note' = note
      BY <2>1 DEF Edit, Unlink, Swap, Current, Find, rows
    <3> QED  BY <1>3, <3>1
  <2>2. CASE Insert(h) \/ Reread(h) \/ Apply(h) \/ Save(h) \/ Unsave(h)
    <3>1. comment' = comment /\ note' = note
      BY <2>2 DEF Insert, Reread, Apply, Save, Unsave, rows
    <3> QED  BY <1>3, <3>1
  <2> HIDE DEF Right
  <2> QED  BY <1>4, <1>5, <1>6, <1>7, <1>8, <2>1, <2>2 DEF Step
<1>9. ASSUME NEW h \in Handlers, NEW u \in Users, Start(h, u) PROVE Right
  <2>1. UNCHANGED rows
    BY <1>9 DEF Start, EditStart, DeleteStart, UploadStart, CommentStart, BookmarkStart,
                ReactStart, EditCommentStart, DeleteCommentStart
  <2> QED  BY <1>3, <2>1 DEF rows
<1>10. ASSUME NEW u \in Users, AddPost(u) PROVE Right
  BY <1>3, <1>10 DEF AddPost
<1>11. ASSUME NEW u \in Users, NEW S, MarkRead(u, S) PROVE Right
  <2>1. \A n \in Ids :
          note'[n] # None =>
            /\ note[n] # None
            /\ note'[n].post = note[n].post
            /\ note'[n].comment = note[n].comment
    BY <1>1, <1>11 DEF MarkRead, RowsOf, Note
  <2> QED  BY <1>2, <1>11, <2>1 DEF MarkRead
<1> QED
  BY <1>3, <1>8, <1>9, <1>10, <1>11 DEF Next, vars, rows

(* handlers.go:2481-2495: no comment, notification, reaction or bookmark   *)
(* is ever left on a post that is not there, whatever was looked up before *)
(* the post was deleted.                                                   *)
THEOREM NothingEverDangles == Spec => []NothingDangles
<1>1. Init => NothingDangles
  BY DEF Init, Empty, NothingDangles, RowsOf
<1>2. TypeInv /\ NothingDangles /\ [Next]_vars => NothingDangles'
  <2> SUFFICES ASSUME TypeInv, NothingDangles, [Next]_vars PROVE NothingDangles'
      OBVIOUS
  <2>1. ASSUME NEW h \in Handlers, DropPost(h) PROVE NothingDangles'
    BY <2>1, DropLeavesNothing
  <2>2. CASE \A h \in Handlers : ~DropPost(h)
    <3>1. \A p \in Ids : post[p] # None => post'[p] # None
      BY <2>2, PostsStay
    <3>2. TypeInv'
      BY NextTyped
    <3>3. \A i \in Ids : comment'[i] # None => post'[comment'[i].post] # None
      BY <2>2, <3>1, <3>2, CommentsAndNotes DEF TypeInv, TypeOK, Comment
    <3>4. \A i \in Ids : note'[i] # None => post'[note'[i].post] # None
      BY <2>2, <3>1, <3>2, CommentsAndNotes DEF TypeInv, TypeOK, Note
    <3>5. ASSUME NEW t \in [Ids -> Mark \cup {None}], NEW u, KeptOrAdded(t, u), OnPosts(t),
                 NEW i \in Ids, u[i] # None
          PROVE  post'[u[i].post] # None
      <4>1. CASE Kept(t, u)
        <5>1. t[i] \in Mark /\ u[i].post = t[i].post /\ post[t[i].post] # None
          BY <3>5, <4>1 DEF Kept, OnPosts, RowsOf
        <5> QED  BY <3>1, <5>1 DEF Mark
      <4>2. CASE Added(t, u)
        <5>1. PICK j \in Ids, m \in Mark : post[m.post] # None /\ u = [t EXCEPT ![j] = m]
          BY <4>2 DEF Added
        <5>2. u[i] \in Mark /\ post[u[i].post] # None
          BY <3>5, <5>1 DEF OnPosts, RowsOf
        <5> QED  BY <3>1, <5>2 DEF Mark
      <4> QED  BY <3>5, <4>1, <4>2 DEF KeptOrAdded
    <3>6. OnPosts(reaction) /\ OnPosts(bookmark)
      BY DanglesByParts
    <3>7. /\ \A i \in Ids : reaction'[i] # None => post'[reaction'[i].post] # None
          /\ \A i \in Ids : bookmark'[i] # None => post'[bookmark'[i].post] # None
      BY <3>5, <3>6, MarkSteps DEF TypeInv, TypeOK
    <3>8. \A n \in Ids : note'[n] # None => comment'[note'[n].comment] # None
      BY <2>2, CommentsAndNotes
    <3> QED  BY <3>3, <3>4, <3>7, <3>8 DEF NothingDangles, RowsOf
  <2> QED  BY <2>1, <2>2
<1> QED
  BY <1>1, <1>2, TypedAlways, PTL DEF Spec

-----------------------------------------------------------------------------
(* What the handlers looked up: the proof, by an invariant that says what  *)
(* each of them still knows of a row whose id has not been given out again *)
(* since it looked.                                                        *)

(* What the handler at l looked up is so, if the row is still there and is *)
(* the one it looked up.                                                   *)
Knew(l) ==
  /\ l.pc \in {"edit", "comment", "notify"} => l.postAt <= issued["post"][l.post]
  /\ l.pc \in {"editComment", "notify"} => l.idAt <= issued["comment"][l.id]
  /\ l.pc = "edit" /\ post[l.post] # None /\ ~PostReissued(l) => post[l.post].owner = l.by
  /\ l.pc \in {"comment", "notify"} /\ post[l.post] # None /\ ~PostReissued(l) =>
       post[l.post].owner = l.owner
  /\ l.pc = "notify" => l.owner # l.by
  /\ l.pc = "notify" /\ comment[l.id] # None /\ ~CommentReissued(l) =>
       comment[l.id].user = l.by /\ comment[l.id].post = l.post
  /\ l.pc = "editComment" /\ comment[l.id] # None /\ ~CommentReissued(l) =>
       comment[l.id].user = l.by

LookInv == LookupsHold /\ \A h \in Handlers : Knew(req[h])

(* What a step may do to the row p of posts, c of comments, n of           *)
(* notifications, and to the place of a handler.                           *)
PostStep(p) ==
  \/ /\ post[p] # None
     /\ post'[p].owner = post[p].owner
     /\ \/ post'[p].by = post[p].by /\ (post[p].stray => post'[p].stray)
        \/ \E h \in Handlers : /\ req[h].pc = "edit" /\ req[h].post = p
                               /\ post'[p].by = req[h].by
                               /\ PostReissued(req[h]) => post'[p].stray
  \/ /\ post[p] = None
     /\ issued'["post"][p] = issued["post"][p] + 1
     /\ post'[p].by = post'[p].owner
CommentStep(c) ==
  \/ /\ comment[c] # None
     /\ comment'[c].user = comment[c].user
     /\ comment'[c].post = comment[c].post
     /\ \/ comment'[c].by = comment[c].by /\ (comment[c].stray => comment'[c].stray)
        \/ \E h \in Handlers : /\ req[h].pc = "editComment" /\ req[h].id = c
                               /\ comment'[c].by = req[h].by
                               /\ CommentReissued(req[h]) => comment'[c].stray
  \/ /\ comment[c] = None
     /\ issued'["comment"][c] = issued["comment"][c] + 1
     /\ comment'[c].by = comment'[c].user
NoteStep(n) ==
  \/ /\ note[n] # None
     /\ note'[n].to = note[n].to
     /\ note'[n].post = note[n].post
     /\ note'[n].comment = note[n].comment
     /\ note[n].stray => note'[n].stray
  \/ /\ post' = post /\ comment' = comment
     /\ \E h \in Handlers : /\ req[h].pc = "notify"
                            /\ post[req[h].post] # None /\ comment[req[h].id] # None
                            /\ note'[n].to = req[h].owner
                            /\ note'[n].post = req[h].post
                            /\ note'[n].comment = req[h].id
                            /\ PostReissued(req[h]) \/ CommentReissued(req[h]) =>
                                 note'[n].stray
Counts == \A t \in Tables, i \in Ids : issued[t][i] <= issued'[t][i]
RowStep ==
  /\ Counts
  /\ \A p \in Ids : post'[p] # None => PostStep(p)
  /\ \A c \in Ids : comment'[c] # None => CommentStep(c)
  /\ \A n \in Ids : note'[n] # None => NoteStep(n)

LEMMA CountsIfSame == ASSUME TypeInv, issued' = issued PROVE Counts
<1>1. \A t \in Tables, i \in Ids : issued[t][i] \in Nat
  BY DEF TypeInv, TypeOK
<1> QED
  BY <1>1 DEF Counts

LEMMA RowsIfSame ==
  /\ post' = post => \A p \in Ids : post'[p] # None => PostStep(p)
  /\ comment' = comment => \A c \in Ids : comment'[c] # None => CommentStep(c)
  /\ note' = note => \A n \in Ids : note'[n] # None => NoteStep(n)
BY DEF PostStep, CommentStep, NoteStep

LEMMA PostRowSteps ==
  ASSUME TypeInv, NEW h \in Handlers,
         Edit(h) \/ DropPost(h) \/ Unlink(h) \/ Swap(h) \/ Current(h)
  PROVE  RowStep
<1>1. /\ post \in [Ids -> Post \cup {None}]
      /\ issued' = issued
      /\ HandlersKnow
  BY DEF TypeInv, TypeOK, Edit, DropPost, Unlink, Swap, Current
<1>2. Counts
  BY <1>1, CountsIfSame
<1>3. CASE Edit(h)
  <2> PICK p \in Ids, u \in Users : p = req[h].post /\ u = req[h].by
      BY <1>1, <1>3 DEF Edit, At, HandlersKnow, Knows, OnPost
  <2> DEFINE z == PostReissued(req[h])
  <2>1. post' = IF post[p] = None THEN post
                ELSE [post EXCEPT ![p] = [@ EXCEPT !.by = u, !.stray = z]]
    BY <1>3 DEF Edit
  <2>0. z \in BOOLEAN
    BY DEF PostReissued
  <2> HIDE DEF z
  <2>2. ASSUME NEW q \in Ids, post'[q] # None PROVE PostStep(q)
    <3>1. CASE q = p /\ post[p] # None
      <4>1. PICK r \in Post : r = post[p]
        BY <1>1, <3>1
      <4> DEFINE w == [r EXCEPT !.by = u, !.stray = z]
      <4>2. post'[p] = w
        BY <1>1, <2>1, <3>1, <4>1
      <4>3. w.owner = r.owner /\ w.by = u /\ w.stray = z
        BY DEF Post
      <4> HIDE DEF w
      <4>4. PostReissued(req[h]) => post'[p].stray
        BY <4>2, <4>3 DEF z
      <4> QED  BY <1>3, <3>1, <4>1, <4>2, <4>3, <4>4 DEF PostStep, Edit, At
    <3>2. CASE post'[q] = post[q]
      BY <2>2, <3>2 DEF PostStep
    <3> QED  BY <1>1, <2>1, <3>1, <3>2
  <2> QED  BY <1>2, <1>3, <2>2, RowsIfSame DEF Edit, RowStep
<1>4. CASE Swap(h)
  <2> PICK p \in Ids, f \in Files : p = req[h].post /\ f = req[h].file
      BY <1>1, <1>4 DEF Swap, At, HandlersKnow, Knows, OnPost
  <2>1. post' = post \/ (post[p] # None /\ post' = [post EXCEPT ![p].img = f])
    BY <1>4 DEF Swap
  <2>2. ASSUME NEW q \in Ids, post'[q] # None PROVE PostStep(q)
    <3>1. CASE q = p /\ post[p] # None /\ post' = [post EXCEPT ![p].img = f]
      <4>1. PICK r \in Post : r = post[p]
        BY <1>1, <3>1
      <4>2. post'[p] = [r EXCEPT !.img = f]
        BY <1>1, <3>1, <4>1
      <4> DEFINE w == [r EXCEPT !.img = f]
      <4>3. w.owner = r.owner /\ w.by = r.by /\ w.stray = r.stray
        BY DEF Post
      <4> HIDE DEF w
      <4> QED  BY <3>1, <4>1, <4>2, <4>3 DEF PostStep, w
    <3>2. CASE post'[q] = post[q]
      BY <2>2, <3>2 DEF PostStep
    <3> QED  BY <1>1, <2>1, <3>1, <3>2
  <2> QED  BY <1>2, <1>4, <2>2, RowsIfSame DEF Swap, RowStep
<1>5. CASE DropPost(h)
  <2>1. CASE UNCHANGED rows
    BY <1>2, <2>1, RowsIfSame DEF rows, RowStep
  <2>2. CASE /\ note' = Without(note, On(note, req[h].post))
             /\ comment' = Without(comment, On(comment, req[h].post))
             /\ post' = [post EXCEPT ![req[h].post] = None]
    <3>1. \A i \in Ids : /\ note'[i] # None => note'[i] = note[i]
                         /\ comment'[i] # None => comment'[i] = comment[i]
                         /\ post'[i] # None => post'[i] = post[i]
      BY <1>1, <2>2 DEF Without
    <3> QED  BY <1>2, <3>1 DEF PostStep, CommentStep, NoteStep, RowStep
  <2> QED  BY <1>5, <2>1, <2>2 DEF DropPost
<1>6. CASE Unlink(h) \/ Current(h)
  BY <1>2, <1>6, RowsIfSame DEF Unlink, Current, rows, RowStep
<1> QED
  BY <1>3, <1>4, <1>5, <1>6

LEMMA CommentRowSteps ==
  ASSUME TypeInv, NEW h \in Handlers,
         AddComment(h) \/ Notify(h) \/ EditComment(h) \/ DropComment(h)
  PROVE  RowStep
<1>1. /\ comment \in [Ids -> Comment \cup {None}]
      /\ note \in [Ids -> Note \cup {None}]
      /\ issued \in [Tables -> [Ids -> Nat]]
      /\ HandlersKnow
      /\ post' = post
  BY DEF TypeInv, TypeOK, AddComment, Notify, EditComment, DropComment
<1>2. issued' = issued => Counts
  BY CountsIfSame
<1>3. CASE AddComment(h)
  <2> PICK p \in Ids, u \in Users : p = req[h].post /\ u = req[h].by
      BY <1>1, <1>3 DEF AddComment, At, HandlersKnow, Knows, OnPost
  <2>1. CASE UNCHANGED <<comment, issued>>
    BY <1>1, <1>2, <1>3, <2>1, RowsIfSame DEF AddComment, RowStep
  <2>2. CASE \E c \in Ids :
               /\ comment[c] = None
               /\ comment' = [comment EXCEPT ![c] = [user |-> u, post |-> p, by |-> u,
                                                     stray |-> FALSE]]
               /\ Issue("comment", c)
    <3>1. PICK c \in Ids :
            /\ comment[c] = None
            /\ comment' = [comment EXCEPT ![c] = [user |-> u, post |-> p, by |-> u,
                                                  stray |-> FALSE]]
            /\ issued' = [issued EXCEPT !["comment"][c] = @ + 1]
      BY <2>2 DEF Issue
    <3>2. Counts /\ issued'["comment"][c] = issued["comment"][c] + 1
      BY <1>1, <3>1 DEF Counts, Tables
    <3>3. ASSUME NEW d \in Ids, comment'[d] # None PROVE CommentStep(d)
      BY <1>1, <3>1, <3>2, <3>3 DEF CommentStep
    <3> QED  BY <1>1, <1>3, <3>2, <3>3, RowsIfSame DEF AddComment, RowStep
  <2> QED  BY <1>3, <2>1, <2>2 DEF AddComment, NextRow
<1>4. CASE Notify(h)
  <2>1. CASE note' = note
    BY <1>1, <1>2, <1>4, <2>1, RowsIfSame DEF Notify, RowStep
  <2>2. CASE /\ post[req[h].post] # None /\ comment[req[h].id] # None
             /\ \E n \in Ids :
                  note' = [note EXCEPT ![n] = [to |-> req[h].owner, post |-> req[h].post,
                                               comment |-> req[h].id, read |-> FALSE,
                                               stray |-> \/ PostReissued(req[h])
                                                         \/ CommentReissued(req[h])]]
    <3> DEFINE z == PostReissued(req[h]) \/ CommentReissued(req[h])
    <3> HIDE DEF z
    <3>2. PICK k \in Ids :
            note' = [note EXCEPT ![k] = [to |-> req[h].owner, post |-> req[h].post,
                                         comment |-> req[h].id, read |-> FALSE,
                                         stray |-> z]]
      BY <2>2 DEF z
    <3>1. ASSUME NEW n \in Ids, note'[n] # None PROVE NoteStep(n)
      <4>1. CASE n # k
        BY <1>1, <3>1, <3>2, <4>1 DEF NoteStep
      <4>2. CASE n = k
        <5>1. /\ note'[n].to = req[h].owner /\ note'[n].post = req[h].post
              /\ note'[n].comment = req[h].id /\ note'[n].stray = z
          BY <1>1, <3>2, <4>2
        <5>2. PostReissued(req[h]) \/ CommentReissued(req[h]) => note'[n].stray
          BY <5>1 DEF z
        <5> QED  BY <1>1, <1>4, <2>2, <5>1, <5>2 DEF Notify, At, NoteStep
      <4> QED  BY <4>1, <4>2
    <3> QED  BY <1>1, <1>2, <1>4, <3>1, RowsIfSame DEF Notify, RowStep
  <2> QED  BY <1>4, <2>1, <2>2 DEF Notify
<1>5. CASE EditComment(h)
  <2> PICK c \in Ids, u \in Users : c = req[h].id /\ u = req[h].by
      BY <1>1, <1>5 DEF EditComment, At, HandlersKnow, Knows, OnRow
  <2> DEFINE z == CommentReissued(req[h])
  <2>1. comment' = IF comment[c] = None THEN comment
                   ELSE [comment EXCEPT ![c] = [@ EXCEPT !.by = u, !.stray = z]]
    BY <1>5 DEF EditComment
  <2> HIDE DEF z
  <2>2. ASSUME NEW d \in Ids, comment'[d] # None PROVE CommentStep(d)
    <3>1. CASE d = c /\ comment[c] # None
      <4>1. PICK r \in Comment : r = comment[c]
        BY <1>1, <3>1
      <4> DEFINE w == [r EXCEPT !.by = u, !.stray = z]
      <4>2. comment'[c] = w
        BY <1>1, <2>1, <3>1, <4>1
      <4>3. w.user = r.user /\ w.post = r.post /\ w.by = u /\ w.stray = z
        BY DEF Comment
      <4> HIDE DEF w
      <4>4. CommentReissued(req[h]) => comment'[c].stray
        BY <4>2, <4>3 DEF z
      <4> QED  BY <1>5, <3>1, <4>1, <4>2, <4>3, <4>4 DEF CommentStep, EditComment, At
    <3>2. CASE comment'[d] = comment[d]
      BY <2>2, <3>2 DEF CommentStep
    <3> QED  BY <1>1, <2>1, <3>1, <3>2
  <2> QED  BY <1>1, <1>2, <1>5, <2>2, RowsIfSame DEF EditComment, RowStep
<1>6. CASE DropComment(h)
  <2>1. \A i \in Ids : /\ note'[i] # None => note'[i] = note[i]
                       /\ comment'[i] # None => comment'[i] = comment[i]
    BY <1>1, <1>6 DEF DropComment, Without
  <2>2. (\A c \in Ids : comment'[c] # None => CommentStep(c))
        /\ \A n \in Ids : note'[n] # None => NoteStep(n)
    BY <2>1 DEF CommentStep, NoteStep
  <2> QED  BY <1>1, <1>2, <1>6, <2>2, RowsIfSame DEF DropComment, RowStep
<1> QED
  BY <1>3, <1>4, <1>5, <1>6

LEMMA RowSteps == TypeInv /\ [Next]_vars => RowStep
<1> SUFFICES ASSUME TypeInv, [Next]_vars PROVE RowStep
    OBVIOUS
<1>1. ASSUME post' = post, comment' = comment, note' = note, issued' = issued PROVE RowStep
  BY <1>1, CountsIfSame, RowsIfSame DEF RowStep
<1>2. ASSUME NEW h \in Handlers, Step(h) PROVE RowStep
  <2>1. CASE Find(h) \/ Insert(h) \/ Reread(h) \/ Apply(h) \/ Save(h) \/ Unsave(h)
    BY <1>1, <2>1 DEF Find, Insert, Reread, Apply, Save, Unsave, rows
  <2> QED  BY <1>2, <2>1, PostRowSteps, CommentRowSteps DEF Step
<1>3. ASSUME NEW h \in Handlers, NEW u \in Users, Start(h, u) PROVE RowStep
  BY <1>1, <1>3 DEF Start, EditStart, DeleteStart, UploadStart, CommentStart, BookmarkStart,
              ReactStart, EditCommentStart, DeleteCommentStart, rows
<1>4. ASSUME NEW u \in Users, AddPost(u) PROVE RowStep
  <2>1. PICK p \in Ids :
          /\ post[p] = None
          /\ post' = [post EXCEPT ![p] = [owner |-> u, by |-> u, img |-> None,
                                          stray |-> FALSE]]
          /\ issued' = [issued EXCEPT !["post"][p] = @ + 1]
    BY <1>4 DEF AddPost, Issue, NextRow
  <2>2. Counts /\ issued'["post"][p] = issued["post"][p] + 1
    BY <2>1 DEF Counts, Tables, TypeInv, TypeOK
  <2>3. ASSUME NEW q \in Ids, post'[q] # None PROVE PostStep(q)
    BY <2>1, <2>2, <2>3 DEF PostStep, TypeInv, TypeOK
  <2> QED  BY <1>4, <2>2, <2>3, RowsIfSame DEF AddPost, RowStep
<1>5. ASSUME NEW u \in Users, NEW S, MarkRead(u, S) PROVE RowStep
  <2>1. ASSUME NEW n \in Ids, note'[n] # None PROVE NoteStep(n)
    BY <1>5, <2>1 DEF MarkRead, RowsOf, NoteStep, TypeInv, TypeOK, Note
  <2> QED  BY <1>5, <2>1, CountsIfSame, RowsIfSame DEF MarkRead, RowStep
<1> QED
  BY <1>1, <1>2, <1>3, <1>4, <1>5 DEF Next, vars, rows

(* A handler is where it was, or where it knows nothing of interest, or it *)
(* has just looked up what it knows.                                       *)
Learnt(h) ==
  \/ req'[h] = req[h]
  \/ req'[h].pc \notin {"edit", "comment", "notify", "editComment"}
  \/ /\ UNCHANGED <<rows, issued>>
     /\ req'[h].pc \in {"edit", "comment"}
     /\ req'[h].post \in Ids
     /\ req'[h].postAt = issued["post"][req'[h].post]
     /\ req'[h].pc = "edit" => post[req'[h].post].owner = req'[h].by
     /\ req'[h].pc = "comment" => post[req'[h].post].owner = req'[h].owner
  \/ /\ UNCHANGED <<rows, issued>>
     /\ req'[h].pc = "editComment"
     /\ req'[h].id \in Ids
     /\ req'[h].idAt = issued["comment"][req'[h].id]
     /\ comment[req'[h].id].user = req'[h].by
  \/ /\ req[h].pc = "comment" /\ req'[h].pc = "notify"
     /\ req'[h].post = req[h].post /\ req'[h].by = req[h].by /\ req'[h].owner = req[h].owner
     /\ req'[h].postAt = req[h].postAt
     /\ req'[h].owner # req'[h].by
     /\ post' = post
     /\ issued'["post"] = issued["post"]
     /\ comment'[req'[h].id].user = req'[h].by
     /\ comment'[req'[h].id].post = req'[h].post
     /\ req'[h].id \in Ids
     /\ req'[h].idAt = issued'["comment"][req'[h].id]

LEMMA StartLearns ==
  ASSUME TypeInv, NEW h \in Handlers, NEW u \in Users, Start(h, u)
  PROVE  Learnt(h)
<1>1. ASSUME NEW op, NEW m, Arrive(h, op, m) PROVE req'[h] = m
  BY <1>1 DEF Arrive, TypeInv, TypeOK
<1>2. ASSUME NEW p \in Ids, EditStart(h, u, p) PROVE Learnt(h)
  <2> DEFINE m == [Idle EXCEPT !.pc = "edit", !.by = u, !.post = p,
                               !.postAt = issued["post"][p]]
  <2>1. m.pc = "edit" /\ m.by = u /\ m.post = p /\ m.postAt = issued["post"][p]
    BY DEF Idle
  <2>2. Arrive(h, "edit", m)
    BY <1>2 DEF EditStart
  <2> HIDE DEF m
  <2> QED  BY <1>1, <1>2, <2>1, <2>2 DEF EditStart, Learnt
<1>3. ASSUME NEW p \in Ids, CommentStart(h, u, p) PROVE Learnt(h)
  <2> DEFINE m == [Idle EXCEPT !.pc = "comment", !.by = u, !.post = p,
                               !.owner = post[p].owner, !.postAt = issued["post"][p]]
  <2>1. /\ m.pc = "comment" /\ m.post = p /\ m.owner = post[p].owner
        /\ m.postAt = issued["post"][p]
    BY DEF Idle
  <2>2. Arrive(h, "comment", m)
    BY <1>3 DEF CommentStart
  <2> HIDE DEF m
  <2> QED  BY <1>1, <1>3, <2>1, <2>2 DEF CommentStart, Learnt
<1>4. ASSUME NEW c \in Ids, EditCommentStart(h, u, c) PROVE Learnt(h)
  <2> DEFINE m == [Idle EXCEPT !.pc = "editComment", !.by = u, !.id = c,
                               !.idAt = issued["comment"][c]]
  <2>1. m.pc = "editComment" /\ m.by = u /\ m.id = c /\ m.idAt = issued["comment"][c]
    BY DEF Idle
  <2>2. Arrive(h, "editComment", m)
    BY <1>4 DEF EditCommentStart
  <2> HIDE DEF m
  <2> QED  BY <1>1, <1>4, <2>1, <2>2 DEF EditCommentStart, Learnt
<1>5. ASSUME NEW op, NEW m, Arrive(h, op, m), m.pc \in {"drop", "swap", "find", "dropComment"}
      PROVE  Learnt(h)
  BY <1>1, <1>5 DEF Learnt
<1>6. ASSUME NEW p \in Ids, DeleteStart(h, u, p) PROVE Learnt(h)
  <2> DEFINE m == [Idle EXCEPT !.pc = "drop", !.by = u, !.post = p, !.img = post[p].img]
  <2>1. m.pc = "drop" /\ Arrive(h, "delete", m)
    BY <1>6 DEF DeleteStart, Idle
  <2> HIDE DEF m
  <2> QED  BY <1>5, <2>1
<1>7. ASSUME NEW p \in Ids, UploadStart(h, u, p) PROVE Learnt(h)
  <2>1. PICK f : Arrive(h, "upload", [Idle EXCEPT !.pc = "swap", !.by = u, !.post = p,
                                                  !.img = post[p].img, !.file = f])
    BY <1>7 DEF UploadStart
  <2> DEFINE m == [Idle EXCEPT !.pc = "swap", !.by = u, !.post = p, !.img = post[p].img,
                               !.file = f]
  <2>2. m.pc = "swap" /\ Arrive(h, "upload", m)
    BY <2>1 DEF Idle
  <2> HIDE DEF m
  <2> QED  BY <1>5, <2>2
<1>8. ASSUME NEW p \in Ids, NEW v \in Values, BookmarkStart(h, u, p) \/ ReactStart(h, u, p, v)
      PROVE  Learnt(h)
  <2>1. PICK w, op : Arrive(h, op, [Idle EXCEPT !.pc = "find", !.by = u, !.post = p,
                                                !.value = w])
    BY <1>8 DEF BookmarkStart, ReactStart
  <2> DEFINE m == [Idle EXCEPT !.pc = "find", !.by = u, !.post = p, !.value = w]
  <2>2. m.pc = "find" /\ Arrive(h, op, m)
    BY <2>1 DEF Idle
  <2> HIDE DEF m
  <2> QED  BY <1>5, <2>2
<1>9. ASSUME NEW c \in Ids, DeleteCommentStart(h, u, c) PROVE Learnt(h)
  <2> DEFINE m == [Idle EXCEPT !.pc = "dropComment", !.by = u, !.id = c]
  <2>1. m.pc = "dropComment" /\ Arrive(h, "deleteComment", m)
    BY <1>9 DEF DeleteCommentStart, Idle
  <2> HIDE DEF m
  <2> QED  BY <1>5, <2>1
<1> QED
  BY <1>2, <1>3, <1>4, <1>6, <1>7, <1>8, <1>9 DEF Start, Values

LEMMA AddCommentLearns ==
  ASSUME TypeInv, NEW h \in Handlers, AddComment(h)
  PROVE  Learnt(h)
<1> PICK l \in Local : l = req[h]
    BY DEF TypeInv, TypeOK
<1>1. l.pc = "comment" /\ l.post \in Ids /\ l.by \in Users
  BY DEF AddComment, At, TypeInv, HandlersKnow, Knows, OnPost
<1>2. ASSUME NEW m, Goto(h, m) PROVE req'[h] = m
  BY <1>2 DEF Goto, TypeInv, TypeOK
<1>3. Idle.pc = "idle"
  BY DEF Idle
<1>4. CASE Goto(h, Idle)
  BY <1>2, <1>3, <1>4 DEF Learnt
<1>5. CASE ~Goto(h, Idle)
  <2>1. PICK c \in Ids :
          /\ comment' = [comment EXCEPT ![c] = [user |-> l.by, post |-> l.post, by |-> l.by,
                                                stray |-> FALSE]]
          /\ Issue("comment", c)
          /\ l.owner # l.by
          /\ Goto(h, [l EXCEPT !.pc = "notify", !.id = c,
                               !.idAt = issued["comment"][c] + 1])
    BY <1>5 DEF AddComment, Return
  <2> DEFINE m == [l EXCEPT !.pc = "notify", !.id = c, !.idAt = issued["comment"][c] + 1]
  <2>2. /\ m.pc = "notify" /\ m.id = c /\ m.idAt = issued["comment"][c] + 1
        /\ m.post = l.post /\ m.by = l.by /\ m.owner = l.owner /\ m.postAt = l.postAt
    BY DEF Local
  <2>3. Goto(h, m)
    BY <2>1
  <2> HIDE DEF m
  <2>4. req'[h] = m
    BY <1>2, <2>3
  <2>5. comment'[c].user = l.by /\ comment'[c].post = l.post
    BY <2>1 DEF TypeInv, TypeOK
  <2>6. issued'["comment"][c] = issued["comment"][c] + 1 /\ issued'["post"] = issued["post"]
    BY <2>1 DEF Issue, TypeInv, TypeOK, Tables
  <2>7. post' = post
    BY DEF AddComment
  <2> QED  BY <1>1, <2>1, <2>2, <2>4, <2>5, <2>6, <2>7 DEF Learnt
<1> QED
  BY <1>4, <1>5

LEMMA StepLearns ==
  ASSUME TypeInv, NEW h \in Handlers, Step(h)
  PROVE  Learnt(h)
<1> PICK l \in Local : l = req[h]
    BY DEF TypeInv, TypeOK
<1>1. ASSUME NEW m, Goto(h, m), m.pc \notin {"edit", "comment", "notify", "editComment"}
      PROVE  Learnt(h)
  BY <1>1 DEF Goto, TypeInv, TypeOK, Learnt
<1>2. ASSUME Return(h) PROVE Learnt(h)
  <2>1. Idle.pc = "idle"
    BY DEF Idle
  <2> QED  BY <1>1, <1>2, <2>1 DEF Return
<1>3. ASSUME NEW pc, NEW m, m = [l EXCEPT !.pc = pc], Goto(h, m),
             pc \notin {"edit", "comment", "notify", "editComment"}
      PROVE  Learnt(h)
  BY <1>1, <1>3 DEF Local
<1>4. CASE Edit(h) \/ Unlink(h) \/ Notify(h) \/ EditComment(h) \/ DropComment(h) \/ Apply(h)
           \/ Save(h) \/ Unsave(h)
  BY <1>2, <1>4 DEF Edit, Unlink, Notify, EditComment, DropComment, Apply, Save, Unsave
<1>5. CASE DropPost(h)
  BY <1>2, <1>3, <1>5 DEF DropPost, Return
<1>6. CASE Swap(h)
  BY <1>2, <1>3, <1>6 DEF Swap, Return
<1>7. CASE Current(h)
  <2>1. ASSUME NEW v, NEW n, NEW m, m = [l EXCEPT !.pc = "swap", !.img = v, !.tries = n],
               Goto(h, m)
        PROVE  Learnt(h)
    BY <1>1, <2>1 DEF Local
  <2> QED  BY <1>2, <1>7, <2>1 DEF Current
<1>8. ASSUME NEW i, NEW v, NEW m, m = [l EXCEPT !.pc = "apply", !.id = i, !.had = v],
             Goto(h, m)
      PROVE  Learnt(h)
  BY <1>1, <1>8 DEF Local
<1>9. CASE Find(h)
  <2>1. ASSUME NEW i, NEW m, m = [l EXCEPT !.pc = "unsave", !.id = i], Goto(h, m)
        PROVE  Learnt(h)
    BY <1>1, <2>1 DEF Local
  <2>2. \/ \E i \in Ids : \/ Goto(h, [l EXCEPT !.pc = "unsave", !.id = i])
                          \/ Goto(h, [l EXCEPT !.pc = "apply", !.id = i,
                                               !.had = reaction[i].value])
        \/ Goto(h, [l EXCEPT !.pc = "save"])
        \/ Goto(h, [l EXCEPT !.pc = "insert"])
    BY <1>9 DEF Find, Of, RowsOf
  <2>3. CASE \E i \in Ids : Goto(h, [l EXCEPT !.pc = "unsave", !.id = i])
    BY <2>1, <2>3
  <2>4. CASE \E i \in Ids : Goto(h, [l EXCEPT !.pc = "apply", !.id = i, !.had = reaction[i].value])
    BY <1>8, <2>4
  <2>5. CASE Goto(h, [l EXCEPT !.pc = "save"]) \/ Goto(h, [l EXCEPT !.pc = "insert"])
    BY <1>3, <2>5
  <2> QED  BY <2>2, <2>3, <2>4, <2>5
<1>10. CASE Insert(h)
  <2>1. l.tries = MaxTries \/ l.tries < MaxTries
    BY PostsAssumption DEF Local
  <2>2. Return(h) \/ Goto(h, [l EXCEPT !.pc = "reread"])
    <3>1. CASE l.tries = MaxTries
      BY <1>10, <3>1 DEF Insert
    <3>2. CASE l.tries < MaxTries
      BY <1>10, <3>2 DEF Insert
    <3> QED  BY <2>1, <3>1, <3>2
  <2> QED  BY <1>2, <1>3, <2>2
<1>11. CASE Reread(h)
  <2>1. ASSUME NEW n, NEW m, m = [l EXCEPT !.pc = "insert", !.tries = n], Goto(h, m)
        PROVE  Learnt(h)
    BY <1>1, <2>1 DEF Local
  <2> QED  BY <1>8, <1>11, <2>1 DEF Reread
<1> QED
  BY <1>4, <1>5, <1>6, <1>7, <1>9, <1>10, <1>11, AddCommentLearns DEF Step

LEMMA Learns == TypeInv /\ [Next]_vars => \A h \in Handlers : Learnt(h)
<1> SUFFICES ASSUME TypeInv, [Next]_vars, NEW h \in Handlers PROVE Learnt(h)
    OBVIOUS
<1>1. ASSUME NEW g \in Handlers, NEW m, req' = [req EXCEPT ![g] = m], g # h PROVE Learnt(h)
  BY <1>1 DEF Learnt, TypeInv, TypeOK
<1>2. ASSUME NEW g \in Handlers, NEW m, Goto(g, m), g # h PROVE Learnt(h)
  BY <1>1, <1>2 DEF Goto
<1>3. ASSUME NEW g \in Handlers, g # h, Step(g) PROVE Learnt(h)
  BY <1>2, <1>3 DEF Step, Edit, DropPost, Unlink, Swap, Current, AddComment, Notify,
                    EditComment, DropComment, Find, Insert, Reread, Apply, Save, Unsave, Return
<1>4. ASSUME NEW g \in Handlers, NEW u \in Users, g # h, Start(g, u) PROVE Learnt(h)
  BY <1>1, <1>4 DEF Start, EditStart, DeleteStart, UploadStart, CommentStart, BookmarkStart,
                    ReactStart, EditCommentStart, DeleteCommentStart, Arrive
<1>5. req' = req => Learnt(h)
  BY DEF Learnt
<1> QED
  BY <1>3, <1>4, <1>5, StartLearns, StepLearns DEF Next, AddPost, MarkRead, vars

(* What each handler has in hand. *)
LEMMA HandTypes ==
  ASSUME TypeInv, NEW h \in Handlers
  PROVE  /\ req[h].pc \in {"edit", "comment", "notify"} => req[h].post \in Ids
         /\ req[h].pc \in {"editComment", "notify"} => req[h].id \in Ids
BY DEF TypeInv, HandlersKnow, Knows, OnPost, OnRow

LEMMA KnewStays ==
  ASSUME TypeInv, TypeInv', RowStep, NEW h \in Handlers, Learnt(h), Knew(req[h])
  PROVE  Knew(req[h])'
<1>1. \A t \in Tables, i \in Ids :
        issued[t][i] \in Nat /\ issued'[t][i] \in Nat /\ issued[t][i] <= issued'[t][i]
  BY DEF TypeInv, TypeOK, RowStep, Counts
<1>2. /\ req[h].pc \in {"edit", "comment", "notify"} => req[h].post \in Ids
      /\ req[h].pc \in {"editComment", "notify"} => req[h].id \in Ids
      /\ req[h].postAt \in Nat /\ req[h].idAt \in Nat
  BY HandTypes DEF TypeInv, TypeOK, Local
<1>3. CASE req'[h] = req[h]
  <2>1. ASSUME req[h].pc \in {"edit", "comment", "notify"}
        PROVE  /\ req[h].postAt <= issued'["post"][req[h].post]
               /\ post'[req[h].post] # None /\ issued'["post"][req[h].post] = req[h].postAt =>
                    /\ post[req[h].post] # None
                    /\ post'[req[h].post].owner = post[req[h].post].owner
                    /\ issued["post"][req[h].post] = req[h].postAt
    <3> DEFINE p == req[h].post
    <3>1. p \in Ids /\ req[h].postAt <= issued["post"][p]
      BY <1>2, <2>1 DEF Knew
    <3>2. /\ issued["post"][p] \in Nat /\ issued'["post"][p] \in Nat
          /\ issued["post"][p] <= issued'["post"][p]
      BY <1>1, <3>1 DEF Tables
    <3>3. post'[p] # None =>
            \/ post[p] # None /\ post'[p].owner = post[p].owner
            \/ issued'["post"][p] = issued["post"][p] + 1
      BY <3>1 DEF RowStep, PostStep
    <3> HIDE DEF p
    <3>4. \A m, n, k \in Nat : k <= m /\ m <= n => k <= n /\ (n = k => m = k /\ n # m + 1)
      OBVIOUS
    <3> QED  BY <1>2, <3>1, <3>2, <3>3, <3>4 DEF p
  <2>2. ASSUME req[h].pc \in {"editComment", "notify"}
        PROVE  /\ req[h].idAt <= issued'["comment"][req[h].id]
               /\ comment'[req[h].id] # None /\ issued'["comment"][req[h].id] = req[h].idAt =>
                    /\ comment[req[h].id] # None
                    /\ comment'[req[h].id].user = comment[req[h].id].user
                    /\ comment'[req[h].id].post = comment[req[h].id].post
                    /\ issued["comment"][req[h].id] = req[h].idAt
    <3> DEFINE c == req[h].id
    <3>1. c \in Ids /\ req[h].idAt <= issued["comment"][c]
      BY <1>2, <2>2 DEF Knew
    <3>2. /\ issued["comment"][c] \in Nat /\ issued'["comment"][c] \in Nat
          /\ issued["comment"][c] <= issued'["comment"][c]
      BY <1>1, <3>1 DEF Tables
    <3>3. comment'[c] # None =>
            \/ /\ comment[c] # None
               /\ comment'[c].user = comment[c].user /\ comment'[c].post = comment[c].post
            \/ issued'["comment"][c] = issued["comment"][c] + 1
      BY <3>1 DEF RowStep, CommentStep
    <3> HIDE DEF c
    <3>4. \A m, n, k \in Nat : k <= m /\ m <= n => k <= n /\ (n = k => m = k /\ n # m + 1)
      OBVIOUS
    <3> QED  BY <1>2, <3>1, <3>2, <3>3, <3>4 DEF c
  <2> QED  BY <1>3, <2>1, <2>2 DEF Knew, PostReissued, CommentReissued
<1>4. CASE req'[h].pc \notin {"edit", "comment", "notify", "editComment"}
  BY <1>4 DEF Knew
<1>5. CASE /\ UNCHANGED <<rows, issued>>
           /\ req'[h].pc \in {"edit", "comment"}
           /\ req'[h].post \in Ids
           /\ req'[h].postAt = issued["post"][req'[h].post]
           /\ req'[h].pc = "edit" => post[req'[h].post].owner = req'[h].by
           /\ req'[h].pc = "comment" => post[req'[h].post].owner = req'[h].owner
  <2>1. req'[h].postAt <= issued'["post"][req'[h].post]
    BY <1>1, <1>5 DEF Tables
  <2> QED  BY <1>5, <2>1 DEF Knew, rows
<1>6. CASE /\ UNCHANGED <<rows, issued>>
           /\ req'[h].pc = "editComment"
           /\ req'[h].id \in Ids
           /\ req'[h].idAt = issued["comment"][req'[h].id]
           /\ comment[req'[h].id].user = req'[h].by
  <2>1. req'[h].idAt <= issued'["comment"][req'[h].id]
    BY <1>1, <1>6 DEF Tables
  <2> QED  BY <1>6, <2>1 DEF Knew, rows
<1>7. CASE /\ req[h].pc = "comment" /\ req'[h].pc = "notify"
           /\ req'[h].post = req[h].post /\ req'[h].owner = req[h].owner
           /\ req'[h].postAt = req[h].postAt
           /\ req'[h].owner # req'[h].by
           /\ post' = post
           /\ issued'["post"] = issued["post"]
           /\ comment'[req'[h].id].user = req'[h].by
           /\ comment'[req'[h].id].post = req'[h].post
           /\ req'[h].id \in Ids
           /\ req'[h].idAt = issued'["comment"][req'[h].id]
  <2>1. req'[h].idAt <= issued'["comment"][req'[h].id]
    BY <1>1, <1>7 DEF Tables
  <2>2. req'[h].postAt <= issued'["post"][req'[h].post]
    BY <1>7 DEF Knew
  <2>3. post'[req'[h].post] # None /\ issued'["post"][req'[h].post] = req'[h].postAt =>
          post'[req'[h].post].owner = req'[h].owner
    BY <1>7 DEF Knew, PostReissued
  <2> QED  BY <1>7, <2>1, <2>2, <2>3 DEF Knew, PostReissued
<1> QED
  BY <1>3, <1>4, <1>5, <1>6, <1>7 DEF Learnt

LEMMA RowsStayRight ==
  ASSUME TypeInv, TypeInv', NothingDangles, NothingDangles', RowStep,
         LookupsHold, \A h \in Handlers : Knew(req[h])
  PROVE  LookupsHold'
<1>1. /\ \A p \in Ids : post[p] # None /\ ~post[p].stray => post[p].by = post[p].owner
      /\ \A c \in Ids : comment[c] # None /\ ~comment[c].stray =>
           comment[c].by = comment[c].user
      /\ \A n \in Ids : note[n] # None /\ ~note[n].stray =>
           /\ note[n].to = post[note[n].post].owner
           /\ comment[note[n].comment].post = note[n].post
           /\ comment[note[n].comment].user # note[n].to
  BY DEF LookupsHold, RowsOf
<1>2. ASSUME NEW p \in Ids, post'[p] # None, ~post'[p].stray
      PROVE  post'[p].by = post'[p].owner
  BY <1>1, <1>2 DEF RowStep, PostStep, Knew
<1>3. ASSUME NEW c \in Ids, comment'[c] # None, ~comment'[c].stray
      PROVE  comment'[c].by = comment'[c].user
  BY <1>1, <1>3 DEF RowStep, CommentStep, Knew
<1>4. ASSUME NEW n \in Ids, note'[n] # None, ~note'[n].stray
      PROVE  /\ note'[n].to = post'[note'[n].post].owner
             /\ comment'[note'[n].comment].post = note'[n].post
             /\ comment'[note'[n].comment].user # note'[n].to
  <2>1. CASE /\ note[n] # None
             /\ note'[n].to = note[n].to
             /\ note'[n].post = note[n].post
             /\ note'[n].comment = note[n].comment
             /\ note[n].stray => note'[n].stray
    <3> PICK p \in Ids, c \in Ids : p = note[n].post /\ c = note[n].comment
        BY <2>1 DEF TypeInv, TypeOK, Note
    <3>1. post[p] # None /\ comment[c] # None
      BY <2>1 DEF NothingDangles, RowsOf
    <3>2. post'[p] # None /\ comment'[c] # None
      BY <1>4, <2>1 DEF NothingDangles, RowsOf
    <3>3. /\ post'[p].owner = post[p].owner
          /\ comment'[c].user = comment[c].user /\ comment'[c].post = comment[c].post
      BY <3>1, <3>2 DEF RowStep, PostStep, CommentStep
    <3> QED  BY <1>1, <1>4, <2>1, <3>3
  <2>2. CASE /\ post' = post /\ comment' = comment
             /\ \E h \in Handlers : /\ req[h].pc = "notify"
                                    /\ post[req[h].post] # None /\ comment[req[h].id] # None
                                    /\ note'[n].to = req[h].owner
                                    /\ note'[n].post = req[h].post
                                    /\ note'[n].comment = req[h].id
                                    /\ PostReissued(req[h]) \/ CommentReissued(req[h]) =>
                                         note'[n].stray
    BY <1>4, <2>2 DEF Knew
  <2> QED  BY <1>4, <2>1, <2>2 DEF RowStep, NoteStep
<1> QED
  BY <1>2, <1>3, <1>4 DEF LookupsHold, RowsOf

(* handlers.go:2065-2066, 2638-2639: a post or comment was last changed by *)
(* its author, and a notification is to the author of its post, about      *)
(* another user's comment on that post, however long ago the handler       *)
(* looked and whatever was deleted meanwhile, unless the id of the very    *)
(* row it looked up was given out again in between (handlers.go:2119,      *)
(* 2543).                                                                  *)
THEOREM LookupsStayTrue == Spec => []LookupsHold
<1>1. Init => LookInv
  <2> SUFFICES ASSUME Init PROVE LookInv
      OBVIOUS
  <2>1. \A h \in Handlers : Knew(req[h])
    BY DEF Init, Idle, Knew
  <2>2. LookupsHold
    BY PostsAssumption DEF Init, Empty, LookupsHold, RowsOf
  <2> QED  BY <2>1, <2>2 DEF LookInv
<1>2. TypeInv /\ TypeInv' /\ NothingDangles /\ NothingDangles' /\ LookInv /\ [Next]_vars
        => LookInv'
  <2> SUFFICES ASSUME TypeInv, TypeInv', NothingDangles, NothingDangles', LookInv,
                      [Next]_vars
               PROVE  LookInv'
      OBVIOUS
  <2>1. RowStep /\ \A h \in Handlers : Learnt(h)
    BY RowSteps, Learns
  <2>2. \A h \in Handlers : Knew(req[h])'
    BY <2>1, KnewStays DEF LookInv
  <2> QED  BY <2>1, <2>2, RowsStayRight DEF LookInv
<1>3. LookInv => LookupsHold
  BY DEF LookInv
<1> QED
  BY <1>1, <1>2, <1>3, TypedAlways, NothingEverDangles, PTL DEF Spec

-----------------------------------------------------------------------------
(* The image of a post is on disk: the proof, by an invariant that says    *)
(* which files the handlers in flight may delete.                          *)

Shows(p, f) == post[p] # None /\ post[p].img = f

(* Handler h has a file that no post shows yet. *)
Pending(h) == req[h].pc \in {"swap", "current"}

(* No two posts show one file. *)
OwnImages == \A p, q \in Ids, f \in Files : Shows(p, f) /\ Shows(q, f) => p = q

(* An image that a handler found is shown by the post it found it on, or   *)
(* by none; one that it is about to delete, by none.                       *)
HeldImages ==
  \A h \in Handlers, p \in Ids, f \in Files :
    req[h].img = f /\ Shows(p, f) => req[h].pc # "unlink" /\ req[h].post = p

(* A pending file is on disk, no post shows it, and no other handler knows *)
(* it.                                                                     *)
PendingFiles ==
  \A g \in Handlers : Pending(g) =>
    /\ files[req[g].file] # None
    /\ \A p \in Ids : ~Shows(p, req[g].file)
    /\ \A h \in Handlers : req[h].img # req[g].file
    /\ \A h \in Handlers \ {g} : Pending(h) => req[h].file # req[g].file

ShownExist == \A p \in Ids, f \in Files : Shows(p, f) => files[f] # None

ImageInv == OwnImages /\ HeldImages /\ PendingFiles /\ ShownExist

-----------------------------------------------------------------------------
(* A step of handler h, to place m, that shows no new image, changes no    *)
(* file, and leaves h with no file of its own and none to delete.          *)
Quiet(h, m) ==
  /\ \A p \in Ids, f \in Files : Shows(p, f)' => Shows(p, f)
  /\ files' = files
  /\ req' = [req EXCEPT ![h] = m]
  /\ m.pc \notin {"swap", "current", "unlink"}
  /\ \/ m.img = None
     \/ m.img = req[h].img /\ m.post = req[h].post /\ req[h].pc # "unlink"
     \/ m.post \in Ids /\ Shows(m.post, m.img)

LEMMA ImageTypes ==
  ASSUME TypeInv
  PROVE  /\ \A h \in Handlers : Pending(h) =>
              req[h].file \in Files /\ req[h].post \in Ids
         /\ \A h \in Handlers : req[h].img \in Files \cup {None} /\ req[h] \in Local
         /\ \A h \in Handlers : req[h].pc = "unlink" => req[h].img \in Files
         /\ \A h \in Handlers : req[h].pc = "drop" => req[h].post \in Ids
         /\ None \notin Files
BY PostsAssumption DEF TypeInv, TypeOK, HandlersKnow, Knows, OnPost, Pending, Local

LEMMA QuietKeeps ==
  ASSUME TypeInv, ImageInv, NEW h \in Handlers, NEW m, Quiet(h, m)
  PROVE  ImageInv'
<1> USE DEF ImageInv
<1>1. /\ \A p \in Ids, f \in Files : Shows(p, f)' => Shows(p, f)
      /\ files' = files
  BY DEF Quiet
<1>2. \A g \in Handlers \ {h} : req'[g] = req[g]
  BY DEF Quiet, TypeInv, TypeOK
<1>3. req'[h] = m
  BY DEF Quiet, TypeInv, TypeOK
<1>4. OwnImages' /\ ShownExist'
  BY <1>1 DEF OwnImages, ShownExist
<1>5. HeldImages'
  <2> SUFFICES ASSUME NEW g \in Handlers, NEW p \in Ids, NEW f \in Files,
                      req'[g].img = f, Shows(p, f)'
               PROVE  req'[g].pc # "unlink" /\ req'[g].post = p
      BY DEF HeldImages
  <2>1. Shows(p, f)
    BY <1>1
  <2>2. CASE g # h
    BY <1>2, <2>1, <2>2 DEF HeldImages
  <2>3. CASE g = h
    <3>1. f # None
      BY ImageTypes
    <3>2. CASE m.img = req[h].img /\ m.post = req[h].post /\ req[h].pc # "unlink"
      BY <1>3, <2>1, <2>3, <3>2 DEF HeldImages, Quiet
    <3>3. CASE m.post \in Ids /\ Shows(m.post, m.img)
      BY <1>3, <2>1, <2>3, <3>3 DEF OwnImages, Quiet
    <3> QED  BY <1>3, <2>3, <3>1, <3>2, <3>3 DEF Quiet
  <2> QED  BY <2>2, <2>3
<1>6. PendingFiles'
  <2> SUFFICES ASSUME NEW g \in Handlers, Pending(g)'
               PROVE  /\ files'[req'[g].file] # None
                      /\ \A p \in Ids : ~Shows(p, req[g].file)'
                      /\ \A k \in Handlers : req'[k].img # req'[g].file
                      /\ \A k \in Handlers \ {g} : Pending(k)' => req'[k].file # req'[g].file
      BY DEF PendingFiles
  <2>1. g # h /\ req'[g] = req[g] /\ Pending(g)
    BY <1>2, <1>3 DEF Quiet, Pending
  <2>2. req[g].file \in Files
    BY <2>1, ImageTypes
  <2>3. files'[req'[g].file] # None
    BY <1>1, <2>1 DEF PendingFiles
  <2>4. ASSUME NEW p \in Ids PROVE ~Shows(p, req[g].file)'
    <3>1. ~Shows(p, req[g].file)
      BY <2>1 DEF PendingFiles
    <3> QED  BY <1>1, <2>1, <2>2, <3>1 DEF Shows
  <2>5. m.img # req[g].file
    <3>1. req[g].file # None
      BY <2>2, ImageTypes
    <3> QED  BY <2>1, <3>1 DEF PendingFiles, Quiet
  <2>6. \A k \in Handlers : req'[k].img # req'[g].file
    BY <1>2, <1>3, <2>1, <2>5 DEF PendingFiles
  <2>7. ASSUME NEW k \in Handlers \ {g}, Pending(k)' PROVE req'[k].file # req'[g].file
    <3>1. k # h /\ req'[k] = req[k] /\ Pending(k)
      BY <1>2, <1>3, <2>7 DEF Quiet, Pending
    <3> QED  BY <2>1, <3>1 DEF PendingFiles
  <2> QED  BY <2>3, <2>4, <2>6, <2>7
<1> QED
  BY <1>4, <1>5, <1>6

(* The same for a step that is no handler's. *)
LEMMA StillKeeps ==
  ASSUME ImageInv, \A p \in Ids, f \in Files : Shows(p, f)' => Shows(p, f),
         files' = files, req' = req, TypeInv
  PROVE  ImageInv'
<1>1. OwnImages' /\ ShownExist' /\ HeldImages'
  BY DEF ImageInv, OwnImages, ShownExist, HeldImages
<1>2. PendingFiles'
  BY ImageTypes DEF ImageInv, PendingFiles, Pending
<1> QED
  BY <1>1, <1>2 DEF ImageInv

-----------------------------------------------------------------------------
(* The steps that write or delete a file, show one or hide one. *)

LEMMA UploadStartKeeps ==
  ASSUME TypeInv, ImageInv, NEW h \in Handlers, NEW u \in Users, NEW p \in Ids,
         UploadStart(h, u, p)
  PROVE  ImageInv'
<1> USE DEF ImageInv
<1>1. PICK f \in Files :
        /\ FreshFile(f)
        /\ files' = [files EXCEPT ![f] = [post |-> p, time |-> issued["post"][p]]]
        /\ Arrive(h, "upload", [Idle EXCEPT !.pc = "swap", !.by = u, !.post = p,
                                            !.img = post[p].img, !.file = f])
  BY DEF UploadStart
<1>2. post' = post /\ post[p] # None
  BY DEF UploadStart, rows
<1>3. /\ req'[h].pc = "swap" /\ req'[h].post = p
      /\ req'[h].img = post[p].img /\ req'[h].file = f
  BY <1>1 DEF Arrive, TypeInv, TypeOK, Idle
<1>4. \A g \in Handlers \ {h} : req'[g] = req[g]
  BY <1>1 DEF Arrive, TypeInv, TypeOK
<1>5. files'[f] # None /\ \A e \in Files \ {f} : files'[e] = files[e]
  <2>1. [post |-> p, time |-> issued["post"][p]] \in Upload
    BY DEF Upload, TypeInv, TypeOK, Tables
  <2> QED  BY <1>1, <2>1, NoneIsNoRow DEF TypeInv, TypeOK
<1>6. \A q \in Ids, e \in Files : Shows(q, e)' <=> Shows(q, e)
  BY <1>2 DEF Shows
<1>7. (\A q \in Ids : ~Shows(q, f)) /\ \A g \in Handlers : f \notin {req[g].img, req[g].file}
  BY <1>1 DEF FreshFile, Shows, RowsOf
<1>8. OwnImages' /\ ShownExist'
  BY <1>5, <1>6 DEF OwnImages, ShownExist
<1>9. HeldImages'
  <2>1. Shows(p, post[p].img)
    BY <1>2 DEF Shows
  <2> QED  BY <1>3, <1>4, <1>6, <2>1 DEF HeldImages, OwnImages
<1>10. PendingFiles'
  <2>1. ASSUME NEW g \in Handlers, Pending(g)', NEW e \in Files, e = req'[g].file
        PROVE  /\ files'[e] # None
               /\ \A q \in Ids : ~Shows(q, e)'
               /\ \A k \in Handlers : req'[k].img # e
               /\ \A k \in Handlers \ {g} : Pending(k)' => req'[k].file # e
    <3>1. CASE g = h
      <4>1. e = f /\ post[p].img # f
        BY <1>2, <1>3, <1>7, <2>1, <3>1 DEF Shows
      <4> QED  BY <1>3, <1>4, <1>5, <1>6, <1>7, <3>1, <4>1
    <3>2. CASE g # h
      <4>1. Pending(g) /\ e = req[g].file /\ e # f
        BY <1>4, <1>7, <2>1, <3>2 DEF Pending
      <4>2. files'[e] # None /\ \A q \in Ids : ~Shows(q, e)'
        BY <1>5, <1>6, <4>1 DEF PendingFiles
      <4>3. post[p].img # e
        BY <1>2, <4>1 DEF PendingFiles, Shows
      <4>4. \A k \in Handlers : req'[k].img # e
        BY <1>3, <1>4, <4>1, <4>3 DEF PendingFiles
      <4>5. \A k \in Handlers \ {g} : Pending(k)' => req'[k].file # e
        BY <1>3, <1>4, <4>1 DEF PendingFiles, Pending
      <4> QED  BY <4>2, <4>4, <4>5
    <3> QED  BY <3>1, <3>2
  <2>2. \A g \in Handlers : Pending(g)' => req'[g].file \in Files
    BY <1>3, <1>4, ImageTypes DEF Pending
  <2> QED  BY <2>1, <2>2 DEF PendingFiles, Shows
<1> QED
  BY <1>8, <1>9, <1>10

(* The file of handler g goes, which no post shows and no other handler    *)
(* has pending, and g is idle.                                             *)
LEMMA DeletingKeeps ==
  ASSUME TypeInv, ImageInv, NEW g \in Handlers, NEW e \in Files, Return(g), post' = post,
         files' = [files EXCEPT ![e] = None], \A p \in Ids : ~Shows(p, e),
         \A k \in Handlers \ {g} : Pending(k) => req[k].file # e
  PROVE  ImageInv'
<1> USE DEF ImageInv
<1>1. req'[g] = Idle /\ \A k \in Handlers \ {g} : req'[k] = req[k]
  BY DEF Return, Goto, TypeInv, TypeOK
<1>2. \A f \in Files \ {e} : files'[f] = files[f]
  BY DEF TypeInv, TypeOK
<1>3. \A p \in Ids, f \in Files : Shows(p, f)' <=> Shows(p, f)
  BY DEF Shows
<1>4. OwnImages' /\ ShownExist'
  BY <1>2, <1>3 DEF OwnImages, ShownExist
<1>5. HeldImages'
  BY <1>1, <1>3, ImageTypes DEF HeldImages, Idle
<1>6. PendingFiles'
  <2>1. ASSUME NEW k \in Handlers, Pending(k)'
        PROVE  k # g /\ Pending(k) /\ req'[k] = req[k] /\ req[k].file \in Files
    BY <1>1, <2>1, ImageTypes DEF Pending, Idle
  <2>2. \A k \in Handlers : Pending(k)' => files'[req'[k].file] # None
    BY <1>2, <2>1 DEF PendingFiles
  <2>3. \A k \in Handlers : Pending(k)' => \A p \in Ids : ~(Shows(p, req[k].file)')
    BY <2>1 DEF PendingFiles, Shows
  <2>4. \A k, i \in Handlers : Pending(k)' => req'[i].img # req'[k].file
    BY <1>1, <2>1, ImageTypes DEF PendingFiles, Idle
  <2>5. \A k, i \in Handlers : Pending(k)' /\ Pending(i)' /\ i # k => req'[i].file # req'[k].file
    BY <2>1 DEF PendingFiles
  <2> QED  BY <2>1, <2>2, <2>3, <2>4, <2>5 DEF PendingFiles, Shows
<1> QED
  BY <1>4, <1>5, <1>6

LEMMA UnlinkKeeps ==
  ASSUME TypeInv, ImageInv, NEW h \in Handlers, Unlink(h)
  PROVE  ImageInv'
<1>1. req[h].pc = "unlink" /\ req[h].img \in Files
  BY ImageTypes DEF Unlink, At
<1>2. \A p \in Ids : ~Shows(p, req[h].img)
  BY <1>1 DEF ImageInv, HeldImages
<1>3. \A k \in Handlers : Pending(k) => req[k].file # req[h].img
  BY DEF ImageInv, PendingFiles
<1> QED
  BY <1>1, <1>2, <1>3, DeletingKeeps DEF Unlink, rows

LEMMA CurrentKeeps ==
  ASSUME TypeInv, ImageInv, NEW h \in Handlers, Current(h)
  PROVE  ImageInv'
<1> USE DEF ImageInv
<1> DEFINE l == req[h]
<1>1. Pending(h) /\ l.pc = "current" /\ l.file \in Files /\ l.post \in Ids
  BY ImageTypes DEF Current, At, Pending
<1>2. CASE post[l.post] = None \/ l.tries + 1 = MaxTries
  <2>1. Return(h) /\ files' = [files EXCEPT ![l.file] = None] /\ post' = post
    BY <1>2 DEF Current, rows
  <2>2. \A p \in Ids : ~Shows(p, l.file)
    BY <1>1 DEF PendingFiles
  <2>3. \A k \in Handlers \ {h} : Pending(k) => req[k].file # l.file
    BY <1>1 DEF PendingFiles
  <2> QED  BY <1>1, <2>1, <2>2, <2>3, DeletingKeeps
<1>3. CASE ~(post[l.post] = None \/ l.tries + 1 = MaxTries)
  <2>1. /\ req' = [req EXCEPT ![h] = [l EXCEPT !.pc = "swap", !.img = post[l.post].img,
                                             !.tries = @ + 1]]
        /\ files' = files /\ post' = post
    BY <1>3 DEF Current, Goto, rows
  <2>2. l \in Local
    BY ImageTypes
  <2>3. /\ req'[h].pc = "swap" /\ req'[h].img = post[l.post].img
        /\ req'[h].file = l.file /\ req'[h].post = l.post
    BY <2>1, <2>2 DEF TypeInv, TypeOK, Local
  <2>4. \A k \in Handlers \ {h} : req'[k] = req[k]
    BY <2>1 DEF TypeInv, TypeOK
  <2>5. Shows(l.post, req'[h].img)
    BY <1>3, <2>3 DEF Shows
  <2>6. \A p \in Ids, f \in Files : Shows(p, f)' <=> Shows(p, f)
    BY <2>1 DEF Shows
  <2>7. OwnImages' /\ ShownExist'
    BY <2>1, <2>6 DEF OwnImages, ShownExist
  <2>8. HeldImages'
    BY <1>1, <2>3, <2>4, <2>5, <2>6 DEF HeldImages, OwnImages
  <2>9. PendingFiles'
    <3>1. \A k \in Handlers : Pending(k)' => Pending(k) /\ req'[k].file = req[k].file
      BY <1>1, <2>3, <2>4 DEF Pending
    <3>2. \A k, i \in Handlers : Pending(k)' => req'[i].img # req'[k].file
      BY <1>1, <2>3, <2>4, <2>5, <3>1 DEF PendingFiles
    <3>3. \A k \in Handlers : Pending(k)' => \A p \in Ids : ~(Shows(p, req[k].file)')
      BY <2>1, <3>1 DEF PendingFiles, Shows
    <3> QED  BY <2>1, <3>1, <3>2, <3>3 DEF PendingFiles, Shows
  <2> QED  BY <2>7, <2>8, <2>9
<1> QED
  BY <1>2, <1>3

(* The post shows the file that was pending, and the one it showed before  *)
(* is the handler's to delete.                                             *)
LEMMA SwapKeeps ==
  ASSUME TypeInv, ImageInv, NEW h \in Handlers, Swap(h)
  PROVE  ImageInv'
<1> USE DEF ImageInv
<1> DEFINE l == req[h]
<1>1. Pending(h) /\ l.pc = "swap" /\ l.file \in Files /\ l.post \in Ids /\ l \in Local
  BY ImageTypes DEF Swap, At, Pending
<1>2. files' = files
  BY DEF Swap
<1>3. ASSUME NEW m, req' = [req EXCEPT ![h] = m]
      PROVE  req'[h] = m /\ \A k \in Handlers \ {h} : req'[k] = req[k]
  BY <1>3 DEF TypeInv, TypeOK
<1>4. CASE post[l.post] # None /\ post[l.post].img = l.img
  <2>1. post' = [post EXCEPT ![l.post].img = l.file]
    BY <1>4 DEF Swap
  <2>2. /\ req'[h].pc \in {"idle", "unlink"}
        /\ req'[h].img = None \/ req'[h].img = l.img
        /\ \A k \in Handlers \ {h} : req'[k] = req[k]
    <3>1. CASE req' = [req EXCEPT ![h] = Idle]
      BY <1>3, <3>1 DEF Idle
    <3>2. CASE req' = [req EXCEPT ![h] = [l EXCEPT !.pc = "unlink"]]
      <4> DEFINE m == [l EXCEPT !.pc = "unlink"]
      <4>1. m.pc = "unlink" /\ m.img = l.img
        BY <1>1 DEF Local
      <4> HIDE DEF m
      <4>2. req' = [req EXCEPT ![h] = m]
        BY <3>2 DEF m
      <4> QED  BY <1>3, <4>1, <4>2
    <3> QED  BY <1>4, <3>1, <3>2 DEF Swap, Goto
  <2>3. \A p \in Ids, f \in Files :
          Shows(p, f)' => \/ p = l.post /\ f = l.file
                          \/ p # l.post /\ Shows(p, f)
    BY <1>1, <1>4, <2>1 DEF Shows, TypeInv, TypeOK, Post
  <2>4. Shows(l.post, l.img) /\ \A p \in Ids : ~Shows(p, l.file)
    BY <1>1, <1>4 DEF Shows, PendingFiles
  <2>5. OwnImages' /\ ShownExist'
    BY <1>1, <1>2, <2>3, <2>4 DEF OwnImages, ShownExist, PendingFiles
  <2>6. \A k \in Handlers : req'[k].img # l.file
    <3>1. l.file # None
      BY <1>1, ImageTypes
    <3> QED  BY <1>1, <2>2, <3>1 DEF PendingFiles
  <2>7. HeldImages'
    <3> SUFFICES ASSUME NEW k \in Handlers, NEW p \in Ids, NEW f \in Files,
                        req'[k].img = f, Shows(p, f)'
                 PROVE  req'[k].pc # "unlink" /\ req'[k].post = p
        BY DEF HeldImages
    <3>1. p # l.post /\ Shows(p, f)
      BY <2>3, <2>6
    <3>2. CASE k = h
      <4>1. f = l.img
        BY <2>2, <3>2, ImageTypes
      <4> QED  BY <1>1, <2>4, <3>1, <4>1 DEF OwnImages
    <3>3. CASE k # h
      BY <2>2, <3>1, <3>3 DEF HeldImages
    <3> QED  BY <3>2, <3>3
  <2>8. PendingFiles'
    <3>1. \A k \in Handlers : Pending(k)' =>
            /\ k # h /\ Pending(k) /\ req'[k].file = req[k].file
            /\ req[k].file \in Files /\ req[k].file # l.file
      BY <1>1, <2>2, ImageTypes DEF Pending, PendingFiles
    <3>2. \A k, i \in Handlers : Pending(k)' => req'[i].img # req'[k].file
      BY <2>2, <3>1, ImageTypes DEF PendingFiles
    <3>3. \A k \in Handlers : Pending(k)' => \A p \in Ids : ~(Shows(p, req[k].file)')
      <4> SUFFICES ASSUME NEW k \in Handlers, Pending(k)', NEW p \in Ids,
                          Shows(p, req[k].file)'
                   PROVE  FALSE
          OBVIOUS
      <4>1. Shows(p, req[k].file)
        BY <1>1, <2>1, <3>1 DEF Shows, TypeInv, TypeOK, Post
      <4> QED  BY <3>1, <4>1 DEF PendingFiles
    <3>4. \A k, i \in Handlers : Pending(k)' /\ Pending(i)' /\ i # k => req'[i].file # req'[k].file
      BY <3>1 DEF PendingFiles
    <3>5. \A k \in Handlers : Pending(k)' => files'[req'[k].file] # None
      BY <1>2, <3>1 DEF PendingFiles
    <3> QED  BY <3>1, <3>2, <3>3, <3>4, <3>5 DEF PendingFiles, Shows
  <2> QED  BY <2>5, <2>7, <2>8
<1>5. CASE ~(post[l.post] # None /\ post[l.post].img = l.img)
  <2>1. req' = [req EXCEPT ![h] = [l EXCEPT !.pc = "current"]] /\ post' = post
    BY <1>5 DEF Swap, Goto
  <2>2. /\ req'[h].pc = "current" /\ req'[h].img = l.img
        /\ req'[h].file = l.file /\ req'[h].post = l.post
        /\ \A k \in Handlers \ {h} : req'[k] = req[k]
    <3> DEFINE m == [l EXCEPT !.pc = "current"]
    <3>1. m.pc = "current" /\ m.img = l.img /\ m.file = l.file /\ m.post = l.post
      BY <1>1 DEF Local
    <3> HIDE DEF m
    <3>2. req' = [req EXCEPT ![h] = m]
      BY <2>1 DEF m
    <3> QED  BY <1>3, <3>1, <3>2
  <2>3. \A k \in Handlers :
          /\ req'[k].file = req[k].file /\ req'[k].img = req[k].img
          /\ req'[k].post = req[k].post
          /\ Pending(k)' <=> Pending(k)
          /\ req'[k].pc = "unlink" <=> req[k].pc = "unlink"
    BY <1>1, <2>2 DEF Pending
  <2>4. OwnImages' /\ ShownExist' /\ HeldImages'
    BY <1>2, <2>1, <2>3 DEF OwnImages, ShownExist, HeldImages, Shows
  <2>5. PendingFiles'
    BY <1>2, <2>1, <2>3 DEF PendingFiles, Shows
  <2> QED  BY <2>4, <2>5
<1> QED
  BY <1>4, <1>5

(* The post goes, and the image it was read with is the handler's to       *)
(* delete: no other post ever shows it.                                    *)
LEMMA DropKeeps ==
  ASSUME TypeInv, ImageInv, NEW h \in Handlers, DropPost(h)
  PROVE  ImageInv'
<1> USE DEF ImageInv
<1> DEFINE l == req[h]
<1>1. l.pc = "drop" /\ l.post \in Ids /\ l \in Local
  BY ImageTypes DEF DropPost, At
<1>2. files' = files
  BY DEF DropPost
<1>3. \A p \in Ids, f \in Files : Shows(p, f)' => Shows(p, f)
  BY <1>1 DEF DropPost, rows, Shows, TypeInv, TypeOK
<1>4. CASE Return(h)
  <2>1. Quiet(h, Idle)
    BY <1>2, <1>3, <1>4 DEF Quiet, Return, Goto, Idle
  <2> QED  BY <2>1, QuietKeeps
<1>5. CASE /\ post' = [post EXCEPT ![l.post] = None]
           /\ Goto(h, [l EXCEPT !.pc = "unlink"])
  <2> DEFINE m == [l EXCEPT !.pc = "unlink"]
  <2>1. m.pc = "unlink" /\ m.img = l.img
    BY <1>1 DEF Local
  <2>2. req' = [req EXCEPT ![h] = m]
    BY <1>5 DEF Goto
  <2> HIDE DEF m
  <2>3. req'[h] = m /\ \A k \in Handlers \ {h} : req'[k] = req[k]
    BY <2>2 DEF TypeInv, TypeOK
  <2>4. \A p \in Ids, f \in Files : Shows(p, f)' => p # l.post
    BY <1>1, <1>5 DEF Shows, TypeInv, TypeOK
  <2>5. OwnImages' /\ ShownExist'
    BY <1>2, <1>3 DEF OwnImages, ShownExist
  <2>6. HeldImages'
    BY <1>3, <2>1, <2>3, <2>4 DEF HeldImages
  <2>7. PendingFiles'
    <3>1. \A k \in Handlers : Pending(k)' => Pending(k) /\ req'[k] = req[k] /\ req[k].file \in Files
      BY <2>1, <2>3, ImageTypes DEF Pending
    <3>2. \A k, i \in Handlers : Pending(k)' => req'[i].img # req'[k].file
      BY <2>1, <2>3, <3>1 DEF PendingFiles
    <3>3. \A k \in Handlers : Pending(k)' => \A p \in Ids : ~(Shows(p, req[k].file)')
      <4> SUFFICES ASSUME NEW k \in Handlers, Pending(k)', NEW p \in Ids,
                          Shows(p, req[k].file)'
                   PROVE  FALSE
          OBVIOUS
      <4>1. Shows(p, req[k].file)
        BY <1>1, <1>5, <3>1 DEF Shows, TypeInv, TypeOK
      <4> QED  BY <3>1, <4>1 DEF PendingFiles
    <3> QED  BY <1>2, <3>1, <3>2, <3>3 DEF PendingFiles, Shows
  <2> QED  BY <2>5, <2>6, <2>7
<1> QED
  BY <1>4, <1>5 DEF DropPost, Return

(* The other steps show no image and delete no file. *)
LEMMA QuietSteps ==
  ASSUME TypeInv, ImageInv, NEW h \in Handlers,
         \/ Edit(h) \/ AddComment(h) \/ Notify(h) \/ EditComment(h) \/ DropComment(h)
         \/ Find(h) \/ Insert(h) \/ Reread(h) \/ Apply(h) \/ Save(h) \/ Unsave(h)
  PROVE  ImageInv'
<1> DEFINE l == req[h]
<1>1. l \in Local /\ l.pc # "unlink"
  BY ImageTypes DEF Edit, AddComment, Notify, EditComment, DropComment, Find, Insert,
                    Reread, Apply, Save, Unsave, At
<1>2. files' = files
  BY DEF Edit, AddComment, Notify, EditComment, DropComment, Find, Insert,
         Reread, Apply, Save, Unsave, rows
<1>3. \A p \in Ids, f \in Files : Shows(p, f)' => Shows(p, f)
  <2>1. CASE Edit(h)
    <3>1. l.post \in Ids
      BY <2>1 DEF Edit, At, TypeInv, HandlersKnow, Knows, OnPost
    <3> QED  BY <2>1, <3>1 DEF Edit, Shows, TypeInv, TypeOK, Post
  <2>2. CASE post' = post
    BY <2>2 DEF Shows
  <2> QED  BY <2>1, <2>2 DEF AddComment, Notify, EditComment, DropComment, Find, Insert,
                             Reread, Apply, Save, Unsave, rows
<1>4. CASE Return(h)
  <2>1. Quiet(h, Idle)
    BY <1>2, <1>3, <1>4 DEF Quiet, Return, Goto, Idle
  <2> QED  BY <2>1, QuietKeeps
<1>5. ASSUME NEW m, Goto(h, m), m.img = l.img, m.post = l.post,
             m.pc \notin {"swap", "current", "unlink"}
      PROVE  ImageInv'
  <2>1. Quiet(h, m)
    BY <1>1, <1>2, <1>3, <1>5 DEF Quiet, Goto
  <2> QED  BY <2>1, QuietKeeps
<1>6. ASSUME NEW i, NEW n, Goto(h, [l EXCEPT !.pc = "notify", !.id = i, !.idAt = n])
      PROVE  ImageInv'
  <2> DEFINE m == [l EXCEPT !.pc = "notify", !.id = i, !.idAt = n]
  <2>1. m.img = l.img /\ m.post = l.post /\ m.pc = "notify"
    BY <1>1 DEF Local
  <2> HIDE DEF m
  <2> QED  BY <1>5, <1>6, <2>1 DEF m
<1>7. ASSUME NEW i, Goto(h, [l EXCEPT !.pc = "unsave", !.id = i]) PROVE ImageInv'
  <2> DEFINE m == [l EXCEPT !.pc = "unsave", !.id = i]
  <2>1. m.img = l.img /\ m.post = l.post /\ m.pc = "unsave"
    BY <1>1 DEF Local
  <2> HIDE DEF m
  <2> QED  BY <1>5, <1>7, <2>1 DEF m
<1>8. ASSUME NEW i, Goto(h, [l EXCEPT !.pc = "apply", !.id = i, !.had = reaction[i].value])
      PROVE  ImageInv'
  <2> DEFINE v == reaction[i].value
             m == [l EXCEPT !.pc = "apply", !.id = i, !.had = v]
  <2>1. Goto(h, m)
    BY <1>8
  <2> HIDE DEF v
  <2>2. m.img = l.img /\ m.post = l.post /\ m.pc = "apply"
    BY <1>1 DEF Local
  <2> HIDE DEF m
  <2> QED  BY <1>5, <2>1, <2>2
<1>9. ASSUME NEW pc \in {"save", "insert", "reread"}, Goto(h, [l EXCEPT !.pc = pc])
      PROVE  ImageInv'
  <2> DEFINE m == [l EXCEPT !.pc = pc]
  <2>1. m.img = l.img /\ m.post = l.post /\ m.pc = pc
    BY <1>1 DEF Local
  <2> HIDE DEF m
  <2> QED  BY <1>5, <1>9, <2>1 DEF m
<1>10. CASE Goto(h, [l EXCEPT !.pc = "insert", !.tries = @ + 1])
  <2> DEFINE m == [l EXCEPT !.pc = "insert", !.tries = @ + 1]
  <2>1. m.img = l.img /\ m.post = l.post /\ m.pc = "insert"
    BY <1>1 DEF Local
  <2> HIDE DEF m
  <2> QED  BY <1>5, <1>10, <2>1 DEF m
<1>11. CASE Edit(h) \/ Notify(h) \/ EditComment(h) \/ DropComment(h) \/ Apply(h)
            \/ Save(h) \/ Unsave(h)
  BY <1>4, <1>11 DEF Edit, Notify, EditComment, DropComment, Apply, Save, Unsave
<1>12. CASE AddComment(h)
  <2>1. Return(h) \/ \E c \in Ids : Goto(h, [l EXCEPT !.pc = "notify", !.id = c,
                                                       !.idAt = issued["comment"][c] + 1])
    BY <1>12 DEF AddComment, Return
  <2> QED  BY <1>4, <1>6, <2>1
<1>13. CASE Find(h)
  <2>1. \/ \E i \in Ids : \/ Goto(h, [l EXCEPT !.pc = "unsave", !.id = i])
                          \/ Goto(h, [l EXCEPT !.pc = "apply", !.id = i,
                                               !.had = reaction[i].value])
        \/ Goto(h, [l EXCEPT !.pc = "save"])
        \/ Goto(h, [l EXCEPT !.pc = "insert"])
    BY <1>13 DEF Find, Of, RowsOf
  <2> QED  BY <1>7, <1>8, <1>9, <2>1
<1>14. CASE Insert(h)
  <2>1. CASE l.tries < MaxTries \/ l.tries = MaxTries
    <3>1. Return(h) \/ Goto(h, [l EXCEPT !.pc = "reread"])
      BY <1>14, <2>1 DEF Insert
    <3> QED  BY <1>4, <1>9, <3>1
  <2>2. l.tries \in 0..MaxTries
    BY <1>1 DEF Local
  <2> QED  BY <2>1, <2>2, PostsAssumption
<1>15. CASE Reread(h)
  <2>1. \/ \E i \in Ids : Goto(h, [l EXCEPT !.pc = "apply", !.id = i,
                                            !.had = reaction[i].value])
        \/ Goto(h, [l EXCEPT !.pc = "insert", !.tries = @ + 1])
    BY <1>15 DEF Reread, Of, RowsOf
  <2> QED  BY <1>8, <1>10, <2>1
<1> QED
  BY <1>11, <1>12, <1>13, <1>14, <1>15

LEMMA StartKeeps ==
  ASSUME TypeInv, ImageInv, NEW h \in Handlers, NEW u \in Users, Start(h, u)
  PROVE  ImageInv'
<1>1. ASSUME NEW op, NEW m, Arrive(h, op, m), files' = files, post' = post,
             m.pc \notin {"swap", "current", "unlink"},
             m.img = None \/ (m.post \in Ids /\ Shows(m.post, m.img))
      PROVE  ImageInv'
  <2>1. Quiet(h, m)
    BY <1>1 DEF Quiet, Arrive, Shows
  <2> QED  BY <2>1, QuietKeeps
<1>2. ASSUME NEW op, NEW m, Arrive(h, op, m), files' = files, post' = post,
             m.pc \notin {"swap", "current", "unlink"}, m.img = None
      PROVE  ImageInv'
  <2>1. Quiet(h, m)
    BY <1>2 DEF Quiet, Arrive, Shows
  <2> QED  BY <2>1, QuietKeeps
<1>3. ASSUME NEW p \in Ids, UploadStart(h, u, p) PROVE ImageInv'
  BY <1>3, UploadStartKeeps
<1>4. ASSUME NEW p \in Ids, DeleteStart(h, u, p) PROVE ImageInv'
  <2> DEFINE i == post[p].img
             m == [Idle EXCEPT !.pc = "drop", !.by = u, !.post = p, !.img = i]
  <2>1. Arrive(h, "delete", m) /\ files' = files /\ post' = post /\ Shows(p, i)
    BY <1>4 DEF DeleteStart, rows, Shows
  <2> HIDE DEF i
  <2>2. m.pc = "drop" /\ m.post = p /\ m.img = i
    BY DEF Idle
  <2> HIDE DEF m
  <2> QED  BY <1>1, <2>1, <2>2
<1>5. ASSUME NEW p \in Ids, EditStart(h, u, p) PROVE ImageInv'
  <2> DEFINE m == [Idle EXCEPT !.pc = "edit", !.by = u, !.post = p,
                               !.postAt = issued["post"][p]]
  <2>1. m.pc = "edit" /\ m.img = None
    BY DEF Idle
  <2> HIDE DEF m
  <2> QED  BY <1>2, <1>5, <2>1 DEF EditStart, rows, m
<1>6. ASSUME NEW p \in Ids, CommentStart(h, u, p) PROVE ImageInv'
  <2> DEFINE o == post[p].owner
             m == [Idle EXCEPT !.pc = "comment", !.by = u, !.post = p, !.owner = o,
                               !.postAt = issued["post"][p]]
  <2>1. Arrive(h, "comment", m) /\ files' = files /\ post' = post
    BY <1>6 DEF CommentStart, rows
  <2> HIDE DEF o
  <2>2. m.pc = "comment" /\ m.img = None
    BY DEF Idle
  <2> HIDE DEF m
  <2> QED  BY <1>2, <2>1, <2>2
<1>7. ASSUME NEW p \in Ids, NEW v \in Values, BookmarkStart(h, u, p) \/ ReactStart(h, u, p, v)
      PROVE  ImageInv'
  <2>1. PICK w \in Values, op \in {"react", "bookmark"} :
          /\ Arrive(h, op, [Idle EXCEPT !.pc = "find", !.by = u, !.post = p, !.value = w])
          /\ UNCHANGED <<rows, files>>
    BY <1>7 DEF BookmarkStart, ReactStart, Values
  <2> DEFINE m == [Idle EXCEPT !.pc = "find", !.by = u, !.post = p, !.value = w]
  <2>2. m.pc = "find" /\ m.img = None
    BY DEF Idle
  <2> HIDE DEF m
  <2> QED  BY <1>2, <2>1, <2>2 DEF rows, m
<1>8. ASSUME NEW c \in Ids, EditCommentStart(h, u, c) \/ DeleteCommentStart(h, u, c)
      PROVE  ImageInv'
  <2>1. CASE EditCommentStart(h, u, c)
    <3> DEFINE m == [Idle EXCEPT !.pc = "editComment", !.by = u, !.id = c,
                                 !.idAt = issued["comment"][c]]
    <3>1. m.pc = "editComment" /\ m.img = None
      BY DEF Idle
    <3> HIDE DEF m
    <3> QED  BY <1>2, <2>1, <3>1 DEF EditCommentStart, rows, m
  <2>2. CASE DeleteCommentStart(h, u, c)
    <3> DEFINE m == [Idle EXCEPT !.pc = "dropComment", !.by = u, !.id = c]
    <3>1. m.pc = "dropComment" /\ m.img = None
      BY DEF Idle
    <3> HIDE DEF m
    <3> QED  BY <1>2, <2>2, <3>1 DEF DeleteCommentStart, rows, m
  <2> QED  BY <1>8, <2>1, <2>2
<1> QED
  BY <1>3, <1>4, <1>5, <1>6, <1>7, <1>8 DEF Start, Values

LEMMA NextImages == TypeInv /\ ImageInv /\ [Next]_vars => ImageInv'
<1> SUFFICES ASSUME TypeInv, ImageInv, [Next]_vars PROVE ImageInv'
    OBVIOUS
<1>1. ASSUME NEW h \in Handlers, Step(h) PROVE ImageInv'
  BY <1>1, QuietSteps, DropKeeps, UnlinkKeeps, SwapKeeps, CurrentKeeps DEF Step
<1>2. ASSUME NEW h \in Handlers, NEW u \in Users, Start(h, u) PROVE ImageInv'
  BY <1>2, StartKeeps
<1>3. ASSUME NEW u \in Users, AddPost(u) PROVE ImageInv'
  <2>1. \A p \in Ids, f \in Files : Shows(p, f)' => Shows(p, f)
    <3>1. None \notin Files
      BY PostsAssumption
    <3> QED  BY <1>3, <3>1 DEF AddPost, Shows, TypeInv, TypeOK
  <2> QED  BY <1>3, <2>1, StillKeeps DEF AddPost
<1>4. ASSUME NEW u \in Users, NEW S, MarkRead(u, S) PROVE ImageInv'
  <2>1. \A p \in Ids, f \in Files : Shows(p, f)' => Shows(p, f)
    BY <1>4 DEF MarkRead, Shows
  <2> QED  BY <1>4, <2>1, StillKeeps DEF MarkRead
<1>5. CASE UNCHANGED vars
  <2>1. \A p \in Ids, f \in Files : Shows(p, f)' => Shows(p, f)
    BY <1>5 DEF vars, rows, Shows
  <2> QED  BY <1>5, <2>1, StillKeeps DEF vars
<1> QED
  BY <1>1, <1>2, <1>3, <1>4, <1>5 DEF Next

LEMMA InitImages == Init => ImageInv
<1> SUFFICES ASSUME Init PROVE ImageInv
    OBVIOUS
<1>1. \A p \in Ids, f \in Files : ~Shows(p, f)
  BY PostsAssumption DEF Init, Empty, Shows
<1>2. \A h \in Handlers : ~Pending(h)
  BY DEF Init, Idle, Pending
<1> QED
  BY <1>1, <1>2 DEF ImageInv, OwnImages, HeldImages, PendingFiles, ShownExist

(* images.go:188-203: at every moment of any uploads, edits and deletions  *)
(* that race, the image a post shows is on disk.                           *)
THEOREM ShownImagesExist == Spec => []ImagesExist
<1>1. TypeInv /\ ImageInv => ImagesExist
  BY DEF ImageInv, ShownExist, Shows, ImagesExist, RowsOf, TypeInv, TypeOK, Post
<1> QED
  BY <1>1, InitImages, NextImages, TypedAlways, PTL DEF Spec

-----------------------------------------------------------------------------
(* No file is forgotten: the proof, by an invariant that gives a reason    *)
(* for each file on disk.                                                  *)

(* The post that f was uploaded for is gone, or its id names a later one. *)
Gone(f) ==
  LET p == files[f].post IN post[p] = None \/ issued["post"][p] # files[f].time

(* A handler is about to show file f, or to delete it. *)
Held(f) ==
  \E h \in Handlers : \/ Pending(h) /\ req[h].file = f
                      \/ req[h].pc = "unlink" /\ req[h].img = f

Accounted ==
  \A f \in Files : files[f] # None => (\E p \in Ids : Shows(p, f)) \/ Held(f) \/ Gone(f)

(* A file that is shown or pending was uploaded for that post. *)
FilesTell ==
  /\ \A p \in Ids, f \in Files : Shows(p, f) => files[f].post = p
  /\ \A h \in Handlers : Pending(h) => files[req[h].file].post = req[h].post
  /\ \A f \in Files : files[f] # None => files[f].time <= issued["post"][files[f].post]

FileInv == Accounted /\ FilesTell

(* Ids of posts are given out one by one, and never to a post there is. *)
PostsGoOn ==
  \A p \in Ids : /\ issued["post"][p] <= issued'["post"][p]
                 /\ \/ post[p] = None => post'[p] = None
                    \/ issued["post"][p] < issued'["post"][p]

LEMMA GoneForGood ==
  ASSUME TypeInv, FileInv, PostsGoOn, issued' \in [Tables -> [Ids -> Nat]],
         NEW f \in Files, files[f] # None, files'[f] = files[f]
  PROVE  /\ Gone(f) => Gone(f)'
         /\ files'[f].time <= issued'["post"][files'[f].post]
<1> PICK p \in Ids, t \in Nat : p = files[f].post /\ t = files[f].time
    BY DEF TypeInv, TypeOK, Upload
<1>1. issued["post"][p] \in Nat /\ issued'["post"][p] \in Nat /\ t <= issued["post"][p]
  BY DEF TypeInv, TypeOK, Tables, FileInv, FilesTell
<1>2. t <= issued'["post"][p]
  BY <1>1 DEF PostsGoOn
<1>3. ASSUME post[p] = None PROVE Gone(f)'
  BY <1>1, <1>3 DEF PostsGoOn, Gone
<1>4. ASSUME issued["post"][p] # t PROVE Gone(f)'
  <2>1. issued'["post"][p] # t
    BY <1>1, <1>4 DEF PostsGoOn
  <2> QED  BY <2>1 DEF Gone
<1> QED
  BY <1>2, <1>3, <1>4 DEF Gone

(* Handler g keeps the file it is about to show or to delete. *)
Holds(g) ==
  /\ Pending(g) => Pending(g)' /\ req'[g].file = req[g].file
  /\ req[g].pc = "unlink" => req'[g].pc = "unlink" /\ req'[g].img = req[g].img

(* A step that touches no file, hides no image and has every handler keep  *)
(* what it holds.                                                          *)
LEMMA FilesStay ==
  ASSUME TypeInv, FileInv, PostsGoOn, issued' \in [Tables -> [Ids -> Nat]], files' = files,
         \A p \in Ids, f \in Files : Shows(p, f)' <=> Shows(p, f),
         \A g \in Handlers : Holds(g),
         \A g \in Handlers : Pending(g)' => /\ Pending(g) /\ req'[g].file = req[g].file
                                            /\ req'[g].post = req[g].post
  PROVE  FileInv'
<1>1. Accounted'
  <2> SUFFICES ASSUME NEW f \in Files, files[f] # None
               PROVE  (\E p \in Ids : Shows(p, f)') \/ Held(f)' \/ Gone(f)'
      BY DEF Accounted
  <2>1. CASE Held(f)
    <3>1. PICK h \in Handlers : \/ Pending(h) /\ req[h].file = f
                                \/ req[h].pc = "unlink" /\ req[h].img = f
      BY <2>1 DEF Held
    <3> QED  BY <3>1 DEF Holds, Held
  <2>2. CASE Gone(f)
    BY <2>2, GoneForGood
  <2> QED  BY <2>1, <2>2 DEF FileInv, Accounted
<1>2. FilesTell'
  <2>1. \A p \in Ids, f \in Files : Shows(p, f)' => files'[f].post = p
    BY DEF FileInv, FilesTell
  <2>2. \A g \in Handlers : Pending(g)' => files'[req'[g].file].post = req'[g].post
    BY DEF FileInv, FilesTell
  <2>3. \A f \in Files : files'[f] # None => files'[f].time <= issued'["post"][files'[f].post]
    BY GoneForGood
  <2> QED  BY <2>1, <2>2, <2>3 DEF FilesTell
<1> QED
  BY <1>1, <1>2 DEF FileInv

LEMMA PostsUntouched ==
  ASSUME TypeInv, post' = post, issued' = issued
  PROVE  PostsGoOn /\ \A p \in Ids, f \in Files : Shows(p, f)' <=> Shows(p, f)
<1>1. \A p \in Ids : issued["post"][p] \in Nat
  BY DEF TypeInv, TypeOK, Tables
<1> QED
  BY <1>1 DEF PostsGoOn, Shows

(* A step of handler h, which neither had a file nor gets one. *)
LEMMA NoFileOfItsOwn ==
  ASSUME TypeInv, TypeInv', FileInv, NEW h \in Handlers, PostsGoOn, files' = files,
         \A p \in Ids, f \in Files : Shows(p, f)' <=> Shows(p, f),
         req[h].pc \notin {"swap", "current", "unlink"},
         req'[h].pc \notin {"swap", "current", "unlink"},
         \A g \in Handlers \ {h} : req'[g] = req[g]
  PROVE  FileInv'
<1>1. issued' \in [Tables -> [Ids -> Nat]]
  BY DEF TypeInv, TypeOK
<1>2. \A g \in Handlers : Holds(g)
  BY DEF Holds, Pending
<1>3. \A g \in Handlers : Pending(g)' => /\ Pending(g) /\ req'[g].file = req[g].file
                                         /\ req'[g].post = req[g].post
  BY DEF Pending
<1> QED
  BY <1>1, <1>2, <1>3, FilesStay

LEMMA PlaceOf ==
  ASSUME NEW l \in Local, NEW pc, NEW i, NEW v, NEW n
  PROVE  /\ [l EXCEPT !.pc = pc].pc = pc
         /\ [l EXCEPT !.pc = pc, !.id = i].pc = pc
         /\ [l EXCEPT !.pc = pc, !.id = i, !.had = v].pc = pc
         /\ [l EXCEPT !.pc = pc, !.id = i, !.idAt = n].pc = pc
         /\ [l EXCEPT !.pc = pc, !.tries = n].pc = pc
BY DEF Local

LEMMA MarkPlaces ==
  ASSUME TypeInv, NEW h \in Handlers,
         \/ Edit(h) \/ AddComment(h) \/ Notify(h) \/ EditComment(h) \/ DropComment(h)
         \/ Find(h) \/ Insert(h) \/ Reread(h) \/ Apply(h) \/ Save(h) \/ Unsave(h)
  PROVE  /\ req[h].pc \notin {"swap", "current", "unlink"}
         /\ req'[h].pc \notin {"swap", "current", "unlink"}
         /\ \A g \in Handlers \ {h} : req'[g] = req[g]
<1> PICK l \in Local : l = req[h]
    BY DEF TypeInv, TypeOK
<1>0. req[h].pc \notin {"swap", "current", "unlink"}
  BY DEF Edit, AddComment, Notify, EditComment, DropComment, Find, Insert, Reread, Apply,
         Save, Unsave, At
<1> DEFINE Elsewhere == /\ req'[h].pc \notin {"swap", "current", "unlink"}
                        /\ \A g \in Handlers \ {h} : req'[g] = req[g]
<1>1. ASSUME NEW m, Goto(h, m), m.pc \notin {"swap", "current", "unlink"} PROVE Elsewhere
  BY <1>1 DEF Goto, TypeInv, TypeOK
<1>2. Return(h) => Elsewhere
  BY <1>1 DEF Return, Idle
<1>3. ASSUME NEW pc \in {"save", "insert", "reread"}, Goto(h, [l EXCEPT !.pc = pc])
      PROVE  Elsewhere
  BY <1>1, <1>3, PlaceOf
<1>4. ASSUME NEW i, Goto(h, [l EXCEPT !.pc = "unsave", !.id = i])
      PROVE  Elsewhere
  <2> DEFINE m == [l EXCEPT !.pc = "unsave", !.id = i]
  <2>1. m.pc = "unsave" /\ Goto(h, m)
    BY <1>4, PlaceOf
  <2> HIDE DEF m
  <2> QED  BY <1>1, <2>1
<1>12. ASSUME NEW i, NEW n, Goto(h, [l EXCEPT !.pc = "notify", !.id = i, !.idAt = n])
       PROVE  Elsewhere
  <2> DEFINE m == [l EXCEPT !.pc = "notify", !.id = i, !.idAt = n]
  <2>1. m.pc = "notify" /\ Goto(h, m)
    BY <1>12, PlaceOf
  <2> HIDE DEF m
  <2> QED  BY <1>1, <2>1
<1>5. ASSUME NEW i, NEW v, Goto(h, [l EXCEPT !.pc = "apply", !.id = i, !.had = v])
      PROVE  Elsewhere
  <2> DEFINE m == [l EXCEPT !.pc = "apply", !.id = i, !.had = v]
  <2>1. m.pc = "apply" /\ Goto(h, m)
    BY <1>5, PlaceOf
  <2> HIDE DEF m
  <2> QED  BY <1>1, <2>1
<1>6. ASSUME NEW n, Goto(h, [l EXCEPT !.pc = "insert", !.tries = n])
      PROVE  Elsewhere
  <2> DEFINE m == [l EXCEPT !.pc = "insert", !.tries = n]
  <2>1. m.pc = "insert" /\ Goto(h, m)
    BY <1>6, PlaceOf
  <2> HIDE DEF m
  <2> QED  BY <1>1, <2>1
<1> SUFFICES Elsewhere
    BY <1>0
<1> HIDE DEF Elsewhere
<1>7. CASE Edit(h) \/ Notify(h) \/ EditComment(h) \/ DropComment(h) \/ Apply(h)
           \/ Save(h) \/ Unsave(h)
  BY <1>2, <1>7 DEF Edit, Notify, EditComment, DropComment, Apply, Save, Unsave
<1>8. CASE AddComment(h)
  <2>1. Return(h) \/ \E c \in Ids : Goto(h, [l EXCEPT !.pc = "notify", !.id = c,
                                                       !.idAt = issued["comment"][c] + 1])
    BY <1>8 DEF AddComment, Return
  <2> QED  BY <1>2, <1>12, <2>1
<1>9. CASE Find(h)
  <2>1. \/ \E i \in Ids : \/ Goto(h, [l EXCEPT !.pc = "unsave", !.id = i])
                          \/ Goto(h, [l EXCEPT !.pc = "apply", !.id = i,
                                               !.had = reaction[i].value])
        \/ Goto(h, [l EXCEPT !.pc = "save"])
        \/ Goto(h, [l EXCEPT !.pc = "insert"])
    BY <1>9 DEF Find, Of, RowsOf
  <2> QED  BY <1>3, <1>4, <1>5, <2>1
<1>10. CASE Insert(h)
  <2>1. l.tries \in 0..MaxTries
    BY DEF Local
  <2>2. Return(h) \/ Goto(h, [l EXCEPT !.pc = "reread"])
    <3>1. CASE l.tries < MaxTries
      BY <1>10, <3>1 DEF Insert
    <3>2. CASE l.tries = MaxTries
      BY <1>10, <3>2 DEF Insert
    <3> QED  BY <2>1, <3>1, <3>2, PostsAssumption
  <2> QED  BY <1>2, <1>3, <2>2
<1>11. CASE Reread(h)
  <2>1. \/ \E i \in Ids : Goto(h, [l EXCEPT !.pc = "apply", !.id = i,
                                            !.had = reaction[i].value])
        \/ Goto(h, [l EXCEPT !.pc = "insert", !.tries = l.tries + 1])
    BY <1>11 DEF Reread, Of, RowsOf
  <2> QED  BY <1>5, <1>6, <2>1
<1> QED
  BY <1>7, <1>8, <1>9, <1>10, <1>11

LEMMA MarkStepsKeepFiles ==
  ASSUME TypeInv, TypeInv', FileInv, NEW h \in Handlers,
         \/ Edit(h) \/ AddComment(h) \/ Notify(h) \/ EditComment(h) \/ DropComment(h)
         \/ Find(h) \/ Insert(h) \/ Reread(h) \/ Apply(h) \/ Save(h) \/ Unsave(h)
  PROVE  FileInv'
<1>1. files' = files
  BY DEF Edit, AddComment, Notify, EditComment, DropComment, Find, Insert, Reread, Apply,
         Save, Unsave
<1>2. PostsGoOn /\ \A p \in Ids, f \in Files : Shows(p, f)' <=> Shows(p, f)
  <2>1. CASE Edit(h)
    <3>1. req[h].post \in Ids
      BY <2>1 DEF Edit, At, TypeInv, HandlersKnow, Knows, OnPost
    <3>2. issued' = issued /\ \A p \in Ids : issued["post"][p] \in Nat
      BY <2>1 DEF Edit, TypeInv, TypeOK, Tables
    <3>3. \A p \in Ids : post[p] = None => post'[p] = None
      BY <2>1, <3>1 DEF Edit, TypeInv, TypeOK
    <3>4. \A p \in Ids, f \in Files : Shows(p, f)' <=> Shows(p, f)
      <4>1. \A p \in Ids : post[p] # None => post'[p] # None /\ post'[p].img = post[p].img
        <5>1. \A p \in Ids \ {req[h].post} : post'[p] = post[p]
          BY <2>1 DEF Edit, TypeInv, TypeOK
        <5>2. ASSUME post[req[h].post] # None
              PROVE  /\ post'[req[h].post] # None
                     /\ post'[req[h].post].img = post[req[h].post].img
          <6>1. req[h].by \in Users
            BY <2>1 DEF Edit, At, TypeInv, HandlersKnow, Knows
          <6>2. PICK r \in Post : r = post[req[h].post]
            BY <3>1, <5>2 DEF TypeInv, TypeOK
          <6> DEFINE s == [r EXCEPT !.by = req[h].by, !.stray = PostReissued(req[h])]
          <6>3. post'[req[h].post] = s
            BY <2>1, <3>1, <5>2, <6>2 DEF Edit, TypeInv, TypeOK
          <6>4. s \in Post /\ s.img = r.img
            BY <6>1 DEF Post, PostReissued
          <6> HIDE DEF s
          <6> QED  BY <6>2, <6>3, <6>4, NoneIsNoRow
        <5> QED  BY <5>1, <5>2
      <4> QED  BY <3>3, <4>1 DEF Shows
    <3> QED  BY <3>2, <3>3, <3>4 DEF PostsGoOn
  <2>2. CASE AddComment(h)
    <3>1. \A p \in Ids : issued'["post"][p] = issued["post"][p] /\ issued["post"][p] \in Nat
      BY <2>2 DEF AddComment, Issue, TypeInv, TypeOK, Tables
    <3>2. post' = post
      BY <2>2 DEF AddComment
    <3> QED  BY <3>1, <3>2 DEF PostsGoOn, Shows
  <2>3. CASE post' = post /\ issued' = issued
    BY <2>3, PostsUntouched
  <2> QED  BY <2>1, <2>2, <2>3 DEF Notify, EditComment, DropComment, Find, Insert, Reread,
                                   Apply, Save, Unsave, rows
<1> QED
  BY <1>1, <1>2, MarkPlaces, NoFileOfItsOwn

LEMMA ArrivalsKeepFiles ==
  ASSUME TypeInv, TypeInv', FileInv, NEW h \in Handlers, NEW op, NEW m, Arrive(h, op, m),
         m.pc \notin {"swap", "current", "unlink"}, files' = files, UNCHANGED <<rows, issued>>
  PROVE  FileInv'
<1>1. /\ req[h].pc = "idle" /\ req'[h] = m
      /\ \A g \in Handlers \ {h} : req'[g] = req[g]
  BY DEF Arrive, At, TypeInv, TypeOK
<1>2. PostsGoOn /\ \A p \in Ids, f \in Files : Shows(p, f)' <=> Shows(p, f)
  BY PostsUntouched DEF rows
<1> QED
  BY <1>1, <1>2, NoFileOfItsOwn

LEMMA StartsKeepFiles ==
  ASSUME TypeInv, TypeInv', FileInv, NEW h \in Handlers, NEW u \in Users, Start(h, u),
         \A p \in Ids : ~UploadStart(h, u, p)
  PROVE  FileInv'
<1>1. Idle \in Local
  BY IdleType
<1>2. ASSUME NEW p, EditStart(h, u, p) PROVE FileInv'
  <2> DEFINE m == [Idle EXCEPT !.pc = "edit", !.by = u, !.post = p,
                               !.postAt = issued["post"][p]]
  <2>1. m.pc = "edit"
    BY DEF Idle
  <2> HIDE DEF m
  <2> QED  BY <1>2, <2>1, ArrivalsKeepFiles DEF EditStart, m
<1>3. ASSUME NEW p, DeleteStart(h, u, p) PROVE FileInv'
  <2> DEFINE m == [Idle EXCEPT !.pc = "drop", !.by = u, !.post = p, !.img = post[p].img]
  <2>1. m.pc = "drop"
    BY DEF Idle
  <2>2. Arrive(h, "delete", m) /\ files' = files /\ UNCHANGED <<rows, issued>>
    BY <1>3 DEF DeleteStart
  <2> HIDE DEF m
  <2> QED  BY <2>1, <2>2, ArrivalsKeepFiles
<1>4. ASSUME NEW p, CommentStart(h, u, p) PROVE FileInv'
  <2> DEFINE m == [Idle EXCEPT !.pc = "comment", !.by = u, !.post = p,
                               !.owner = post[p].owner, !.postAt = issued["post"][p]]
  <2>1. m.pc = "comment"
    BY DEF Idle
  <2>2. Arrive(h, "comment", m) /\ files' = files /\ UNCHANGED <<rows, issued>>
    BY <1>4 DEF CommentStart
  <2> HIDE DEF m
  <2> QED  BY <2>1, <2>2, ArrivalsKeepFiles
<1>5. ASSUME NEW p, NEW v, BookmarkStart(h, u, p) \/ ReactStart(h, u, p, v) PROVE FileInv'
  <2>1. PICK w, op : /\ Arrive(h, op, [Idle EXCEPT !.pc = "find", !.by = u, !.post = p,
                                                   !.value = w])
                     /\ files' = files /\ UNCHANGED <<rows, issued>>
    BY <1>5 DEF BookmarkStart, ReactStart
  <2> DEFINE m == [Idle EXCEPT !.pc = "find", !.by = u, !.post = p, !.value = w]
  <2>2. m.pc = "find"
    BY DEF Idle
  <2> HIDE DEF m
  <2> QED  BY <2>1, <2>2, ArrivalsKeepFiles DEF m
<1>6. ASSUME NEW c, EditCommentStart(h, u, c) \/ DeleteCommentStart(h, u, c) PROVE FileInv'
  <2>1. CASE EditCommentStart(h, u, c)
    <3> DEFINE m == [Idle EXCEPT !.pc = "editComment", !.by = u, !.id = c,
                                 !.idAt = issued["comment"][c]]
    <3>1. m.pc = "editComment"
      BY DEF Idle
    <3> HIDE DEF m
    <3> QED  BY <2>1, <3>1, ArrivalsKeepFiles DEF EditCommentStart, m
  <2>2. CASE DeleteCommentStart(h, u, c)
    <3> DEFINE m == [Idle EXCEPT !.pc = "dropComment", !.by = u, !.id = c]
    <3>1. m.pc = "dropComment"
      BY DEF Idle
    <3> HIDE DEF m
    <3> QED  BY <2>2, <3>1, ArrivalsKeepFiles DEF DeleteCommentStart, m
  <2> QED  BY <1>6, <2>1, <2>2
<1> QED
  BY <1>2, <1>3, <1>4, <1>5, <1>6 DEF Start

(* The file written is pending; what the others hold is as it was. *)
LEMMA UploadsKeepFiles ==
  ASSUME TypeInv, TypeInv', FileInv, NEW h \in Handlers, NEW u \in Users, NEW p \in Ids,
         UploadStart(h, u, p)
  PROVE  FileInv'
<1>1. PICK f \in Files :
        /\ FreshFile(f)
        /\ files' = [files EXCEPT ![f] = [post |-> p, time |-> issued["post"][p]]]
        /\ Arrive(h, "upload", [Idle EXCEPT !.pc = "swap", !.by = u, !.post = p,
                                            !.img = post[p].img, !.file = f])
  BY DEF UploadStart
<1>2. post' = post /\ issued' = issued
  BY DEF UploadStart, rows
<1>3. req[h].pc = "idle" /\ req'[h].pc = "swap" /\ req'[h].post = p /\ req'[h].file = f
  BY <1>1 DEF Arrive, At, TypeInv, TypeOK, Idle
<1>4. \A g \in Handlers \ {h} : req'[g] = req[g]
  BY <1>1 DEF Arrive, TypeInv, TypeOK
<1>5. /\ files'[f].post = p /\ files'[f].time = issued["post"][p]
      /\ \A e \in Files \ {f} : files'[e] = files[e]
  BY <1>1 DEF TypeInv, TypeOK
<1>6. PostsGoOn /\ \A q \in Ids, e \in Files : Shows(q, e)' <=> Shows(q, e)
  BY <1>2, PostsUntouched
<1>7. (\A q \in Ids : ~Shows(q, f)) /\ \A g \in Handlers : f \notin {req[g].img, req[g].file}
  BY <1>1 DEF FreshFile, Shows, RowsOf
<1>8. issued' \in [Tables -> [Ids -> Nat]]
  BY DEF TypeInv, TypeOK
<1>9. Accounted'
  <2> SUFFICES ASSUME NEW e \in Files, files'[e] # None
               PROVE  (\E q \in Ids : Shows(q, e)') \/ Held(e)' \/ Gone(e)'
      BY DEF Accounted
  <2>1. CASE e = f
    BY <1>3, <2>1 DEF Held, Pending
  <2>2. CASE e # f
    <3>1. files[e] # None /\ files'[e] = files[e]
      BY <1>5, <2>2
    <3>2. Held(e) => Held(e)'
      <4> SUFFICES ASSUME NEW g \in Handlers, \/ Pending(g) /\ req[g].file = e
                                              \/ req[g].pc = "unlink" /\ req[g].img = e
                   PROVE  Held(e)'
          BY DEF Held
      <4>1. req'[g] = req[g]
        BY <1>3, <1>4 DEF Pending
      <4> QED  BY <4>1 DEF Held, Pending
    <3> QED  BY <1>6, <1>8, <3>1, <3>2, GoneForGood DEF FileInv, Accounted
  <2> QED  BY <2>1, <2>2
<1>10. FilesTell'
  <2>1. \A q \in Ids, e \in Files : Shows(q, e)' => files'[e].post = q
    BY <1>5, <1>6, <1>7 DEF FileInv, FilesTell
  <2>2. \A g \in Handlers : Pending(g)' => files'[req'[g].file].post = req'[g].post
    <3> SUFFICES ASSUME NEW g \in Handlers, Pending(g)', g # h
                 PROVE  files'[req'[g].file].post = req'[g].post
        BY <1>3, <1>5
    <3>1. req'[g] = req[g] /\ Pending(g) /\ req[g].file \in Files \ {f}
      BY <1>4, <1>7, ImageTypes DEF Pending
    <3> QED  BY <1>5, <3>1 DEF FileInv, FilesTell
  <2>3. \A e \in Files : files'[e] # None => files'[e].time <= issued'["post"][files'[e].post]
    <3> SUFFICES ASSUME NEW e \in Files, files'[e] # None
                 PROVE  files'[e].time <= issued'["post"][files'[e].post]
        OBVIOUS
    <3>1. CASE e = f
      BY <1>2, <1>5, <3>1 DEF TypeInv, TypeOK, Tables
    <3>2. CASE e # f
      BY <1>5, <1>6, <1>8, <3>2, GoneForGood
    <3> QED  BY <3>1, <3>2
  <2> QED  BY <2>1, <2>2, <2>3 DEF FilesTell
<1> QED
  BY <1>9, <1>10 DEF FileInv

(* A handler deletes its file and is done. *)
LEMMA DeletionsKeepFiles ==
  ASSUME TypeInv, TypeInv', ImageInv, FileInv, NEW h \in Handlers, NEW e \in Files,
         Return(h), post' = post, issued' = issued, files' = [files EXCEPT ![e] = None],
         Pending(h) => req[h].file = e, req[h].pc = "unlink" => req[h].img = e,
         \A p \in Ids : ~Shows(p, e), \A g \in Handlers \ {h} : Pending(g) => req[g].file # e
  PROVE  FileInv'
<1>1. req'[h].pc = "idle" /\ \A g \in Handlers \ {h} : req'[g] = req[g]
  BY DEF Return, Goto, Idle, TypeInv, TypeOK
<1>2. files'[e] = None /\ \A f \in Files \ {e} : files'[f] = files[f]
  BY DEF TypeInv, TypeOK
<1>3. PostsGoOn /\ \A q \in Ids, f \in Files : Shows(q, f)' <=> Shows(q, f)
  BY PostsUntouched
<1>4. issued' \in [Tables -> [Ids -> Nat]]
  BY DEF TypeInv, TypeOK
<1>5. Accounted'
  <2> SUFFICES ASSUME NEW f \in Files, files'[f] # None
               PROVE  (\E q \in Ids : Shows(q, f)') \/ Held(f)' \/ Gone(f)'
      BY DEF Accounted
  <2>1. f # e /\ files'[f] = files[f] /\ files[f] # None
    BY <1>2
  <2>2. Held(f) => Held(f)'
    <3> SUFFICES ASSUME NEW g \in Handlers, \/ Pending(g) /\ req[g].file = f
                                            \/ req[g].pc = "unlink" /\ req[g].img = f
                 PROVE  Held(f)'
        BY DEF Held
    <3>1. req'[g] = req[g]
      BY <1>1, <2>1
    <3> QED  BY <3>1 DEF Held, Pending
  <2> QED  BY <1>3, <1>4, <2>1, <2>2, GoneForGood DEF FileInv, Accounted
<1>6. FilesTell'
  <2>1. \A q \in Ids, f \in Files : Shows(q, f)' => files'[f].post = q
    BY <1>2, <1>3 DEF FileInv, FilesTell
  <2>2. \A g \in Handlers : Pending(g)' => files'[req'[g].file].post = req'[g].post
    <3> SUFFICES ASSUME NEW g \in Handlers, Pending(g)'
                 PROVE  files'[req'[g].file].post = req'[g].post
        OBVIOUS
    <3>1. g # h /\ req'[g] = req[g] /\ Pending(g) /\ req[g].file \in Files \ {e}
      BY <1>1, ImageTypes DEF Pending
    <3> QED  BY <1>2, <3>1 DEF FileInv, FilesTell
  <2>3. \A f \in Files : files'[f] # None => files'[f].time <= issued'["post"][files'[f].post]
    BY <1>2, <1>3, <1>4, GoneForGood
  <2> QED  BY <2>1, <2>2, <2>3 DEF FilesTell
<1> QED
  BY <1>5, <1>6 DEF FileInv

LEMMA UnlinkKeepsFiles ==
  ASSUME TypeInv, TypeInv', ImageInv, FileInv, NEW h \in Handlers, Unlink(h)
  PROVE  FileInv'
<1>1. req[h].pc = "unlink" /\ req[h].img \in Files
  BY ImageTypes DEF Unlink, At
<1>2. \A p \in Ids : ~Shows(p, req[h].img)
  BY <1>1 DEF ImageInv, HeldImages
<1>3. \A k \in Handlers : Pending(k) => req[k].file # req[h].img
  BY DEF ImageInv, PendingFiles
<1>4. ~Pending(h)
  BY <1>1 DEF Pending
<1> QED
  BY <1>1, <1>2, <1>3, <1>4, DeletionsKeepFiles DEF Unlink, rows

(* A step of handler h on its file, which it keeps. *)
LEMMA StillPending ==
  ASSUME TypeInv, TypeInv', FileInv, NEW h \in Handlers, Pending(h),
         UNCHANGED <<rows, files, issued>>, Pending(h)',
         req'[h].file = req[h].file, req'[h].post = req[h].post,
         \A g \in Handlers \ {h} : req'[g] = req[g]
  PROVE  FileInv'
<1>1. PostsGoOn /\ \A p \in Ids, f \in Files : Shows(p, f)' <=> Shows(p, f)
  BY PostsUntouched DEF rows
<1>2. issued' \in [Tables -> [Ids -> Nat]]
  BY DEF TypeInv, TypeOK
<1>3. \A g \in Handlers : Holds(g)
  BY DEF Holds, Pending
<1>4. \A g \in Handlers : Pending(g)' => /\ Pending(g) /\ req'[g].file = req[g].file
                                         /\ req'[g].post = req[g].post
  BY DEF Pending
<1> QED
  BY <1>1, <1>2, <1>3, <1>4, FilesStay

LEMMA CurrentKeepsFiles ==
  ASSUME TypeInv, TypeInv', ImageInv, FileInv, NEW h \in Handlers, Current(h)
  PROVE  FileInv'
<1> DEFINE l == req[h]
<1>1. Pending(h) /\ l.pc = "current" /\ l.file \in Files /\ l \in Local
  BY ImageTypes DEF Current, At, Pending
<1>2. CASE post[l.post] = None \/ l.tries + 1 = MaxTries
  <2>1. /\ Return(h) /\ files' = [files EXCEPT ![l.file] = None]
        /\ post' = post /\ issued' = issued
    BY <1>2 DEF Current, rows
  <2>2. \A p \in Ids : ~Shows(p, l.file)
    BY <1>1 DEF ImageInv, PendingFiles
  <2>3. \A k \in Handlers \ {h} : Pending(k) => req[k].file # l.file
    BY <1>1 DEF ImageInv, PendingFiles
  <2> QED  BY <1>1, <2>1, <2>2, <2>3, DeletionsKeepFiles
<1>3. CASE ~(post[l.post] = None \/ l.tries + 1 = MaxTries)
  <2>1. /\ req' = [req EXCEPT ![h] = [l EXCEPT !.pc = "swap", !.img = post[l.post].img,
                                             !.tries = @ + 1]]
        /\ UNCHANGED <<rows, files, issued>>
    BY <1>3 DEF Current, Goto
  <2>2. req'[h].pc = "swap" /\ req'[h].file = l.file /\ req'[h].post = l.post
    BY <1>1, <2>1 DEF TypeInv, TypeOK, Local
  <2>3. \A k \in Handlers \ {h} : req'[k] = req[k]
    BY <2>1 DEF TypeInv, TypeOK
  <2> QED  BY <1>1, <2>1, <2>2, <2>3, StillPending DEF Pending
<1> QED
  BY <1>2, <1>3

(* The image there was is the handler's to delete, and the one uploaded is *)
(* shown by the post it was uploaded for.                                  *)
LEMMA SwapKeepsFiles ==
  ASSUME TypeInv, TypeInv', ImageInv, FileInv, NEW h \in Handlers, Swap(h)
  PROVE  FileInv'
<1> DEFINE l == req[h]
<1>1. Pending(h) /\ l.pc = "swap" /\ l.file \in Files /\ l.post \in Ids /\ l \in Local
  BY ImageTypes DEF Swap, At, Pending
<1>2. files' = files /\ issued' = issued /\ issued' \in [Tables -> [Ids -> Nat]]
  BY DEF Swap, TypeInv, TypeOK
<1>3. ASSUME NEW m, req' = [req EXCEPT ![h] = m]
      PROVE  req'[h] = m /\ \A k \in Handlers \ {h} : req'[k] = req[k]
  BY <1>3 DEF TypeInv, TypeOK
<1>4. CASE post[l.post] # None /\ post[l.post].img = l.img
  <2>1. /\ post' = [post EXCEPT ![l.post].img = l.file]
        /\ Goto(h, IF l.img = None THEN Idle ELSE [l EXCEPT !.pc = "unlink"])
    BY <1>4 DEF Swap
  <2>2. /\ req'[h].pc \in {"idle", "unlink"}
        /\ l.img # None => req'[h].pc = "unlink" /\ req'[h].img = l.img
        /\ \A k \in Handlers \ {h} : req'[k] = req[k]
    <3>1. CASE l.img = None
      <4>1. req' = [req EXCEPT ![h] = Idle]
        BY <2>1, <3>1 DEF Goto
      <4>2. Idle.pc = "idle"
        BY DEF Idle
      <4> QED  BY <1>3, <3>1, <4>1, <4>2
    <3>2. CASE l.img # None
      <4> DEFINE m == [l EXCEPT !.pc = "unlink"]
      <4>1. m.pc = "unlink" /\ m.img = l.img
        BY <1>1 DEF Local
      <4>2. req' = [req EXCEPT ![h] = m]
        BY <2>1, <3>2 DEF Goto
      <4> HIDE DEF m
      <4> QED  BY <1>3, <4>1, <4>2
    <3> QED  BY <3>1, <3>2
  <2>3. \A q \in Ids \ {l.post} : post'[q] = post[q]
    BY <2>1 DEF TypeInv, TypeOK
  <2>4. post'[l.post] # None /\ post'[l.post].img = l.file
    <3>1. PICK r \in Post : r = post[l.post]
      BY <1>1, <1>4 DEF TypeInv, TypeOK
    <3>2. post'[l.post] = [r EXCEPT !.img = l.file]
      BY <1>1, <2>1, <3>1 DEF TypeInv, TypeOK
    <3>3. [r EXCEPT !.img = l.file] \in Post /\ [r EXCEPT !.img = l.file].img = l.file
      BY <1>1 DEF Post
    <3> QED  BY <3>2, <3>3, NoneIsNoRow
  <2>5. PostsGoOn
    <3>1. \A p \in Ids : issued["post"][p] \in Nat
      BY DEF TypeInv, TypeOK, Tables
    <3> QED  BY <1>2, <1>4, <2>3, <3>1 DEF PostsGoOn
  <2>6. Accounted'
    <3> SUFFICES ASSUME NEW f \in Files, files'[f] # None
                 PROVE  (\E q \in Ids : Shows(q, f)') \/ Held(f)' \/ Gone(f)'
        BY DEF Accounted
    <3>1. CASE f = l.file
      BY <1>1, <2>4, <3>1 DEF Shows
    <3>2. CASE f = l.img
      <4>1. req'[h].pc = "unlink" /\ req'[h].img = f
        BY <2>2, <3>2, ImageTypes
      <4> QED  BY <4>1 DEF Held
    <3>3. CASE f # l.file /\ f # l.img
      <4>1. ASSUME NEW q \in Ids, Shows(q, f) PROVE Shows(q, f)'
        BY <1>4, <2>3, <3>3, <4>1 DEF Shows
      <4>2. ASSUME NEW g \in Handlers, \/ Pending(g) /\ req[g].file = f
                                       \/ req[g].pc = "unlink" /\ req[g].img = f
            PROVE  Held(f)'
        <5>1. g # h
          BY <1>1, <3>3, <4>2
        <5> QED  BY <2>2, <4>2, <5>1 DEF Held, Pending
      <4>3. Gone(f) => Gone(f)'
        BY <1>2, <2>5, GoneForGood
      <4> QED  BY <1>2, <4>1, <4>2, <4>3 DEF FileInv, Accounted, Held
    <3> QED  BY <3>1, <3>2, <3>3
  <2>7. FilesTell'
    <3>1. \A q \in Ids, f \in Files : Shows(q, f)' => files'[f].post = q
      <4> SUFFICES ASSUME NEW q \in Ids, NEW f \in Files, Shows(q, f)'
                   PROVE  files'[f].post = q
          OBVIOUS
      <4>1. CASE q = l.post
        <5>1. f = l.file
          BY <2>4, <4>1 DEF Shows
        <5> QED  BY <1>1, <1>2, <4>1, <5>1 DEF FileInv, FilesTell
      <4>2. CASE q # l.post
        BY <1>2, <2>3, <4>2 DEF FileInv, FilesTell, Shows
      <4> QED  BY <4>1, <4>2
    <3>2. \A g \in Handlers : Pending(g)' => files'[req'[g].file].post = req'[g].post
      BY <1>2, <2>2 DEF FileInv, FilesTell, Pending
    <3>3. \A f \in Files : files'[f] # None => files'[f].time <= issued'["post"][files'[f].post]
      BY <1>2 DEF FileInv, FilesTell
    <3> QED  BY <3>1, <3>2, <3>3 DEF FilesTell
  <2> QED  BY <2>6, <2>7 DEF FileInv
<1>5. CASE ~(post[l.post] # None /\ post[l.post].img = l.img)
  <2>1. req' = [req EXCEPT ![h] = [l EXCEPT !.pc = "current"]] /\ UNCHANGED rows
    BY <1>5 DEF Swap, Goto, rows
  <2> DEFINE m == [l EXCEPT !.pc = "current"]
  <2>2. m.pc = "current" /\ m.file = l.file /\ m.post = l.post /\ req' = [req EXCEPT ![h] = m]
    BY <1>1, <2>1 DEF Local
  <2> HIDE DEF m
  <2>3. req'[h] = m /\ \A k \in Handlers \ {h} : req'[k] = req[k]
    BY <1>3, <2>2
  <2> QED  BY <1>1, <1>2, <2>1, <2>2, <2>3, StillPending DEF Pending
<1> QED
  BY <1>4, <1>5

(* A file the deleted post showed is of a post that is gone. *)
LEMMA DropKeepsFiles ==
  ASSUME TypeInv, TypeInv', FileInv, NEW h \in Handlers, DropPost(h)
  PROVE  FileInv'
<1> DEFINE l == req[h]
<1>1. l.pc = "drop" /\ l.post \in Ids /\ l \in Local
  BY ImageTypes DEF DropPost, At
<1>2. files' = files /\ issued' = issued /\ issued' \in [Tables -> [Ids -> Nat]]
  BY DEF DropPost, TypeInv, TypeOK
<1>3. CASE Return(h) /\ UNCHANGED rows
  <2>1. req'[h].pc = "idle" /\ \A k \in Handlers \ {h} : req'[k] = req[k]
    BY <1>3 DEF Return, Goto, Idle, TypeInv, TypeOK
  <2> QED  BY <1>1, <1>2, <1>3, <2>1, PostsUntouched, NoFileOfItsOwn DEF rows
<1>4. CASE /\ post' = [post EXCEPT ![l.post] = None]
           /\ Goto(h, IF l.img = None THEN Idle ELSE [l EXCEPT !.pc = "unlink"])
  <2>1. req'[h].pc \in {"idle", "unlink"} /\ \A k \in Handlers \ {h} : req'[k] = req[k]
    <3>1. ASSUME NEW m, req' = [req EXCEPT ![h] = m]
          PROVE  req'[h] = m /\ \A k \in Handlers \ {h} : req'[k] = req[k]
      BY <3>1 DEF TypeInv, TypeOK
    <3>2. CASE l.img = None
      <4>1. req' = [req EXCEPT ![h] = Idle]
        BY <1>4, <3>2 DEF Goto
      <4>2. Idle.pc = "idle"
        BY DEF Idle
      <4> QED  BY <3>1, <4>1, <4>2
    <3>3. CASE l.img # None
      <4> DEFINE m == [l EXCEPT !.pc = "unlink"]
      <4>1. m.pc = "unlink" /\ req' = [req EXCEPT ![h] = m]
        BY <1>1, <1>4, <3>3 DEF Local, Goto
      <4> HIDE DEF m
      <4> QED  BY <3>1, <4>1
    <3> QED  BY <3>2, <3>3
  <2>2. post'[l.post] = None /\ \A q \in Ids \ {l.post} : post'[q] = post[q]
    BY <1>1, <1>4 DEF TypeInv, TypeOK
  <2>3. PostsGoOn
    <3>1. \A p \in Ids : issued["post"][p] \in Nat
      BY DEF TypeInv, TypeOK, Tables
    <3> QED  BY <1>2, <2>2, <3>1 DEF PostsGoOn
  <2>4. Accounted'
    <3> SUFFICES ASSUME NEW f \in Files, files'[f] # None
                 PROVE  (\E q \in Ids : Shows(q, f)') \/ Held(f)' \/ Gone(f)'
        BY DEF Accounted
    <3>1. ASSUME NEW q \in Ids, Shows(q, f) PROVE Shows(q, f)' \/ Gone(f)'
      <4>1. CASE q = l.post
        <5>1. files'[f].post = q
          BY <1>2, <3>1 DEF FileInv, FilesTell
        <5> QED  BY <2>2, <4>1, <5>1 DEF Gone
      <4>2. CASE q # l.post
        BY <2>2, <3>1, <4>2 DEF Shows
      <4> QED  BY <4>1, <4>2
    <3>2. Held(f) => Held(f)'
      <4> SUFFICES ASSUME NEW g \in Handlers, \/ Pending(g) /\ req[g].file = f
                                              \/ req[g].pc = "unlink" /\ req[g].img = f
                   PROVE  Held(f)'
          BY DEF Held
      <4>1. g # h
        BY <1>1 DEF Pending
      <4> QED  BY <2>1, <4>1 DEF Held, Pending
    <3>3. Gone(f) => Gone(f)'
      BY <1>2, <2>3, GoneForGood
    <3> QED  BY <1>2, <3>1, <3>2, <3>3 DEF FileInv, Accounted
  <2>5. FilesTell'
    <3>1. \A q \in Ids, f \in Files : Shows(q, f)' => files'[f].post = q
      BY <1>2, <2>2 DEF FileInv, FilesTell, Shows
    <3>2. \A g \in Handlers : Pending(g)' => files'[req'[g].file].post = req'[g].post
      BY <1>2, <2>1 DEF FileInv, FilesTell, Pending
    <3>3. \A f \in Files : files'[f] # None => files'[f].time <= issued'["post"][files'[f].post]
      BY <1>2 DEF FileInv, FilesTell
    <3> QED  BY <3>1, <3>2, <3>3 DEF FilesTell
  <2> QED  BY <2>4, <2>5 DEF FileInv
<1> QED
  BY <1>3, <1>4 DEF DropPost

(* A post with no image, of an id that no post has: the files of earlier   *)
(* posts of that id are still gone, for they are of an earlier issue.      *)
LEMMA AddPostKeepsFiles ==
  ASSUME TypeInv, TypeInv', FileInv, NEW u \in Users, AddPost(u)
  PROVE  FileInv'
<1>1. PICK p \in Ids : /\ post[p] = None
                       /\ post' = [post EXCEPT ![p] = [owner |-> u, by |-> u, img |-> None,
                                                        stray |-> FALSE]]
                       /\ issued' = [issued EXCEPT !["post"][p] = @ + 1]
  BY DEF AddPost, NextRow, Issue
<1>2. files' = files /\ req' = req /\ issued' \in [Tables -> [Ids -> Nat]]
  BY DEF AddPost, TypeInv, TypeOK
<1>3. \A q \in Ids : /\ issued["post"][q] \in Nat
                     /\ issued'["post"][q] = issued["post"][q] + (IF q = p THEN 1 ELSE 0)
  BY <1>1 DEF TypeInv, TypeOK, Tables
<1>4. post'[p].img = None /\ \A q \in Ids \ {p} : post'[q] = post[q]
  BY <1>1 DEF TypeInv, TypeOK
<1>5. PostsGoOn
  BY <1>3, <1>4 DEF PostsGoOn
<1>6. \A q \in Ids, f \in Files : Shows(q, f)' <=> Shows(q, f)
  <2>1. None \notin Files
    BY PostsAssumption
  <2> QED  BY <1>1, <1>4, <2>1 DEF Shows
<1> QED
  BY <1>2, <1>5, <1>6, FilesStay DEF Holds, Pending

LEMMA NextFiles == TypeInv /\ TypeInv' /\ ImageInv /\ FileInv /\ [Next]_vars => FileInv'
<1> SUFFICES ASSUME TypeInv, TypeInv', ImageInv, FileInv, [Next]_vars PROVE FileInv'
    OBVIOUS
<1>1. ASSUME NEW h \in Handlers, Step(h) PROVE FileInv'
  BY <1>1, MarkStepsKeepFiles, DropKeepsFiles, UnlinkKeepsFiles, SwapKeepsFiles,
     CurrentKeepsFiles DEF Step
<1>2. ASSUME NEW h \in Handlers, NEW u \in Users, Start(h, u) PROVE FileInv'
  BY <1>2, StartsKeepFiles, UploadsKeepFiles
<1>3. ASSUME NEW u \in Users, AddPost(u) PROVE FileInv'
  BY <1>3, AddPostKeepsFiles
<1>4. ASSUME post' = post, files' = files, req' = req, issued' = issued PROVE FileInv'
  BY <1>4, PostsUntouched, FilesStay DEF Holds, Pending, TypeInv, TypeOK
<1> QED
  BY <1>1, <1>2, <1>3, <1>4 DEF Next, MarkRead, vars, rows

(* images.go:188-203: whatever uploads and deletions race, once every      *)
(* handler is done each file on disk is shown by a post, or was uploaded   *)
(* for one that has been deleted.                                          *)
THEOREM NoFileForgotten == Spec => []NoOrphans
<1>1. Init => FileInv
  <2> SUFFICES ASSUME Init PROVE FileInv
      OBVIOUS
  <2>1. \A p \in Ids, f \in Files : ~Shows(p, f)
    BY PostsAssumption DEF Init, Empty, Shows
  <2>2. \A h \in Handlers : ~Pending(h)
    BY DEF Init, Idle, Pending
  <2> QED
    BY <2>1, <2>2 DEF Init, FileInv, Accounted, FilesTell
<1>2. FileInv => NoOrphans
  BY DEF FileInv, Accounted, Held, Pending, Gone, Shows, NoOrphans, At, RowsOf
<1> QED
  BY <1>1, <1>2, InitImages, NextImages, NextFiles, TypedAlways, PTL DEF Spec
=============================================================================
