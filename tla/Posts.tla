-------------------------------- MODULE Posts --------------------------------
(***************************************************************************)
(* Posts and what hangs on them: comments, the notifications of comments,  *)
(* reactions, bookmarks and image files, and the HTTP handlers that read   *)
(* and change them.                                                        *)
(*                                                                         *)
(* A statement or a transaction on the database is one action.  What a     *)
(* handler read before it keeps in its locals, req[h].  SQLite gives a new *)
(* row the id after the largest in use, so the id of a deleted row may be  *)
(* given out again; it refuses a row that refers to none (OpenDB turns     *)
(* foreign keys on).  Categories are left out, and so are the broadcasts   *)
(* that end most handlers: they change none of this.                       *)
(***************************************************************************)
EXTENDS Naturals, FiniteSets

CONSTANTS Users,
          Admins,      \* users whose role is admin
          Author,      \* the author of the post there is at first
          Ids,         \* bound: ids of the rows of a table
          Files,       \* names randomImageFilename may return
          Handlers,    \* HTTP handlers in flight at once
          MaxTries,    \* reactionInsertRaceRetries, maxImageUpdateRaceRetries
          MaxRequests, \* bound: requests
          Ops,         \* bound: the kinds of request that arrive
          None

ASSUME PostsAssumption ==
  /\ Author \in Users
  /\ Admins \subseteq Users
  /\ Ids \subseteq Nat \ {0} /\ 1 \in Ids
  /\ MaxTries \in Nat \ {0}
  /\ MaxRequests \in Nat
  /\ None \notin Users \cup Files \cup Nat

VARIABLES post,     \* the tables, each a row or None for each id
          comment,
          note,     \* notification
          reaction, \* user_post_reaction
          bookmark,
          files,    \* ./uploads/posts: for each name the post uploaded for
          req,      \* the handlers in flight
          issued,   \* history: how often each id of post and comment was
                    \* given out
          asked     \* requests so far, for MaxRequests only

rows == <<post, comment, note, reaction, bookmark>>
vars == <<rows, files, req, issued, asked>>

Values == {"like", "dislike", "saved"}
Steps  == {"idle", "edit", "drop", "unlink", "swap", "current", "comment", "notify",
           "editComment", "dropComment", "find", "insert", "reread", "apply",
           "save", "unsave"}
Tables == {"post", "comment"}

(* stray is history: the row was last written by a handler that had looked *)
(* up another row of that id.  postAt and idAt are what it is told by: the *)
(* counts in issued when the handler looked up the post, or the comment.   *)
Post    == [owner: Users, by: Users, img: Files \cup {None}, stray: BOOLEAN]
Comment == [user: Users, post: Ids, by: Users, stray: BOOLEAN]
Note    == [to: Users, post: Ids, comment: Ids, read: BOOLEAN, stray: BOOLEAN]
Mark    == [user: Users, post: Ids, value: Values]
Upload  == [post: Ids, time: Nat]
Local   == [pc: Steps, by: Users \cup {None}, post: Ids \cup {None}, id: Ids \cup {None},
            value: Values \cup {None}, had: Values \cup {None}, owner: Users \cup {None},
            img: Files \cup {None}, file: Files \cup {None}, tries: 0..MaxTries,
            postAt: Nat, idAt: Nat]

ASSUME NoneIsNoRow == None \notin Post \cup Comment \cup Note \cup Mark \cup Upload

TypeOK ==
  /\ post \in [Ids -> Post \cup {None}]
  /\ comment \in [Ids -> Comment \cup {None}]
  /\ note \in [Ids -> Note \cup {None}]
  /\ reaction \in [Ids -> Mark \cup {None}]
  /\ bookmark \in [Ids -> Mark \cup {None}]
  /\ files \in [Files -> Upload \cup {None}]
  /\ req \in [Handlers -> Local]
  /\ issued \in [Tables -> [Ids -> Nat]]
  /\ asked \in Nat

Idle == [pc |-> "idle", by |-> None, post |-> None, id |-> None, value |-> None,
         had |-> None, owner |-> None, img |-> None, file |-> None, tries |-> 0,
         postAt |-> 0, idAt |-> 0]
Empty == [i \in Ids |-> None]

(* A database with one post, and nothing on it yet. *)
Init ==
  /\ post = [Empty EXCEPT ![1] = [owner |-> Author, by |-> Author, img |-> None,
                                  stray |-> FALSE]]
  /\ comment = Empty
  /\ note = Empty
  /\ reaction = Empty
  /\ bookmark = Empty
  /\ files = [f \in Files |-> None]
  /\ req = [h \in Handlers |-> Idle]
  /\ issued = [t \in Tables |-> [i \in Ids |-> IF t = "post" /\ i = 1 THEN 1 ELSE 0]]
  /\ asked = 0

RowsOf(table) == {i \in Ids : table[i] # None}

(* The id SQLite gives the next row of table. *)
NextRow(id, table) ==
  /\ table[id] = None
  /\ id = 1 \/ id - 1 \in RowsOf(table)
  /\ \A k \in RowsOf(table) : k < id

Issue(t, id) == issued' = [issued EXCEPT ![t][id] = @ + 1]

(* The id of the post, or of the comment, that the handler at l looked up  *)
(* has been given out again since.                                         *)
PostReissued(l)    == issued["post"][l.post] # l.postAt
CommentReissued(l) == issued["comment"][l.id] # l.idAt

(* The row of table of user u on post p, if there is one. *)
Of(table, u, p) == {i \in RowsOf(table) : table[i].user = u /\ table[i].post = p}

At(h, pc) == req[h].pc = pc
Goto(h, locals) == req' = [req EXCEPT ![h] = locals] /\ UNCHANGED asked
Return(h) == Goto(h, Idle)

(* A request of user u of a kind that arrives. *)
Arrive(h, op, locals) ==
  /\ op \in Ops
  /\ At(h, "idle")
  /\ asked < MaxRequests
  /\ asked' = asked + 1
  /\ req' = [req EXCEPT ![h] = locals]

(* A name that nothing refers to. *)
FreshFile(f) ==
  /\ files[f] = None
  /\ \A p \in RowsOf(post) : post[p].img # f
  /\ \A h \in Handlers : f \notin {req[h].img, req[h].file}

-----------------------------------------------------------------------------
(* Faulty variants of the actions below, each with a plausible bug.  Next  *)
(* has none of them: they are what the properties must tell from the code. *)

(* The file of the image there is goes before the post shows the new one. *)
UploadStartReplacing(h, u, p) ==
  /\ post[p] # None
  /\ post[p].owner = u
  /\ \E f \in Files :
       /\ FreshFile(f)
       /\ files' = [g \in Files |->
                      IF g = f THEN [post |-> p, time |-> issued["post"][p]]
                      ELSE IF g = post[p].img THEN None ELSE files[g]]
       /\ Arrive(h, "upload", [Idle EXCEPT !.pc = "swap", !.by = u, !.post = p,
                                           !.img = post[p].img, !.file = f])
  /\ UNCHANGED <<rows, issued>>

(* The image is set whatever it has become. *)
SwapBlindly(h) ==
  /\ At(h, "swap")
  /\ LET l == req[h] IN
       IF post[l.post] # None
       THEN /\ post' = [post EXCEPT ![l.post].img = l.file]
            /\ Goto(h, IF l.img = None THEN Idle ELSE [l EXCEPT !.pc = "unlink"])
       ELSE /\ Goto(h, [l EXCEPT !.pc = "current"])
            /\ UNCHANGED post
  /\ UNCHANGED <<comment, note, reaction, bookmark, files, issued>>

(* The database does not look whether the post is there. *)
AddCommentUnchecked(h) ==
  /\ At(h, "comment")
  /\ LET l == req[h] IN
       \E c \in Ids :
         /\ NextRow(c, comment)
         /\ comment' = [comment EXCEPT ![c] = [user |-> l.by, post |-> l.post, by |-> l.by,
                                               stray |-> FALSE]]
         /\ Issue("comment", c)
         /\ Goto(h, IF l.owner = l.by THEN Idle
                    ELSE [l EXCEPT !.pc = "notify", !.id = c, !.idAt = issued["comment"][c] + 1])
  /\ UNCHANGED <<post, note, reaction, bookmark, files>>

(* The comment notified of is the last one inserted. *)
NotifyLatest(h) ==
  /\ At(h, "notify")
  /\ LET l == req[h]
         Last(c) == c \in RowsOf(comment) /\ \A d \in RowsOf(comment) : d <= c
     IN  IF post[l.post] # None /\ RowsOf(comment) # {}
         THEN \E n, c \in Ids :
                /\ NextRow(n, note)
                /\ Last(c)
                /\ note' = [note EXCEPT ![n] = [to |-> l.owner, post |-> l.post,
                                                comment |-> c, read |-> FALSE,
                                                stray |-> PostReissued(l) \/ CommentReissued(l)]]
         ELSE UNCHANGED note
  /\ Return(h)
  /\ UNCHANGED <<post, comment, reaction, bookmark, files, issued>>

(* Nothing but the look for a row keeps there from being two. *)
SaveUnchecked(h) ==
  /\ At(h, "save")
  /\ LET l == req[h] IN
       IF post[l.post] = None
       THEN UNCHANGED bookmark
       ELSE \E i \in Ids :
              /\ NextRow(i, bookmark)
              /\ bookmark' = [bookmark EXCEPT ![i] = [user |-> l.by, post |-> l.post,
                                                      value |-> l.value]]
  /\ Return(h)
  /\ UNCHANGED <<post, comment, note, reaction, files, issued>>

-----------------------------------------------------------------------------
(* Posts. *)

(* AddPost, one transaction. *)
AddPost(u) ==
  /\ "add" \in Ops
  /\ asked < MaxRequests
  /\ asked' = asked + 1
  /\ \E p \in Ids :
       /\ NextRow(p, post)
       /\ post' = [post EXCEPT ![p] = [owner |-> u, by |-> u, img |-> None, stray |-> FALSE]]
       /\ Issue("post", p)
  /\ UNCHANGED <<comment, note, reaction, bookmark, files, req>>

(* EditPostHandler: the owner is looked up, then the post is updated. *)
EditStart(h, u, p) ==
  /\ post[p] # None
  /\ post[p].owner = u
  /\ Arrive(h, "edit", [Idle EXCEPT !.pc = "edit", !.by = u, !.post = p,
                                    !.postAt = issued["post"][p]])
  /\ UNCHANGED <<rows, files, issued>>

Edit(h) ==
  /\ At(h, "edit")
  /\ LET l == req[h] IN
       post' = IF post[l.post] = None THEN post
               ELSE [post EXCEPT ![l.post] = [@ EXCEPT !.by = l.by, !.stray = PostReissued(l)]]
  /\ Return(h)
  /\ UNCHANGED <<comment, note, reaction, bookmark, files, issued>>

(* DeletePostHandler: by its owner or an admin. *)
DeleteStart(h, u, p) ==
  /\ post[p] # None
  /\ u = post[p].owner \/ u \in Admins
  /\ Arrive(h, "delete", [Idle EXCEPT !.pc = "drop", !.by = u, !.post = p,
                                      !.img = post[p].img])
  /\ UNCHANGED <<rows, files, issued>>

Without(table, S) == [i \in Ids |-> IF i \in S THEN None ELSE table[i]]
On(table, p) == {i \in RowsOf(table) : table[i].post = p}

(* The transaction, which deletes notifications first; a notification of   *)
(* another post on a comment of this one makes it fail.                    *)
DropPost(h) ==
  /\ At(h, "drop")
  /\ LET p == req[h].post IN
       IF \E n \in RowsOf(note) \ On(note, p) : note[n].comment \in On(comment, p)
       THEN /\ Return(h)
            /\ UNCHANGED rows
       ELSE /\ note' = Without(note, On(note, p))
            /\ comment' = Without(comment, On(comment, p))
            /\ reaction' = Without(reaction, On(reaction, p))
            /\ bookmark' = Without(bookmark, On(bookmark, p))
            /\ post' = [post EXCEPT ![p] = None]
            /\ Goto(h, IF req[h].img = None THEN Idle ELSE [req[h] EXCEPT !.pc = "unlink"])
  /\ UNCHANGED <<files, issued>>

(* deleteUploadedImage *)
Unlink(h) ==
  /\ At(h, "unlink")
  /\ files' = [files EXCEPT ![req[h].img] = None]
  /\ Return(h)
  /\ UNCHANGED <<rows, issued>>

-----------------------------------------------------------------------------
(* UploadPostImageHandler. *)

(* The owner and the image there is are looked up; the file is written. *)
UploadStart(h, u, p) ==
  /\ post[p] # None
  /\ post[p].owner = u
  /\ \E f \in Files :
       /\ FreshFile(f)
       /\ files' = [files EXCEPT ![f] = [post |-> p, time |-> issued["post"][p]]]
       /\ Arrive(h, "upload", [Idle EXCEPT !.pc = "swap", !.by = u, !.post = p,
                                           !.img = post[p].img, !.file = f])
  /\ UNCHANGED <<rows, issued>>

(* updatePostImage: set the image if it still is the one that was read. *)
Swap(h) ==
  /\ At(h, "swap")
  /\ LET l == req[h] IN
       IF post[l.post] # None /\ post[l.post].img = l.img
       THEN /\ post' = [post EXCEPT ![l.post].img = l.file]
            /\ Goto(h, IF l.img = None THEN Idle ELSE [l EXCEPT !.pc = "unlink"])
       ELSE /\ Goto(h, [l EXCEPT !.pc = "current"])
            /\ UNCHANGED post
  /\ UNCHANGED <<comment, note, reaction, bookmark, files, issued>>

(* Read it again, to try again; or fail, and remove the file written. *)
Current(h) ==
  /\ At(h, "current")
  /\ LET l == req[h] IN
       IF post[l.post] = None \/ l.tries + 1 = MaxTries
       THEN /\ files' = [files EXCEPT ![l.file] = None]
            /\ Return(h)
       ELSE /\ Goto(h, [l EXCEPT !.pc = "swap", !.img = post[l.post].img, !.tries = @ + 1])
            /\ UNCHANGED files
  /\ UNCHANGED <<rows, issued>>

-----------------------------------------------------------------------------
(* Comments and notifications. *)

(* AddCommentHandler: look up the post's owner, insert, notify the owner. *)
CommentStart(h, u, p) ==
  /\ post[p] # None
  /\ Arrive(h, "comment", [Idle EXCEPT !.pc = "comment", !.by = u, !.post = p,
                                       !.owner = post[p].owner,
                                       !.postAt = issued["post"][p]])
  /\ UNCHANGED <<rows, files, issued>>

AddComment(h) ==
  /\ At(h, "comment")
  /\ LET l == req[h] IN
       IF post[l.post] = None
       THEN /\ Return(h)
            /\ UNCHANGED <<comment, issued>>
       ELSE \E c \in Ids :
              /\ NextRow(c, comment)
              /\ comment' = [comment EXCEPT ![c] = [user |-> l.by, post |-> l.post,
                                                    by |-> l.by, stray |-> FALSE]]
              /\ Issue("comment", c)
              /\ Goto(h, IF l.owner = l.by THEN Idle
                         ELSE [l EXCEPT !.pc = "notify", !.id = c,
                                        !.idAt = issued["comment"][c] + 1])
  /\ UNCHANGED <<post, note, reaction, bookmark, files>>

(* A notification that cannot be inserted is logged, and not sent. *)
Notify(h) ==
  /\ At(h, "notify")
  /\ LET l == req[h] IN
       IF post[l.post] # None /\ comment[l.id] # None
       THEN \E n \in Ids :
              /\ NextRow(n, note)
              /\ note' = [note EXCEPT ![n] = [to |-> l.owner, post |-> l.post,
                                              comment |-> l.id, read |-> FALSE,
                                              stray |-> PostReissued(l) \/ CommentReissued(l)]]
       ELSE UNCHANGED note
  /\ Return(h)
  /\ UNCHANGED <<post, comment, reaction, bookmark, files, issued>>

(* EditCommentHandler *)
EditCommentStart(h, u, c) ==
  /\ comment[c] # None
  /\ comment[c].user = u
  /\ Arrive(h, "editComment", [Idle EXCEPT !.pc = "editComment", !.by = u, !.id = c,
                                           !.idAt = issued["comment"][c]])
  /\ UNCHANGED <<rows, files, issued>>

EditComment(h) ==
  /\ At(h, "editComment")
  /\ LET l == req[h] IN
       comment' = IF comment[l.id] = None THEN comment
                  ELSE [comment EXCEPT ![l.id] = [@ EXCEPT !.by = l.by,
                                                           !.stray = CommentReissued(l)]]
  /\ Return(h)
  /\ UNCHANGED <<post, note, reaction, bookmark, files, issued>>

(* DeleteCommentHandler: the comment and its notifications. *)
DeleteCommentStart(h, u, c) ==
  /\ comment[c] # None
  /\ u = comment[c].user \/ u \in Admins
  /\ Arrive(h, "deleteComment", [Idle EXCEPT !.pc = "dropComment", !.by = u, !.id = c])
  /\ UNCHANGED <<rows, files, issued>>

DropComment(h) ==
  /\ At(h, "dropComment")
  /\ LET c == req[h].id IN
       /\ note' = Without(note, {n \in RowsOf(note) : note[n].comment = c})
       /\ comment' = [comment EXCEPT ![c] = None]
  /\ Return(h)
  /\ UNCHANGED <<post, reaction, bookmark, files, issued>>

(* MarkNotificationsReadHandler: one of u's notifications, or all. *)
MarkRead(u, S) ==
  /\ "markRead" \in Ops
  /\ asked < MaxRequests
  /\ asked' = asked + 1
  /\ note' = [n \in Ids |-> IF n \in S \cap RowsOf(note) /\ note[n].to = u
                            THEN [note[n] EXCEPT !.read = TRUE] ELSE note[n]]
  /\ UNCHANGED <<post, comment, reaction, bookmark, files, req, issued>>

-----------------------------------------------------------------------------
(* ReactToPostHandler: the same reaction again removes it, the other one   *)
(* replaces it.                                                            *)

ReactStart(h, u, p, v) ==
  /\ v \in {"like", "dislike"}
  /\ post[p] # None
  /\ Arrive(h, "react", [Idle EXCEPT !.pc = "find", !.by = u, !.post = p, !.value = v])
  /\ UNCHANGED <<rows, files, issued>>

(* BookmarkPostHandler: once it is there, it is removed. *)
BookmarkStart(h, u, p) ==
  /\ post[p] # None
  /\ Arrive(h, "bookmark", [Idle EXCEPT !.pc = "find", !.by = u, !.post = p,
                                        !.value = "saved"])
  /\ UNCHANGED <<rows, files, issued>>

(* Look for the user's own row. *)
Find(h) ==
  /\ At(h, "find")
  /\ LET l == req[h] IN
       IF l.value = "saved"
       THEN \/ \E i \in Of(bookmark, l.by, l.post) :
                 Goto(h, [l EXCEPT !.pc = "unsave", !.id = i])
            \/ /\ Of(bookmark, l.by, l.post) = {}
               /\ Goto(h, [l EXCEPT !.pc = "save"])
       ELSE \/ \E i \in Of(reaction, l.by, l.post) :
                 Goto(h, [l EXCEPT !.pc = "apply", !.id = i, !.had = reaction[i].value])
            \/ /\ Of(reaction, l.by, l.post) = {}
               /\ Goto(h, [l EXCEPT !.pc = "insert"])
  /\ UNCHANGED <<rows, files, issued>>

(* A row of table for the request l: refused if there is one, or no post. *)
Refused(table, l) == post[l.post] = None \/ Of(table, l.by, l.post) # {}
NewMark(i, l, table) ==
  /\ NextRow(i, table)
  /\ table' = [table EXCEPT ![i] = [user |-> l.by, post |-> l.post, value |-> l.value]]

(* insertOrReconcileReaction *)
Insert(h) ==
  /\ At(h, "insert")
  /\ LET l == req[h] IN
       CASE l.tries = MaxTries -> Return(h) /\ UNCHANGED reaction
         [] l.tries < MaxTries /\ Refused(reaction, l) ->
              Goto(h, [l EXCEPT !.pc = "reread"]) /\ UNCHANGED reaction
         [] OTHER -> Return(h) /\ \E i \in Ids : NewMark(i, l, reaction)
  /\ UNCHANGED <<post, comment, note, bookmark, files, issued>>

(* Read the row it lost to; try again if that is gone. *)
Reread(h) ==
  /\ At(h, "reread")
  /\ LET l == req[h] IN
       \/ \E i \in Of(reaction, l.by, l.post) :
            Goto(h, [l EXCEPT !.pc = "apply", !.id = i, !.had = reaction[i].value])
       \/ /\ Of(reaction, l.by, l.post) = {}
          /\ Goto(h, [l EXCEPT !.pc = "insert", !.tries = @ + 1])
  /\ UNCHANGED <<rows, files, issued>>

(* applyReactionToExistingRow, by the id of the row. *)
Apply(h) ==
  /\ At(h, "apply")
  /\ LET l == req[h] IN
       reaction' = IF reaction[l.id] = None \/ l.had = l.value
                   THEN [reaction EXCEPT ![l.id] = None]
                   ELSE [reaction EXCEPT ![l.id].value = l.value]
  /\ Return(h)
  /\ UNCHANGED <<post, comment, note, bookmark, files, issued>>

(* toggleBookmark *)
Save(h) ==
  /\ At(h, "save")
  /\ \/ Refused(bookmark, req[h]) /\ UNCHANGED bookmark
     \/ ~Refused(bookmark, req[h]) /\ \E i \in Ids : NewMark(i, req[h], bookmark)
  /\ Return(h)
  /\ UNCHANGED <<post, comment, note, reaction, files, issued>>

Unsave(h) ==
  /\ At(h, "unsave")
  /\ bookmark' = [bookmark EXCEPT ![req[h].id] = None]
  /\ Return(h)
  /\ UNCHANGED <<post, comment, note, reaction, files, issued>>

-----------------------------------------------------------------------------
Start(h, u) ==
  \/ \E p \in Ids :
       \/ EditStart(h, u, p)
       \/ DeleteStart(h, u, p)
       \/ UploadStart(h, u, p)
       \/ CommentStart(h, u, p)
       \/ BookmarkStart(h, u, p)
       \/ \E v \in Values : ReactStart(h, u, p, v)
  \/ \E c \in Ids : EditCommentStart(h, u, c) \/ DeleteCommentStart(h, u, c)

Step(h) ==
  \/ Edit(h)
  \/ DropPost(h)
  \/ Unlink(h)
  \/ Swap(h)
  \/ Current(h)
  \/ AddComment(h)
  \/ Notify(h)
  \/ EditComment(h)
  \/ DropComment(h)
  \/ Find(h)
  \/ Insert(h)
  \/ Reread(h)
  \/ Apply(h)
  \/ Save(h)
  \/ Unsave(h)

Next ==
  \/ \E h \in Handlers : Step(h) \/ \E u \in Users : Start(h, u)
  \/ \E u \in Users : AddPost(u) \/ \E S \in {{n} : n \in Ids} \cup {Ids} : MarkRead(u, S)

Spec == Init /\ [][Next]_vars
-----------------------------------------------------------------------------
(* Safety. *)

(* createTables.sql:88-103: a user has at most one reaction to a post and  *)
(* at most one bookmark of it, whatever requests for them race.            *)
OncePerPost ==
  \A u \in Users, p \in Ids :
    Cardinality(Of(reaction, u, p)) <= 1 /\ Cardinality(Of(bookmark, u, p)) <= 1

(* handlers.go:2481-2495: nothing is left on a post that is not there,     *)
(* which the next post of its id would take over.                          *)
NothingDangles ==
  /\ \A i \in Ids : \A table \in {comment, note, reaction, bookmark} :
       table[i] # None => post[table[i].post] # None
  /\ \A n \in RowsOf(note) : comment[note[n].comment] # None

(* handlers.go:2065-2066, 2638-2639: only an author's own edits change a   *)
(* post or a comment; a notification is to the author of the post, about   *)
(* another user's comment on it.  The handlers look these up and write     *)
(* later, with other requests in between: the one way to write what is not *)
(* so is that the very row looked up was deleted and its id given out      *)
(* again before the write (handlers.go:2119, 2543), which marks the row.   *)
LookupsHold ==
  /\ \A p \in RowsOf(post) : post[p].stray \/ post[p].by = post[p].owner
  /\ \A c \in RowsOf(comment) : comment[c].stray \/ comment[c].by = comment[c].user
  /\ \A n \in RowsOf(note) :
       LET c == note[n].comment IN
         \/ note[n].stray
         \/ /\ note[n].to = post[note[n].post].owner
            /\ comment[c].post = note[n].post
            /\ comment[c].user # note[n].to

(* The image of a post is on disk, at every moment of an upload. *)
ImagesExist == \A p \in RowsOf(post) : post[p].img # None => files[post[p].img] # None

(* images.go:188-203: once every upload is over, a file that no post shows *)
(* was uploaded for a post that has been deleted.                          *)
NoOrphans ==
  (\A h \in Handlers : At(h, "idle")) =>
    \A f \in Files :
      files[f] # None =>
        \/ \E p \in RowsOf(post) : post[p].img = f
        \/ post[files[f].post] = None
        \/ issued["post"][files[f].post] # files[f].time

=============================================================================
