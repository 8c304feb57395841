------------------------------ MODULE Directory ------------------------------
(***************************************************************************)
(* The category and user rows whose names are told apart without regard to *)
(* case, and the request handlers that write them.  A handler looks in one *)
(* statement whether a name is taken and writes it in the next; another    *)
(* may write between the two.  What then stands in its way is the UNIQUE   *)
(* index of the column.                                                    *)
(***************************************************************************)
EXTENDS Naturals

CONSTANTS Words,       \* names and addresses without their case
          Categories,  \* bound: category ids
          Accounts,    \* bound: user ids
          Handlers,    \* request handlers running at once
          Requests,    \* bound: the kinds of request that arrive
          None

VARIABLES category,  \* category.category_name of each row, None without a row
          email,     \* user.email of each row, None without a row
          index,     \* what idx_category_name_unique compares
          request    \* the handler each request is in

rows == <<category, email>>
vars == <<rows, index, request>>

(* A spelling of a word: in lower case, or with a capital in it. *)
Spelling == [word: Words, lower: BOOLEAN]
Lower(s) == [s EXCEPT !.lower = TRUE]

Indexes == {"none", "exact", "nocase"}
Request == [op: {"none", "create", "rename", "register", "profile"},
            id: Categories \cup Accounts \cup {None}, text: Spelling \cup {None}]
Idle == [op |-> "none", id |-> None, text |-> None]

DirectoryTyped ==
  /\ category \in [Categories -> Spelling \cup {None}]
  /\ email \in [Accounts -> Spelling \cup {None}]
  /\ index \in Indexes
  /\ request \in [Handlers -> Request]

Row(table, i) == table[i] # None

(* Row i of the table holds text, whatever its case. *)
Holds(table, i, text) == Row(table, i) /\ Lower(table[i]) = Lower(text)

(* Two rows of the table are the same but for their case, or altogether. *)
Alike(table) == \E i, j \in DOMAIN table : i # j /\ Row(table, i) /\ Holds(table, j, table[i])
Repeated(table) == \E i, j \in DOMAIN table : i # j /\ Row(table, i) /\ table[i] = table[j]

(* The index of category, and the UNIQUE of user.email, let row i be text. *)
IndexAllows(i, text) ==
  \A j \in Categories \ {i} : CASE index = "exact"  -> category[j] # text
                                [] index = "nocase" -> ~Holds(category, j, text)
                                [] OTHER            -> TRUE
ColumnAllows(i, text) == \A j \in Accounts \ {i} : email[j] # text

(* The id SQLite gives a new row: the one after the largest in use. *)
NewId(table, i) ==
  /\ \A j \in DOMAIN table : Row(table, j) => j < i
  /\ i = 1 \/ \E j \in DOMAIN table : j + 1 = i /\ Row(table, j)

Begin(h, op, i, text) ==
  /\ op \in Requests
  /\ request[h] = Idle
  /\ request' = [request EXCEPT ![h] = [op |-> op, id |-> i, text |-> text]]
  /\ UNCHANGED <<rows, index>>
End(h) == request' = [request EXCEPT ![h] = Idle]

-----------------------------------------------------------------------------
(* Faulty variants of the actions below, each with a plausible bug. *)

(* The address is kept as it was typed. *)
RegisterCheckAsTyped(h, text) ==
  /\ ~\E j \in Accounts : Row(email, j) /\ Lower(email[j]) = text
  /\ Begin(h, "register", None, text)

-----------------------------------------------------------------------------
(* CreateCategoryHandler: the look at every row, then the INSERT. *)
CreateCheck(h, text) ==
  /\ ~\E j \in Categories : Holds(category, j, text)
  /\ Begin(h, "create", None, text)

CreateInsert(h) ==
  /\ request[h].op = "create"
  /\ LET text == request[h].text IN
       \E i \in Categories :
         /\ NewId(category, i)
         /\ category' = IF IndexAllows(i, text) THEN [category EXCEPT ![i] = text]
                        ELSE category
  /\ End(h)
  /\ UNCHANGED <<email, index>>

(* EditCategoryHandler: the look at the other rows, then the UPDATE of a   *)
(* row that may be gone by then.                                           *)
RenameCheck(h, i, text) ==
  /\ ~\E j \in Categories \ {i} : Holds(category, j, text)
  /\ Begin(h, "rename", i, text)

RenameUpdate(h) ==
  /\ request[h].op = "rename"
  /\ LET r == request[h] IN
       category' = IF Row(category, r.id) /\ IndexAllows(r.id, r.text)
                   THEN [category EXCEPT ![r.id] = r.text]
                   ELSE category
  /\ End(h)
  /\ UNCHANGED <<email, index>>

(* DeleteCategoryHandler: the row and its relations in one transaction. *)
DeleteCategory(i) ==
  /\ "delete" \in Requests
  /\ Row(category, i)
  /\ category' = [category EXCEPT ![i] = None]
  /\ UNCHANGED <<email, index, request>>

(* registerUser: the address in lower case, the look for it in whatever    *)
(* case, then the INSERT.                                                  *)
RegisterCheck(h, text) ==
  /\ ~\E j \in Accounts : Holds(email, j, text)
  /\ Begin(h, "register", None, Lower(text))

RegisterInsert(h) ==
  /\ request[h].op = "register"
  /\ LET text == request[h].text IN
       \E i \in Accounts :
         /\ NewId(email, i)
         /\ email' = IF ColumnAllows(i, text) THEN [email EXCEPT ![i] = text] ELSE email
  /\ End(h)
  /\ UNCHANGED <<category, index>>

(* UpdateProfileHandler, of account i. *)
ProfileCheck(h, i, text) ==
  /\ Row(email, i)
  /\ ~\E j \in Accounts \ {i} : Holds(email, j, text)
  /\ Begin(h, "profile", i, Lower(text))

ProfileUpdate(h) ==
  /\ request[h].op = "profile"
  /\ LET r == request[h] IN
       email' = IF ColumnAllows(r.id, r.text) THEN [email EXCEPT ![r.id] = r.text]
                ELSE email
  /\ End(h)
  /\ UNCHANGED <<category, index>>

-----------------------------------------------------------------------------
Look(h) ==
  \E text \in Spelling :
    \/ CreateCheck(h, text)
    \/ \E i \in Categories : RenameCheck(h, i, text)
    \/ RegisterCheck(h, text)
    \/ \E i \in Accounts : ProfileCheck(h, i, text)

Write(h) ==
  \/ CreateInsert(h)
  \/ RenameUpdate(h)
  \/ RegisterInsert(h)
  \/ ProfileUpdate(h)

Handle ==
  \/ \E h \in Handlers : Look(h) \/ Write(h)
  \/ \E i \in Categories : DeleteCategory(i)
=============================================================================
