---------------------------- MODULE StartupProofs ----------------------------
(***************************************************************************)
(* Theorems about the server's starts, the names it keeps apart and the    *)
(* chats it migrates, for databases of any size and any number of handlers *)
(* and restarts.                                                           *)
(***************************************************************************)
EXTENDS Startup, ConversationsProofs, SequenceTheorems, FiniteSetTheorems, TLAPS

-----------------------------------------------------------------------------
(* The order of the steps of migrate(). *)

LEMMA PartsAre ==
  Whole = {"user.role", "user.banned", "post.img_url", "user_post_reaction",
           "conversation", "notification", "bookmark", "message_read", "indexes"}
BY DEF Whole, Parts, BootOrder

LEMMA PartsLength == Len(Parts) = 9 /\ DOMAIN Parts = 1 .. 9
<1>1. Parts \in [1 .. 9 -> Whole]
  BY DEF Parts, Whole
<1>2. Parts \in Seq(Whole)
  BY <1>1, SeqDef
<1> QED
  BY <1>1, <1>2

LEMMA StepsInOrder ==
  /\ After("user.role") = "user.banned"
  /\ After("user.banned") = "post.img_url"
  /\ After("post.img_url") = "user_post_reaction"
  /\ After("user_post_reaction") = "conversation"
  /\ After("conversation") = "notification"
  /\ After("notification") = "bookmark"
  /\ After("bookmark") = "message_read"
  /\ After("message_read") = "indexes"
  /\ After("indexes") = "unique"
  /\ After("unique") = "nocase"
  /\ After("recreate") = "emails"
  /\ After("emails") = "serving"
BY DEF After, BootOrder

LEMMA OrderOfBoot ==
  /\ DOMAIN BootOrder = 1 .. 14
  /\ \A j, k \in 1 .. 14 : BootOrder[j] = BootOrder[k] => j = k
  /\ \A k \in 1 .. 9 : BootOrder[k] \in Whole
  /\ \A k \in 10 .. 14 : BootOrder[k] \notin Whole
  /\ \A k \in 1 .. 14 : BootOrder[k] # "failed"
BY PartsAre DEF BootOrder

LEMMA AfterIsNext == \A k \in 1 .. 13 : After(BootOrder[k]) = BootOrder[k + 1]
BY OrderOfBoot DEF After

-----------------------------------------------------------------------------
(* The names that two rows may not share.                                  *)

(* Rows are alike when they have the same word. *)
LEMMA HoldsWord ==
  ASSUME NEW S, NEW t \in [S -> Dir!Spelling \cup {None}], NEW i \in S,
         NEW s \in Dir!Spelling, Dir!Row(t, i), t[i] \in Dir!Spelling
  PROVE  Dir!Holds(t, i, s) <=> t[i].word = s.word
BY DEF Dir!Holds, Dir!Lower, Dir!Spelling

LEMMA AlikeWords ==
  ASSUME NEW S, NEW t \in [S -> Dir!Spelling \cup {None}]
  PROVE  Dir!Alike(t) <=>
           \E i, j \in S : i # j /\ Dir!Row(t, i) /\ Dir!Row(t, j) /\ t[i].word = t[j].word
<1>1. \A i \in S : Dir!Row(t, i) => t[i] \in Dir!Spelling
  BY DEF Dir!Row
<1>2. \A i, j \in S : Dir!Row(t, i) => (Dir!Holds(t, j, t[i]) <=> Dir!Row(t, j) /\ t[i].word = t[j].word)
  BY <1>1, HoldsWord DEF Dir!Holds
<1> QED
  BY <1>2 DEF Dir!Alike

LEMMA RepeatedIsAlike ==
  ASSUME NEW S, NEW t \in [S -> Dir!Spelling \cup {None}], Dir!Repeated(t)
  PROVE  Dir!Alike(t)
BY AlikeWords DEF Dir!Repeated, Dir!Row

(* A row gets a text that no other row is the same as. *)
LEMMA WritingKeepsUnalike ==
  ASSUME NEW S, NEW t \in [S -> Dir!Spelling \cup {None}], ~Dir!Alike(t),
         NEW i \in S, NEW s \in Dir!Spelling, \A j \in S \ {i} : ~Dir!Holds(t, j, s)
  PROVE  ~Dir!Alike([t EXCEPT ![i] = s])
<1> DEFINE u == [t EXCEPT ![i] = s]
<1>1. u \in [S -> Dir!Spelling \cup {None}] /\ u[i] = s /\ \A j \in S \ {i} : u[j] = t[j]
  OBVIOUS
<1>2. \A j \in S : Dir!Row(t, j) => t[j] \in Dir!Spelling
  BY DEF Dir!Row
<1>3. \A j \in S \ {i} : Dir!Row(t, j) => t[j].word # s.word
  BY <1>2, HoldsWord
<1>4. ~\E j, k \in S : j # k /\ Dir!Row(t, j) /\ Dir!Row(t, k) /\ t[j].word = t[k].word
  BY AlikeWords
<1> HIDE DEF u
<1>5. ~\E j, k \in S : j # k /\ Dir!Row(u, j) /\ Dir!Row(u, k) /\ u[j].word = u[k].word
  BY <1>1, <1>3, <1>4 DEF Dir!Row
<1> QED
  BY <1>1, <1>5, AlikeWords DEF u

LEMMA WritingKeepsUnrepeated ==
  ASSUME NEW S, NEW t \in [S -> Dir!Spelling \cup {None}], ~Dir!Repeated(t),
         NEW i \in S, NEW s, \A j \in S \ {i} : t[j] # s
  PROVE  ~Dir!Repeated([t EXCEPT ![i] = s])
BY DEF Dir!Repeated, Dir!Row

LEMMA ErasingKeepsDistinct ==
  ASSUME NEW S, NEW t \in [S -> Dir!Spelling \cup {None}], NEW i \in S
  PROVE  /\ Dir!Alike([t EXCEPT ![i] = None]) => Dir!Alike(t)
         /\ Dir!Repeated([t EXCEPT ![i] = None]) => Dir!Repeated(t)
BY DEF Dir!Repeated, Dir!Alike, Dir!Row, Dir!Holds

(* In lower case, words that differ are texts that differ. *)
AllLower(t) == \A i \in DOMAIN t : t[i] # None => t[i].lower

LEMMA UnrepeatedLower ==
  ASSUME NEW S, NEW t \in [S -> Dir!Spelling \cup {None}], AllLower(t), NEW i \in S,
         NEW s \in Dir!Spelling, s.lower, t[i] # s
  PROVE  ~Dir!Holds(t, i, s)
<1> SUFFICES ASSUME Dir!Row(t, i), t[i].word = s.word PROVE FALSE
    BY HoldsWord DEF Dir!Holds, Dir!Row
<1>1. t[i] \in Dir!Spelling /\ t[i].lower
  BY DEF AllLower, Dir!Row
<1>2. \A a, b \in Dir!Spelling : a.word = b.word /\ a.lower /\ b.lower => a = b
  BY DEF Dir!Spelling
<1> QED
  BY <1>1, <1>2

LEMMA LoweringKeepsUnalike ==
  ASSUME NEW S, NEW t \in [S -> Dir!Spelling \cup {None}], NEW u,
         u = [i \in S |-> IF t[i] = None THEN None ELSE Dir!Lower(t[i])]
  PROVE  /\ u \in [S -> Dir!Spelling \cup {None}]
         /\ AllLower(u)
         /\ Dir!Alike(u) => Dir!Alike(t)
<1>1. \A s \in Dir!Spelling : /\ Dir!Lower(s) \in Dir!Spelling
                              /\ Dir!Lower(s).word = s.word /\ Dir!Lower(s).lower
  BY DEF Dir!Lower, Dir!Spelling
<1>2. u \in [S -> Dir!Spelling \cup {None}]
  BY <1>1
<1>3. AllLower(u)
  BY <1>1 DEF AllLower
<1>4. \A i \in S : Dir!Row(u, i) => Dir!Row(t, i) /\ u[i].word = t[i].word
  BY <1>1 DEF Dir!Row
<1>5. Dir!Alike(u) => Dir!Alike(t)
  BY <1>2, <1>4, AlikeWords
<1> QED
  BY <1>2, <1>3, <1>5

-----------------------------------------------------------------------------
(* The invariant: what each step of migrate() has left behind when the     *)
(* next one begins, and what the handlers are about to write.              *)

(* A text in hand is for a row that can be, an address is in lower case.   *)
Asks(r) ==
  /\ r.op \in {"create", "rename"} => r.text \in Dir!Spelling
  /\ r.op = "rename" => r.id \in Categories
  /\ r.op \in {"register", "profile"} => r.text \in Dir!Spelling /\ r.text.lower
  /\ r.op = "profile" => r.id \in Accounts

BootTyped ==
  /\ boot \in {BootOrder[k] : k \in 1 .. 14} \cup {"failed"}
  /\ OnlySelfMessagesFail
  /\ schema \subseteq Whole
  /\ category \in [Categories -> Dir!Spelling \cup {None}]
  /\ email \in [Accounts -> Dir!Spelling \cup {None}]
  /\ index \in Dir!Indexes
  /\ request \in [Handlers -> Dir!Request]
  /\ \A h \in Handlers : Asks(request[h])

SchemaSoFar == \A k \in 1 .. 14, j \in 1 .. 9 : boot = BootOrder[k] /\ j < k => BootOrder[j] \in schema

IndexHolds ==
  /\ index = "exact" => ~Dir!Repeated(category)
  /\ index = "nocase" => ~Dir!Alike(category)
  /\ boot = "recreate" => ~Dir!Alike(category)

(* The strongest index there can be: the plain one before it is replaced.  *)
IndexSoFar ==
  /\ boot \in {"nocase", "emails"} /\ ~Dir!Repeated(category) => index # "none"
  /\ boot = "emails" /\ ~Dir!Alike(category) => index = "nocase"

NamesKept ==
  /\ Dir!Alike(category) => alike.category
  /\ Dir!Alike(email) => alike.email
  /\ boot \in {"emails", "serving"} => index = "nocase" \/ alike.category
  /\ boot = "serving" => AllLower(email) \/ alike.email

StartupInv == BootTyped /\ SchemaSoFar /\ IndexHolds /\ IndexSoFar /\ NamesKept

LEMMA StartsRight == StartupInit => StartupInv
<1> SUFFICES ASSUME StartupInit PROVE StartupInv
    OBVIOUS
<1> USE DEF StartupInit
<1>1. boot = BootOrder[1] /\ BootOrder[1] = "user.role"
  BY DEF Parts, BootOrder
<1>2. schema \subseteq Whole
  BY PartsLength DEF Whole
<1>3. Dir!Idle \in Dir!Request /\ Asks(Dir!Idle)
  BY DEF Dir!Idle, Dir!Request, Asks
<1>4. BootTyped
  BY <1>1, <1>2, <1>3 DEF BootTyped, OnlySelfMessagesFail
<1>5. SchemaSoFar
  BY <1>1, OrderOfBoot DEF SchemaSoFar
<1>6. IndexHolds /\ IndexSoFar /\ NamesKept
  BY <1>1 DEF IndexHolds, IndexSoFar, NamesKept
<1> QED
  BY <1>4, <1>5, <1>6 DEF StartupInv

(* A step of migrate() that moves on to the next one with the schema it    *)
(* needs.                                                                  *)
LEMMA SchemaGoesOn ==
  ASSUME SchemaSoFar, NEW k \in 1 .. 13, boot = BootOrder[k], boot' = BootOrder[k + 1],
         schema \subseteq schema', k <= 9 => BootOrder[k] \in schema'
  PROVE  SchemaSoFar'
<1> SUFFICES ASSUME NEW i \in 1 .. 14, NEW j \in 1 .. 9, boot' = BootOrder[i], j < i
             PROVE  BootOrder[j] \in schema'
    BY DEF SchemaSoFar
<1>1. k + 1 \in 1 .. 14 /\ BootOrder[i] = BootOrder[k + 1]
  OBVIOUS
<1>2. i = k + 1
  BY <1>1, OrderOfBoot
<1>3. j = k \/ j < k
  BY <1>2
<1> QED
  BY <1>3 DEF SchemaSoFar

LEMMA PlaceInOrder ==
  /\ "user.role" = BootOrder[1] /\ "user.banned" = BootOrder[2]
  /\ "post.img_url" = BootOrder[3] /\ "user_post_reaction" = BootOrder[4]
  /\ "conversation" = BootOrder[5] /\ "notification" = BootOrder[6]
  /\ "bookmark" = BootOrder[7] /\ "message_read" = BootOrder[8]
  /\ "indexes" = BootOrder[9] /\ "unique" = BootOrder[10]
  /\ "nocase" = BootOrder[11] /\ "recreate" = BootOrder[12]
  /\ "emails" = BootOrder[13] /\ "serving" = BootOrder[14]
BY DEF BootOrder

(* The steps after the ninth leave the schema as it is. *)
LEMMA SchemaStays ==
  ASSUME SchemaSoFar, boot \in {BootOrder[k] : k \in 10 .. 14}, schema' = schema
  PROVE  SchemaSoFar'
<1>1. \A j \in 1 .. 9 : BootOrder[j] \in schema
  BY DEF SchemaSoFar
<1> QED
  BY <1>1 DEF SchemaSoFar

LEMMA LateSteps ==
  /\ {"unique", "nocase", "recreate", "emails", "serving"} \subseteq {BootOrder[k] : k \in 10 .. 14}
  /\ {BootOrder[k] : k \in 10 .. 14} \subseteq {BootOrder[k] : k \in 1 .. 14}
BY PlaceInOrder

(* Steps that add a part to the schema. *)
LEMMA AddingKeeps ==
  ASSUME StartupInv, NEW k \in 1 .. 9, boot = BootOrder[k], boot' = After(boot),
         schema' = schema \cup {boot}, UNCHANGED <<dirVars, alike>>
  PROVE  StartupInv'
<1> USE DEF StartupInv
<1>1. boot' = BootOrder[k + 1]
  BY AfterIsNext
<1>2. SchemaSoFar'
  BY <1>1, SchemaGoesOn
<1>3. BootTyped'
  BY <1>1, OrderOfBoot DEF BootTyped, OnlySelfMessagesFail, dirVars
<1>4. boot' \notin {"nocase", "recreate", "emails", "serving"}
  BY <1>1, PlaceInOrder, OrderOfBoot
<1>5. IndexHolds' /\ IndexSoFar' /\ NamesKept'
  BY <1>4 DEF IndexHolds, IndexSoFar, NamesKept, dirVars
<1> QED
  BY <1>2, <1>3, <1>5

LEMMA MigrationKeeps ==
  ASSUME StartupInv, Migrate, UNCHANGED <<subject, alike>>
  PROVE  StartupInv'
<1> USE DEF StartupInv
<1>1. \A k \in 1 .. 9 : BootOrder[k] \in Whole
  BY OrderOfBoot
<1>2. CASE AddPart
  <2>1. PICK k \in 1 .. 9 : boot = BootOrder[k]
    BY <1>2 DEF AddPart, Whole, Parts
  <2> QED  BY <1>2, <2>1, AddingKeeps DEF AddPart
<1>3. CASE MigrateConversations
  <2>1. boot = BootOrder[5] /\ boot = "conversation" /\ UNCHANGED <<legacy, dirVars>>
    BY <1>3, PlaceInOrder DEF MigrateConversations
  <2>2. CASE boot' = After(boot)
    <3>0. boot' = "notification"
      BY <2>1, <2>2, StepsInOrder
    <3>1. schema' = schema \cup {boot}
      BY <1>3, <2>1, <3>0 DEF MigrateConversations
    <3>2. UNCHANGED <<dirVars, alike>> /\ 5 \in 1 .. 9 /\ boot = BootOrder[5]
      BY <2>1
    <3> QED  BY <2>2, <3>1, <3>2, AddingKeeps
  <2>3. CASE boot' = "failed"
    <3>1. UNCHANGED schema /\ "conversation" \notin schema /\ SelfWritten
      BY <1>3, <2>1, <2>3, StepsInOrder DEF MigrateConversations
    <3>2. OnlySelfMessagesFail'
      BY <2>1, <3>1 DEF OnlySelfMessagesFail, SelfWritten, Known
    <3>3. BootTyped'
      BY <2>1, <2>3, <3>1, <3>2 DEF BootTyped, dirVars
    <3>4. SchemaSoFar'
      BY <2>3, OrderOfBoot DEF SchemaSoFar
    <3>5. IndexHolds' /\ IndexSoFar' /\ NamesKept'
      BY <2>1, <2>3 DEF IndexHolds, IndexSoFar, NamesKept, dirVars
    <3> QED  BY <3>3, <3>4, <3>5
  <2> QED  BY <1>3, <2>2, <2>3 DEF MigrateConversations
<1>4. CASE AddIndexes
  <2>1. Indexed \subseteq schema
    <3>1. boot = BootOrder[9]
      BY <1>4, PlaceInOrder DEF AddIndexes
    <3>2. \A j \in 1 .. 8 : BootOrder[j] \in schema
      BY <3>1 DEF SchemaSoFar
    <3> QED  BY <3>2, PlaceInOrder DEF Indexed
  <2> QED  BY <1>4, <2>1, PlaceInOrder, AddingKeeps DEF AddIndexes
<1>5. CASE AddNameIndex
  <2>1. boot = "unique" /\ boot' = "nocase"
    BY <1>5, StepsInOrder DEF AddNameIndex
  <2>2. schema' = schema /\ category' = category /\ email' = email /\ request' = request
    BY <1>5 DEF AddNameIndex
  <2>3. SchemaSoFar'
    BY <2>1, <2>2, LateSteps, SchemaStays
  <2>4. index' \in {index, "exact"}
    BY <1>5 DEF AddNameIndex
  <2>5. BootTyped'
    BY <2>1, <2>2, <2>4, LateSteps DEF BootTyped, OnlySelfMessagesFail, Dir!Indexes
  <2>6. IndexHolds' /\ IndexSoFar' /\ NamesKept'
    BY <1>5, <2>1, <2>2 DEF AddNameIndex, IndexHolds, IndexSoFar, NamesKept
  <2> QED  BY <2>3, <2>5, <2>6
<1>6. CASE DropNameIndex
  <2>1. schema' = schema /\ category' = category /\ email' = email /\ request' = request
    BY <1>6 DEF DropNameIndex
  <2>2. boot = "nocase" /\ boot' \in {"recreate", "emails"} /\ index' \in {index, "none"}
    BY <1>6 DEF DropNameIndex
  <2>3. SchemaSoFar'
    BY <2>1, <2>2, LateSteps, SchemaStays
  <2>4. BootTyped'
    BY <2>1, <2>2, LateSteps DEF BootTyped, OnlySelfMessagesFail, Dir!Indexes
  <2>5. ASSUME index = "nocase" \/ Dir!Alike(category)
        PROVE  boot' = "emails" /\ index' = index /\ (index = "nocase" \/ alike.category)
    BY <1>6, <2>5 DEF DropNameIndex, NamesKept
  <2>6. ASSUME ~(index = "nocase" \/ Dir!Alike(category))
        PROVE  boot' = "recreate" /\ index' = "none" /\ ~Dir!Alike(category)
    BY <1>6, <2>6 DEF DropNameIndex
  <2>7. IndexHolds'
    BY <2>1, <2>2, <2>5, <2>6 DEF IndexHolds
  <2>8. IndexSoFar'
    BY <2>1, <2>2, <2>5, <2>6 DEF IndexSoFar
  <2>9. NamesKept'
    BY <2>1, <2>2, <2>5, <2>6 DEF NamesKept
  <2> QED  BY <2>3, <2>4, <2>7, <2>8, <2>9
<1>7. CASE RecreateNameIndex
  <2>1. boot = "recreate" /\ ~Dir!Alike(category)
    BY <1>7 DEF RecreateNameIndex, IndexHolds
  <2>2. boot' = "emails" /\ index' = "nocase"
    BY <1>7, <2>1, StepsInOrder DEF RecreateNameIndex
  <2>3. schema' = schema /\ category' = category /\ email' = email /\ request' = request
    BY <1>7 DEF RecreateNameIndex
  <2>4. SchemaSoFar'
    BY <2>1, <2>3, LateSteps, SchemaStays
  <2>5. BootTyped'
    BY <2>2, <2>3, LateSteps DEF BootTyped, OnlySelfMessagesFail, Dir!Indexes
  <2>6. IndexHolds' /\ IndexSoFar' /\ NamesKept'
    BY <2>1, <2>2, <2>3 DEF IndexHolds, IndexSoFar, NamesKept
  <2> QED  BY <2>4, <2>5, <2>6
<1>8. CASE LowerEmails
  <2>1. boot = "emails" /\ boot' = "serving"
    BY <1>8, StepsInOrder DEF LowerEmails
  <2>2. schema' = schema /\ category' = category /\ index' = index /\ request' = request
    BY <1>8 DEF LowerEmails
  <2>3. SchemaSoFar'
    BY <2>1, <2>2, LateSteps, SchemaStays
  <2>4. /\ email' \in [Accounts -> Dir!Spelling \cup {None}]
        /\ Dir!Alike(email') => alike.email
        /\ AllLower(email') \/ alike.email
    <3>1. CASE Dir!Alike(email)
      BY <1>8, <3>1 DEF LowerEmails, BootTyped, NamesKept
    <3>2. CASE ~Dir!Alike(email)
      <4>1. email \in [Accounts -> Dir!Spelling \cup {None}]
        BY DEF BootTyped
      <4>2. email' = [i \in Accounts |-> IF email[i] = None THEN None ELSE Dir!Lower(email[i])]
        BY <1>8, <3>2 DEF LowerEmails
      <4> QED  BY <3>2, <4>1, <4>2, LoweringKeepsUnalike
    <3> QED  BY <3>1, <3>2
  <2>5. BootTyped'
    BY <2>1, <2>2, <2>4, LateSteps DEF BootTyped, OnlySelfMessagesFail
  <2>6. IndexHolds' /\ IndexSoFar'
    BY <2>1, <2>2 DEF IndexHolds, IndexSoFar
  <2>7. NamesKept'
    BY <2>1, <2>2, <2>4 DEF NamesKept
  <2> QED  BY <2>3, <2>5, <2>6, <2>7
<1> QED
  BY <1>2, <1>3, <1>4, <1>5, <1>6, <1>7, <1>8 DEF Migrate
-----------------------------------------------------------------------------
(* The handlers of the directory.                                          *)

LEMMA AskedOrAnswered ==
  ASSUME BootTyped, NEW h \in Handlers, NEW r \in Dir!Request, Asks(r),
         request' = [request EXCEPT ![h] = r]
  PROVE  request' \in [Handlers -> Dir!Request] /\ \A g \in Handlers : Asks(request'[g])
BY DEF BootTyped

LEMMA CategoryWritten ==
  ASSUME BootTyped, IndexHolds, NEW i \in Categories, NEW s \in Dir!Spelling,
         Dir!IndexAllows(i, s), category' = [category EXCEPT ![i] = s]
  PROVE  /\ category' \in [Categories -> Dir!Spelling \cup {None}]
         /\ index = "exact" => ~Dir!Repeated(category')
         /\ index = "nocase" => ~Dir!Alike(category')
<1>1. category \in [Categories -> Dir!Spelling \cup {None}]
  BY DEF BootTyped
<1>2. ASSUME index = "exact" PROVE ~Dir!Repeated(category')
  <2>1. \A j \in Categories \ {i} : category[j] # s
    BY <1>2 DEF Dir!IndexAllows
  <2> QED  BY <1>1, <1>2, <2>1, WritingKeepsUnrepeated DEF IndexHolds
<1>3. ASSUME index = "nocase" PROVE ~Dir!Alike(category')
  <2>1. \A j \in Categories \ {i} : ~Dir!Holds(category, j, s)
    BY <1>3 DEF Dir!IndexAllows
  <2> QED  BY <1>1, <1>3, <2>1, WritingKeepsUnalike DEF IndexHolds
<1> QED
  BY <1>1, <1>2, <1>3

LEMMA EmailWritten ==
  ASSUME BootTyped, NamesKept, boot = "serving", NEW i \in Accounts,
         NEW s \in Dir!Spelling, s.lower,
         Dir!ColumnAllows(i, s), email' = [email EXCEPT ![i] = s]
  PROVE  /\ email' \in [Accounts -> Dir!Spelling \cup {None}]
         /\ Dir!Alike(email') => alike.email
         /\ AllLower(email') \/ alike.email
<1>1. email \in [Accounts -> Dir!Spelling \cup {None}]
  BY DEF BootTyped
<1>2. ASSUME ~alike.email PROVE ~Dir!Alike(email') /\ AllLower(email')
  <2>1. ~Dir!Alike(email) /\ AllLower(email)
    BY <1>2 DEF NamesKept
  <2>2. \A j \in Accounts \ {i} : ~Dir!Holds(email, j, s)
    BY <1>1, <2>1, UnrepeatedLower DEF Dir!ColumnAllows
  <2>3. AllLower(email')
    BY <1>1, <2>1 DEF AllLower
  <2> QED  BY <1>1, <2>1, <2>2, <2>3, WritingKeepsUnalike
<1> QED
  BY <1>1, <1>2

LEMMA ServedCategories ==
  ASSUME StartupInv, boot = "serving", UNCHANGED <<bootVars, alike, email, index>>,
         request' \in [Handlers -> Dir!Request], \A h \in Handlers : Asks(request'[h]),
         category' \in [Categories -> Dir!Spelling \cup {None}],
         index = "exact" => ~Dir!Repeated(category'),
         index = "nocase" => ~Dir!Alike(category')
  PROVE  StartupInv'
<1> USE DEF StartupInv, bootVars
<1>1. BootTyped'
  BY DEF BootTyped, OnlySelfMessagesFail
<1>2. SchemaSoFar'
  BY DEF SchemaSoFar
<1>3. IndexHolds' /\ IndexSoFar'
  BY DEF IndexHolds, IndexSoFar
<1>4. NamesKept'
  BY DEF NamesKept
<1> QED
  BY <1>1, <1>2, <1>3, <1>4

LEMMA ServedEmails ==
  ASSUME StartupInv, boot = "serving", UNCHANGED <<bootVars, alike, category, index>>,
         request' \in [Handlers -> Dir!Request], \A h \in Handlers : Asks(request'[h]),
         email' \in [Accounts -> Dir!Spelling \cup {None}],
         Dir!Alike(email') => alike.email,
         AllLower(email') \/ alike.email
  PROVE  StartupInv'
<1> USE DEF StartupInv, bootVars
<1>1. BootTyped'
  BY DEF BootTyped, OnlySelfMessagesFail
<1>2. SchemaSoFar'
  BY DEF SchemaSoFar
<1>3. IndexHolds' /\ IndexSoFar'
  BY DEF IndexHolds, IndexSoFar
<1>4. NamesKept'
  BY DEF NamesKept
<1> QED
  BY <1>1, <1>2, <1>3, <1>4

LEMMA LookingKeeps ==
  ASSUME StartupInv, boot = "serving", UNCHANGED <<bootVars, alike>>,
         NEW h \in Handlers, Dir!Look(h)
  PROVE  StartupInv'
<1> USE DEF StartupInv
<1>1. \E r \in Dir!Request : Asks(r) /\ request' = [request EXCEPT ![h] = r]
  <2>1. PICK text \in Dir!Spelling : \/ Dir!CreateCheck(h, text)
                                     \/ \E i \in Categories : Dir!RenameCheck(h, i, text)
                                     \/ Dir!RegisterCheck(h, text)
                                     \/ \E i \in Accounts : Dir!ProfileCheck(h, i, text)
    BY DEF Dir!Look
  <2>2. Dir!Lower(text) \in Dir!Spelling /\ Dir!Lower(text).lower
    BY DEF Dir!Lower, Dir!Spelling
  <2> USE DEF Dir!Begin, Dir!Request, Asks
  <2>3. CASE Dir!CreateCheck(h, text)
    <3> WITNESS [op |-> "create", id |-> None, text |-> text] \in Dir!Request
    <3> QED  BY <2>3 DEF Dir!CreateCheck
  <2>4. CASE \E i \in Categories : Dir!RenameCheck(h, i, text)
    <3>1. PICK i \in Categories : Dir!RenameCheck(h, i, text)
      BY <2>4
    <3> WITNESS [op |-> "rename", id |-> i, text |-> text] \in Dir!Request
    <3> QED  BY <3>1 DEF Dir!RenameCheck
  <2>5. CASE Dir!RegisterCheck(h, text)
    <3> WITNESS [op |-> "register", id |-> None, text |-> Dir!Lower(text)] \in Dir!Request
    <3> QED  BY <2>2, <2>5 DEF Dir!RegisterCheck
  <2>6. CASE \E i \in Accounts : Dir!ProfileCheck(h, i, text)
    <3>1. PICK i \in Accounts : Dir!ProfileCheck(h, i, text)
      BY <2>6
    <3> WITNESS [op |-> "profile", id |-> i, text |-> Dir!Lower(text)] \in Dir!Request
    <3> QED  BY <2>2, <3>1 DEF Dir!ProfileCheck
  <2> QED  BY <2>1, <2>3, <2>4, <2>5, <2>6
<1>2. UNCHANGED <<category, email, index>>
  BY DEF Dir!Look, Dir!CreateCheck, Dir!RenameCheck, Dir!RegisterCheck, Dir!ProfileCheck,
         Dir!Begin, Dir!rows
<1>3. request' \in [Handlers -> Dir!Request] /\ \A g \in Handlers : Asks(request'[g])
  BY <1>1, AskedOrAnswered
<1> QED
  BY <1>2, <1>3, ServedCategories DEF BootTyped, IndexHolds

LEMMA WriteKeeps ==
  ASSUME StartupInv, boot = "serving", UNCHANGED <<bootVars, alike>>,
         NEW h \in Handlers, Dir!Write(h)
  PROVE  StartupInv'
<1> USE DEF StartupInv
<1> DEFINE r == request[h]
<1>1. r \in Dir!Request /\ Asks(r)
  BY DEF BootTyped
<1>2. Dir!Idle \in Dir!Request /\ Asks(Dir!Idle)
  BY DEF Dir!Idle, Dir!Request, Asks
<1>3. request' \in [Handlers -> Dir!Request] /\ \A g \in Handlers : Asks(request'[g])
  <2>1. request' = [request EXCEPT ![h] = Dir!Idle]
    BY DEF Dir!Write, Dir!CreateInsert, Dir!RenameUpdate, Dir!RegisterInsert,
           Dir!ProfileUpdate, Dir!End
  <2> QED  BY <1>2, <2>1, AskedOrAnswered
<1>4. CASE UNCHANGED <<category, email, index>>
  BY <1>3, <1>4, ServedCategories DEF BootTyped, IndexHolds
<1>5. ASSUME UNCHANGED <<email, index>>, NEW i \in Categories, r.text \in Dir!Spelling,
             Dir!IndexAllows(i, r.text), category' = [category EXCEPT ![i] = r.text]
      PROVE  StartupInv'
  BY <1>3, <1>5, CategoryWritten, ServedCategories
<1>6. ASSUME UNCHANGED <<category, index>>, NEW i \in Accounts, r.text \in Dir!Spelling,
             r.text.lower, Dir!ColumnAllows(i, r.text),
             email' = [email EXCEPT ![i] = r.text]
      PROVE  StartupInv'
  BY <1>3, <1>6, EmailWritten, ServedEmails
<1>7. CASE Dir!CreateInsert(h)
  <2>1. r.text \in Dir!Spelling
    BY <1>1, <1>7 DEF Dir!CreateInsert, Asks
  <2> QED  BY <1>4, <1>5, <1>7, <2>1 DEF Dir!CreateInsert
<1>8. CASE Dir!RenameUpdate(h)
  <2>1. r.text \in Dir!Spelling /\ r.id \in Categories
    BY <1>1, <1>8 DEF Dir!RenameUpdate, Asks
  <2> QED  BY <1>4, <1>5, <1>8, <2>1 DEF Dir!RenameUpdate
<1>9. CASE Dir!RegisterInsert(h)
  <2>1. r.text \in Dir!Spelling /\ r.text.lower
    BY <1>1, <1>9 DEF Dir!RegisterInsert, Asks
  <2> QED  BY <1>4, <1>6, <1>9, <2>1 DEF Dir!RegisterInsert
<1>10. CASE Dir!ProfileUpdate(h)
  <2>1. r.text \in Dir!Spelling /\ r.text.lower /\ r.id \in Accounts
    BY <1>1, <1>10 DEF Dir!ProfileUpdate, Asks
  <2> QED  BY <1>4, <1>6, <1>10, <2>1 DEF Dir!ProfileUpdate
<1> QED
  BY <1>7, <1>8, <1>9, <1>10 DEF Dir!Write

LEMMA ServingKeeps ==
  ASSUME StartupInv, Serve, UNCHANGED alike
  PROVE  StartupInv'
<1> USE DEF StartupInv
<1>1. boot = "serving" /\ UNCHANGED bootVars
  BY DEF Serve
<1>2. CASE UNCHANGED dirVars
  BY <1>1, <1>2, ServedCategories DEF BootTyped, IndexHolds, dirVars
<1>3. CASE \E h \in Handlers : Dir!Look(h) \/ Dir!Write(h)
  BY <1>1, <1>3, LookingKeeps, WriteKeeps
<1>4. CASE \E i \in Categories : Dir!DeleteCategory(i)
  <2>1. PICK i \in Categories : Dir!DeleteCategory(i)
    BY <1>4
  <2>2. category' = [category EXCEPT ![i] = None] /\ UNCHANGED <<email, index, request>>
    BY <2>1 DEF Dir!DeleteCategory
  <2>3. category \in [Categories -> Dir!Spelling \cup {None}]
    BY DEF BootTyped
  <2>4. /\ Dir!Alike(category') => Dir!Alike(category)
        /\ Dir!Repeated(category') => Dir!Repeated(category)
    BY <2>2, <2>3, ErasingKeepsDistinct
  <2>5. /\ request' \in [Handlers -> Dir!Request]
        /\ \A h \in Handlers : Asks(request'[h])
        /\ category' \in [Categories -> Dir!Spelling \cup {None}]
    BY <2>2, <2>3 DEF BootTyped
  <2> QED  BY <1>1, <2>2, <2>4, <2>5, ServedCategories DEF IndexHolds
<1> QED
  BY <1>2, <1>3, <1>4 DEF Serve, Dir!Handle

LEMMA RestartKeeps ==
  ASSUME StartupInv, Restart, UNCHANGED alike
  PROVE  StartupInv'
<1> USE DEF StartupInv
<1>1. boot' = BootOrder[1] /\ BootOrder[1] = "user.role"
  BY DEF Restart, Parts, BootOrder
<1>2. UNCHANGED <<schema, category, email, index>>
  BY DEF Restart
<1>3. request' \in [Handlers -> Dir!Request] /\ \A h \in Handlers : Asks(request'[h])
  BY DEF Restart, Dir!Idle, Dir!Request, Asks
<1>4. BootTyped'
  BY <1>1, <1>2, <1>3 DEF BootTyped, OnlySelfMessagesFail
<1>5. SchemaSoFar'
  BY <1>1, OrderOfBoot DEF SchemaSoFar
<1>6. IndexHolds' /\ IndexSoFar' /\ NamesKept'
  BY <1>1, <1>2 DEF IndexHolds, IndexSoFar, NamesKept
<1> QED
  BY <1>4, <1>5, <1>6

LEMMA StartupStepKeeps == StartupInv /\ [StartupNext]_startupVars => StartupInv'
<1>1. ASSUME StartupInv, StartupNext PROVE StartupInv'
  BY <1>1, MigrationKeeps, ServingKeeps, RestartKeeps DEF StartupNext
<1>2. ASSUME StartupInv, UNCHANGED startupVars PROVE StartupInv'
  <2>1. UNCHANGED <<bootVars, dirVars, alike>>
    BY <1>2 DEF startupVars
  <2>2. OnlySelfMessagesFail'
    BY <1>2, <2>1 DEF StartupInv, BootTyped, OnlySelfMessagesFail, SelfWritten, Known, bootVars
  <2> QED  BY <1>2, <2>1, <2>2 DEF StartupInv, BootTyped, SchemaSoFar, IndexHolds, IndexSoFar,
                                   NamesKept, bootVars, dirVars
<1> QED
  BY <1>1, <1>2

LEMMA StartupInvariant == StartupSpec => []StartupInv
BY StartsRight, StartupStepKeeps, PTL DEF StartupSpec

-----------------------------------------------------------------------------
(* sqlFuncs.go:244-251: no start fails but on an old message to oneself    *)
(* that is still to be migrated, on a database of any size and history,    *)
(* after any number of stops: the two indexes on the names are made only   *)
(* when nothing stands in their way, and every table that an index names   *)
(* is there by then.                                                       *)
THEOREM StartsFailOnlyOnSelfMessages == StartupSpec => []OnlySelfMessagesFail
<1>1. StartupInv => OnlySelfMessagesFail
  BY DEF StartupInv, BootTyped
<1> QED
  BY <1>1, StartupInvariant, PTL

(* sqlFuncs.go:240-243, 289-295, 352-361: names, and addresses, that no    *)
(* two rows shared at first are never shared by two rows, whatever the     *)
(* case, however many handlers look and write at once.                     *)
THEOREM NamesAreKeptApart == StartupSpec => []NamesStayDistinct
<1>1. StartupInv => NamesStayDistinct
  BY DEF StartupInv, NamesKept, NamesStayDistinct
<1> QED
  BY <1>1, StartupInvariant, PTL

(* sqlFuncs.go:71-238: every start that reaches the handlers leaves them   *)
(* the whole schema, the strongest index that the names allow, and         *)
(* addresses in lower case unless that would make two the same.            *)
THEOREM ServesOnlyWhenWhole == StartupSpec => StartsWhole
<1>1. ASSUME StartupInv, StartupNext, boot # "serving", boot' = "serving"
      PROVE  ServesWhole'
  <2> USE <1>1 DEF StartupInv
  <2>1. LowerEmails
    <3>1. ~AddPart /\ ~MigrateConversations
      <4>1. \A k \in 1 .. 9 : After(BootOrder[k]) # "serving"
        BY AfterIsNext, OrderOfBoot, PlaceInOrder
      <4>2. \A part \in Whole : After(part) # "serving"
        BY <4>1, PartsLength DEF Whole, Parts
      <4> QED  BY <4>2, PartsAre DEF AddPart, MigrateConversations
    <3>2. ~AddIndexes /\ ~AddNameIndex /\ ~DropNameIndex /\ ~RecreateNameIndex
      BY StepsInOrder DEF AddIndexes, AddNameIndex, DropNameIndex, RecreateNameIndex
    <3>3. ~Serve
      BY DEF Serve
    <3>4. ~Restart
      BY DEF Restart, Parts, BootOrder
    <3> QED  BY <3>1, <3>2, <3>3, <3>4 DEF StartupNext, Migrate
  <2>2. boot = "emails" /\ UNCHANGED <<schema, category, index>>
    BY <2>1 DEF LowerEmails
  <2>3. \A j \in 1 .. 9 : BootOrder[j] \in schema
    BY <2>2, PlaceInOrder DEF SchemaSoFar
  <2>4. schema = Whole
    BY <2>3, PartsLength DEF BootTyped, Whole, Parts
  <2>5. Dir!Repeated(category) => Dir!Alike(category)
    BY RepeatedIsAlike DEF BootTyped
  <2>6. /\ Dir!Repeated(category) => index = "none"
        /\ Dir!Alike(category) => index # "nocase"
        /\ ~Dir!Repeated(category) => index # "none"
        /\ ~Dir!Alike(category) => index = "nocase"
    BY <2>2, <2>5 DEF BootTyped, Dir!Indexes, IndexHolds, IndexSoFar
  <2>7. Dir!Alike(email') \/ \A i \in Accounts : email'[i] # None => email'[i].lower
    <3>1. email \in [Accounts -> Dir!Spelling \cup {None}]
      BY DEF BootTyped
    <3>2. CASE ~Dir!Alike(email)
      <4>1. email' = [i \in Accounts |-> IF email[i] = None THEN None ELSE Dir!Lower(email[i])]
        BY <2>1, <3>2 DEF LowerEmails
      <4> QED  BY <3>1, <4>1, LoweringKeepsUnalike DEF AllLower
    <3>3. CASE Dir!Alike(email)
      BY <2>1, <3>3 DEF LowerEmails
    <3> QED  BY <3>2, <3>3
  <2> QED  BY <2>2, <2>4, <2>6, <2>7 DEF ServesWhole
<1>2. StartupInv /\ [StartupNext]_startupVars
        => [boot # "serving" /\ boot' = "serving" => ServesWhole']_startupVars
  BY <1>1
<1> QED
  BY <1>2, StartupInvariant, PTL DEF StartupSpec, StartsWhole

-----------------------------------------------------------------------------
(* Ranks in a finite set of numbers, by which the old messages and their   *)
(* conversations are numbered.                                             *)

Below(S, k) == {j \in S : j <= k}
RankIn(S, k) == Cardinality(Below(S, k))

LEMMA RankBounds ==
  ASSUME NEW S \in SUBSET Nat, IsFiniteSet(S), NEW k \in S
  PROVE  /\ IsFiniteSet(Below(S, k))
         /\ RankIn(S, k) \in Nat \ {0}
         /\ RankIn(S, k) \in 1 .. Cardinality(S)
<1>1. Below(S, k) \in SUBSET S /\ k \in Below(S, k)
  BY DEF Below
<1>2. IsFiniteSet(Below(S, k)) /\ RankIn(S, k) <= Cardinality(S)
  BY <1>1, FS_Subset DEF RankIn
<1>3. RankIn(S, k) \in Nat /\ Cardinality(S) \in Nat
  BY <1>2, FS_CardinalityType DEF RankIn
<1>4. RankIn(S, k) # 0
  BY <1>1, <1>2, FS_EmptySet DEF RankIn
<1> QED
  BY <1>2, <1>3, <1>4

LEMMA RanksRise ==
  ASSUME NEW S \in SUBSET Nat, IsFiniteSet(S), NEW j \in S, NEW k \in S, j < k
  PROVE  RankIn(S, j) < RankIn(S, k)
<1>1. \A i \in S : (i <= j => i <= k) /\ k <= k /\ ~(k <= j)
  OBVIOUS
<1>2. Below(S, j) \in SUBSET Below(S, k) /\ k \in Below(S, k) /\ k \notin Below(S, j)
  BY <1>1 DEF Below
<1>3. IsFiniteSet(Below(S, k))
  BY RankBounds
<1>4. RankIn(S, j) <= RankIn(S, k) /\ RankIn(S, j) # RankIn(S, k)
  BY <1>2, <1>3, FS_Subset DEF RankIn
<1>5. RankIn(S, j) \in Nat /\ RankIn(S, k) \in Nat
  BY RankBounds
<1> QED
  BY <1>4, <1>5

LEMMA RanksDiffer ==
  ASSUME NEW S \in SUBSET Nat, IsFiniteSet(S), NEW j \in S, NEW k \in S
  PROVE  RankIn(S, j) = RankIn(S, k) <=> j = k
<1>1. RankIn(S, j) \in Nat /\ RankIn(S, k) \in Nat
  BY RankBounds
<1>2. j < k => RankIn(S, j) < RankIn(S, k)
  BY RanksRise
<1>3. k < j => RankIn(S, k) < RankIn(S, j)
  BY RanksRise
<1> QED
  BY <1>1, <1>2, <1>3

(* No rank is left out. *)
LEMMA RanksFill ==
  ASSUME NEW S \in SUBSET Nat, IsFiniteSet(S), NEW m \in 1 .. Cardinality(S)
  PROVE  \E k \in S : RankIn(S, k) = m
<1> DEFINE n == Cardinality(S)
           f == [k \in S |-> RankIn(S, k)]
<1>1. n \in Nat /\ IsFiniteSet(1 .. n) /\ Cardinality(1 .. n) = n
  <2>1. n \in Nat
    BY FS_CardinalityType
  <2> QED  BY <2>1, FS_Interval
<1>2. f \in [S -> 1 .. n]
  BY RankBounds
<1>3. \A j, k \in S : f[j] = f[k] => j = k
  BY RanksDiffer
<1>4. f \in Injection(S, 1 .. n)
  BY <1>2, <1>3 DEF Injection, IsInjective
<1>5. f \in Surjection(S, 1 .. n)
  BY <1>1, <1>4, FS_Injection
<1>6. \A y \in 1 .. n : \E k \in S : f[k] = y
  BY <1>5 DEF Surjection
<1>7. \A k \in S : f[k] = RankIn(S, k)
  OBVIOUS
<1> HIDE DEF f
<1> QED
  BY <1>6, <1>7

(* There is a least number. *)
LEMMA LeastIs ==
  ASSUME NEW S \in SUBSET Nat, IsFiniteSet(S), S # {}
  PROVE  \E k \in S : \A j \in S : k <= j
<1>1. Cardinality(S) \in Nat /\ Cardinality(S) # 0
  BY FS_CardinalityType, FS_EmptySet
<1>2. PICK k \in S : RankIn(S, k) = 1
  BY <1>1, RanksFill
<1>3. ASSUME NEW j \in S, j < k PROVE FALSE
  <2>1. RankIn(S, j) \in Nat \ {0} /\ RankIn(S, j) < RankIn(S, k)
    BY <1>3, RankBounds, RanksRise
  <2> QED  BY <1>2, <2>1
<1> QED
  BY <1>3

-----------------------------------------------------------------------------
(* The replay: the n-th known message gets the n-th id, the n-th pair that *)
(* wrote the n-th conversation.                                            *)

LegacyOK == legacy \in Seq(LegacyMessage) /\ Len(legacy) <= MaxLegacy

Rank(k) == RankIn(Known, k)
Openers == {k \in Known : Opener(k) = k}

(* The message that the replay makes of an old one. *)
Copy(k) == [conv |-> ConvOf(k), from |-> legacy[k].from, stray |-> FALSE]

LEMMA UpToIs == \A k : UpTo(k) = Below(Known, k)
BY DEF UpTo, Below

LEMMA KnownIs ==
  ASSUME LegacyOK
  PROVE  /\ Known \in SUBSET Nat /\ IsFiniteSet(Known)
         /\ Cardinality(Known) \in Nat /\ Cardinality(Known) <= MaxLegacy
         /\ \A k \in Known : /\ legacy[k].from \in Users
                             /\ legacy[k].from \in Pair(k)
                             /\ Pair(k) \in SUBSET Users
<1>1. Len(legacy) \in Nat /\ DOMAIN legacy = 1 .. Len(legacy)
      /\ \A k \in 1 .. Len(legacy) : legacy[k] \in LegacyMessage
  BY DEF LegacyOK
<1>2. Known \in SUBSET (1 .. Len(legacy))
  BY <1>1 DEF Known
<1>3. IsFiniteSet(1 .. Len(legacy)) /\ Cardinality(1 .. Len(legacy)) = Len(legacy)
  BY <1>1, FS_Interval
<1>4. IsFiniteSet(Known) /\ Cardinality(Known) <= Len(legacy)
  BY <1>2, <1>3, FS_Subset
<1>5. Cardinality(Known) \in Nat
  BY <1>4, FS_CardinalityType
<1>6. Cardinality(Known) <= MaxLegacy
  BY <1>1, <1>4, <1>5, StartupAssumption DEF LegacyOK
<1>7. ASSUME NEW k \in Known
      PROVE  legacy[k].from \in Users /\ legacy[k].from \in Pair(k) /\ Pair(k) \in SUBSET Users
  <2>1. legacy[k] \in LegacyMessage /\ legacy[k].from # None /\ legacy[k].to # None
    BY <1>1, <1>2, <1>7 DEF Known
  <2> QED  BY <2>1 DEF LegacyMessage, Pair
<1> QED
  BY <1>1, <1>2, <1>4, <1>5, <1>6, <1>7

LEMMA OpenerIs ==
  ASSUME LegacyOK, NEW k \in Known
  PROVE  /\ Opener(k) \in Openers
         /\ Pair(Opener(k)) = Pair(k)
         /\ \A j \in Known : Pair(j) = Pair(k) => Opener(j) = Opener(k)
<1> DEFINE Opens(j, S) == Pair(j) = S /\ \A i \in UpTo(j) : Pair(i) = Pair(j) => i = j
           First(S) == CHOOSE j \in Known : Opens(j, S)
<1>1. Known \in SUBSET Nat /\ IsFiniteSet(Known)
  BY KnownIs
<1>2. \A j \in Known : Opener(j) = First(Pair(j))
  BY DEF Opener
<1>3. \E j \in Known : Opens(j, Pair(k))
  <2> DEFINE S == {j \in Known : Pair(j) = Pair(k)}
  <2>1. S \in SUBSET Nat /\ S \in SUBSET Known /\ k \in S
    BY <1>1
  <2>2. IsFiniteSet(S)
    BY <1>1, <2>1, FS_Subset
  <2> HIDE DEF S
  <2>3. PICK j \in S : \A i \in S : j <= i
    BY <2>1, <2>2, LeastIs
  <2>4. j \in Known /\ Pair(j) = Pair(k)
    BY <2>3 DEF S
  <2>5. ASSUME NEW i \in UpTo(j), Pair(i) = Pair(j) PROVE i = j
    <3>1. i \in S /\ i <= j
      BY <2>4, <2>5 DEF UpTo, S
    <3>2. j <= i /\ i \in Nat /\ j \in Nat
      BY <2>1, <2>3, <3>1
    <3> QED  BY <3>1, <3>2
  <2> QED  BY <2>4, <2>5
<1>4. First(Pair(k)) \in Known /\ Opens(First(Pair(k)), Pair(k))
  BY <1>3
<1> HIDE DEF First
<1>5. Opener(k) \in Known /\ Pair(Opener(k)) = Pair(k)
  BY <1>2, <1>4
<1>6. \A j \in Known : Pair(j) = Pair(k) => Opener(j) = Opener(k)
  BY <1>2
<1>7. Opener(Opener(k)) = Opener(k)
  BY <1>5, <1>6
<1> QED
  BY <1>5, <1>6, <1>7 DEF Openers

LEMMA ConvOfIs ==
  ASSUME LegacyOK
  PROVE  \A k \in Known :
           /\ ConvOf(k) \in ConvIDs
           /\ \A j \in Known : ConvOf(j) = ConvOf(k) <=> Pair(j) = Pair(k)
<1>1. Openers \in SUBSET Known /\ Openers \in SUBSET Nat
  BY KnownIs DEF Openers
<1>2. IsFiniteSet(Openers) /\ Cardinality(Openers) <= Cardinality(Known)
  BY <1>1, KnownIs, FS_Subset
<1>3. Cardinality(Openers) \in Nat
  BY <1>2, FS_CardinalityType
<1>4. Cardinality(Openers) <= MaxLegacy
  BY <1>2, <1>3, KnownIs, StartupAssumption
<1>5. ASSUME NEW k \in Known PROVE ConvOf(k) = RankIn(Openers, Opener(k))
  <2>1. {j \in UpTo(Opener(k)) : Opener(j) = j} = Below(Openers, Opener(k))
    BY DEF UpTo, Below, Openers
  <2> QED  BY <2>1 DEF ConvOf, RankIn
<1>6. \A k \in Known : Opener(k) \in Openers
  BY OpenerIs
<1>7. ASSUME NEW k \in Known PROVE ConvOf(k) \in ConvIDs
  <2>1. ConvOf(k) \in 1 .. Cardinality(Openers)
    BY <1>1, <1>2, <1>5, <1>6, RankBounds
  <2>2. ConvOf(k) \in 1 .. MaxLegacy
    BY <1>3, <1>4, <2>1, StartupAssumption
  <2> QED  BY <2>2, StartupAssumption
<1>8. ASSUME NEW k \in Known, NEW j \in Known PROVE ConvOf(j) = ConvOf(k) <=> Pair(j) = Pair(k)
  <2> PICK x, y : x = Opener(j) /\ y = Opener(k)
      OBVIOUS
  <2>0. RankIn(Openers, x) = RankIn(Openers, y) <=> x = y
    BY <1>1, <1>2, <1>6, <1>8, RanksDiffer
  <2>1. ConvOf(j) = ConvOf(k) <=> Opener(j) = Opener(k)
    <3>1. ConvOf(j) = RankIn(Openers, x)
      BY <1>5, <1>8
    <3>2. ConvOf(k) = RankIn(Openers, y)
      BY <1>5, <1>8
    <3> QED  BY <2>0, <3>1, <3>2
  <2>2. Opener(j) = Opener(k) => Pair(j) = Pair(k)
    BY OpenerIs
  <2>3. Pair(j) = Pair(k) => Opener(j) = Opener(k)
    BY OpenerIs
  <2> QED  BY <2>1, <2>2, <2>3
<1> QED
  BY <1>7, <1>8

LEMMA RankIs ==
  ASSUME LegacyOK
  PROVE  /\ \A k \in Known : /\ Rank(k) \in MessageIDs
                             /\ Rank(k) \in 1 .. Cardinality(Known)
                             /\ \A j \in Known : Rank(j) = Rank(k) <=> j = k
                             /\ \A j \in Known : Rank(j) <= Rank(k) <=> j <= k
         /\ \A m \in 1 .. Cardinality(Known) : \E k \in Known : Rank(k) = m
<1>1. /\ Known \in SUBSET Nat /\ IsFiniteSet(Known)
      /\ Cardinality(Known) \in Nat /\ Cardinality(Known) <= MaxLegacy
  BY KnownIs
<1>2. \A k \in Known : Rank(k) \in 1 .. Cardinality(Known)
  BY <1>1, RankBounds DEF Rank
<1>3. \A k \in Known : Rank(k) \in 1 .. MaxLegacy
  BY <1>1, <1>2, StartupAssumption
<1>4. \A j, k \in Known : Rank(j) = Rank(k) <=> j = k
  BY <1>1, RanksDiffer DEF Rank
<1>5. \A j, k \in Known : Rank(j) <= Rank(k) <=> j <= k
  <2> SUFFICES ASSUME NEW j \in Known, NEW k \in Known PROVE Rank(j) <= Rank(k) <=> j <= k
      OBVIOUS
  <2>1. j \in Nat /\ k \in Nat /\ Rank(j) \in Nat /\ Rank(k) \in Nat
    BY <1>1, <1>2
  <2>2. j < k => Rank(j) < Rank(k)
    BY <1>1, RanksRise DEF Rank
  <2>3. k < j => Rank(k) < Rank(j)
    BY <1>1, RanksRise DEF Rank
  <2> QED  BY <1>4, <2>1, <2>2, <2>3
<1>6. \A m \in 1 .. Cardinality(Known) : \E k \in Known : Rank(k) = m
  BY <1>1, RanksFill DEF Rank
<1>7. \A k \in Known : Rank(k) \in MessageIDs
  BY <1>3, StartupAssumption
<1> QED
  BY <1>2, <1>4, <1>5, <1>6, <1>7

(* What the replay leaves: conversations of two, each with the messages    *)
(* that name it, every one of them by one of the two.                      *)
LEMMA ReplayedRows ==
  ASSUME LegacyOK, Replay
  PROVE  /\ \A k \in Known : /\ kind'[ConvOf(k)] = "direct"
                             /\ pair'[ConvOf(k)] = Pair(k)
                             /\ message'[Rank(k)] = Copy(k)
         /\ \A c \in ConvIDs :
              \/ \E k \in Known : ConvOf(k) = c /\ kind'[c] = "direct" /\ pair'[c] = Pair(k)
              \/ kind'[c] = "none" /\ pair'[c] = {}
         /\ \A m \in MessageIDs :
              \/ \E k \in Known : message'[m] = Copy(k)
              \/ message'[m] = None
         /\ member' = pair' /\ was' = pair' /\ mark' = mark /\ strays' = strays
         /\ DOMAIN kind' = ConvIDs /\ DOMAIN pair' = ConvIDs /\ DOMAIN message' = MessageIDs
<1>1. ASSUME NEW k \in Known PROVE kind'[ConvOf(k)] = "direct" /\ pair'[ConvOf(k)] = Pair(k)
  <2> PICK c \in ConvIDs : c = ConvOf(k)
      BY <1>1, ConvOfIs
  <2>1. kind'[c] = "direct"
    BY <1>1 DEF Replay
  <2>2. pair'[c] = UNION {Pair(j) : j \in {i \in Known : ConvOf(i) = c}}
    BY DEF Replay
  <2>3. \A i \in Known : ConvOf(i) = c <=> Pair(i) = Pair(k)
    BY <1>1, ConvOfIs
  <2>4. {i \in Known : ConvOf(i) = c} = {i \in Known : Pair(i) = Pair(k)}
    BY <2>3
  <2>5. UNION {Pair(j) : j \in {i \in Known : Pair(i) = Pair(k)}} = Pair(k)
    BY <1>1
  <2> QED  BY <2>1, <2>2, <2>4, <2>5
<1>2. ASSUME NEW k \in Known
      PROVE  message'[Rank(k)] = Copy(k)
  <2> PICK m \in MessageIDs : m = Rank(k)
      BY <1>2, RankIs
  <2> DEFINE n == CHOOSE j \in Known : Cardinality(UpTo(j)) = m
  <2>1. m \in Nat /\ m <= Cardinality(Known)
    BY <1>2, KnownIs, RankIs
  <2>2. \A j : Cardinality(UpTo(j)) = Rank(j)
    BY UpToIs DEF Rank, RankIn
  <2>3. n \in Known /\ Cardinality(UpTo(n)) = m
    BY <1>2, <2>2
  <2>4. n = k
    BY <1>2, <2>2, <2>3, RankIs
  <2>5. message'[m] = Copy(n)
    BY <2>1 DEF Replay, Copy
  <2> HIDE DEF n
  <2> QED  BY <2>4, <2>5
<1>3. ASSUME NEW c \in ConvIDs, \A k \in Known : ConvOf(k) # c
      PROVE  kind'[c] = "none" /\ pair'[c] = {}
  <2>1. {j \in Known : ConvOf(j) = c} = {}
    BY <1>3
  <2>2. pair'[c] = UNION {Pair(k) : k \in {j \in Known : ConvOf(j) = c}}
    BY DEF Replay
  <2>3. kind'[c] = "none"
    BY <1>3 DEF Replay
  <2> QED  BY <2>1, <2>2, <2>3
<1>4. ASSUME NEW m \in MessageIDs, \A k \in Known : Rank(k) # m PROVE message'[m] = None
  <2>1. m \in Nat \ {0} /\ Cardinality(Known) \in Nat
    BY KnownIs, ConversationsAssumption
  <2>2. ~(m <= Cardinality(Known))
    BY <1>4, <2>1, RankIs
  <2> QED  BY <2>2 DEF Replay
<1>5. /\ member' = pair' /\ was' = pair' /\ mark' = mark /\ strays' = strays
      /\ DOMAIN kind' = ConvIDs /\ DOMAIN pair' = ConvIDs /\ DOMAIN message' = MessageIDs
  BY DEF Replay
<1>6. ASSUME NEW c \in ConvIDs
      PROVE  \/ \E k \in Known : ConvOf(k) = c /\ kind'[c] = "direct" /\ pair'[c] = Pair(k)
             \/ kind'[c] = "none" /\ pair'[c] = {}
  BY <1>1, <1>3, <1>6
<1>7. ASSUME NEW m \in MessageIDs
      PROVE  \/ \E k \in Known : message'[m] = Copy(k)
             \/ message'[m] = None
  BY <1>2, <1>4, <1>7
<1> QED
  BY <1>1, <1>2, <1>5, <1>6, <1>7

LEMMA ReplayTyped ==
  ASSUME LegacyOK, TypeInv, Replay, UNCHANGED loop
  PROVE  TypeInv'
<1>1. \A k \in Known : ConvOf(k) \in ConvIDs /\ legacy[k].from \in Users /\ Pair(k) \in SUBSET Users
  BY KnownIs, ConvOfIs
<1>2. kind' \in [ConvIDs -> Kinds]
  BY DEF Replay, Kinds
<1>3. pair' \in [ConvIDs -> SUBSET Users]
  <2>1. pair' = [c \in ConvIDs |-> UNION {Pair(k) : k \in {j \in Known : ConvOf(j) = c}}]
    BY DEF Replay
  <2>2. \A c \in ConvIDs : UNION {Pair(k) : k \in {j \in Known : ConvOf(j) = c}} \in SUBSET Users
    BY <1>1
  <2> QED  BY <2>1, <2>2
<1>4. message' \in [MessageIDs -> Message \cup {None}]
  <2>0. \A k \in Known : Copy(k) \in Message
    BY <1>1 DEF Message, Copy
  <2>1. \A m \in MessageIDs : message'[m] \in Message \cup {None}
    BY <2>0, ReplayedRows
  <2>2. message' = [m \in MessageIDs |-> message'[m]]
    BY DEF Replay
  <2> QED  BY <2>1, <2>2
<1>5. RowsOK'
  BY <1>2, <1>3, <1>4, ReplayedRows DEF TypeInv, TypeOK, RowsOK
<1> QED
  BY <1>5 DEF TypeInv, TypeOK, HandlersKnow

LEMMA ReplayUnique ==
  ASSUME LegacyOK, Replay
  PROVE  OneChatPerPair' /\ DirectsAreKeyed'
<1>1. ASSUME NEW c \in ConvIDs, kind'[c] = "direct"
      PROVE  pair'[c] # {} /\ \A d \in ConvIDs : pair'[c] = pair'[d] => c = d
  <2>1. PICK k \in Known : ConvOf(k) = c /\ pair'[c] = Pair(k)
    BY <1>1, ReplayedRows
  <2>2. Pair(k) # {}
    BY DEF Pair
  <2>3. ASSUME NEW d \in ConvIDs, pair'[d] = Pair(k) PROVE c = d
    <3>1. PICK j \in Known : ConvOf(j) = d /\ pair'[d] = Pair(j)
      BY <2>2, <2>3, ReplayedRows
    <3> QED  BY <2>1, <2>3, <3>1, ConvOfIs
  <2> QED  BY <2>1, <2>2, <2>3
<1> QED
  BY <1>1 DEF OneChatPerPair, DirectsAreKeyed

LEMMA ReplayFits ==
  ASSUME LegacyOK, Replay
  PROVE  RowsFit'
<1>1. \A c \in ConvIDs : was'[c] = pair'[c] /\ member'[c] = pair'[c]
  BY ReplayedRows
<1>2. ASSUME NEW c \in ConvIDs
      PROVE  /\ kind'[c] = "none" => pair'[c] = {}
             /\ kind'[c] = "direct" => pair'[c] # {}
             /\ kind'[c] # "group"
  BY <1>2, ReplayedRows DEF Pair
<1> QED
  BY <1>1, <1>2 DEF RowsFit

-----------------------------------------------------------------------------
(* The chats over the restarts: no handler is at work before the server    *)
(* serves, and there are no rows to speak of before the replay.            *)

ChatsTyped ==
  /\ TypeInv /\ LegacyOK
  /\ OneChatPerPair /\ DirectsAreKeyed
  /\ boot # "serving" => \A a \in Loops : At(a, "idle")

ChatsFit == Undisturbed => FitInv

(* The old messages are the first of their pair's conversation.            *)
Replayed ==
  \A k \in Known : /\ kind[ConvOf(k)] = "direct"
                   /\ pair[ConvOf(k)] = Pair(k)
                   /\ Pair(k) \subseteq member[ConvOf(k)]
                   /\ message[Rank(k)] = Copy(k)
LegacyReplayed == "conversation" \in schema => Replayed

LEMMA ChatsStart == StartupInit => ChatsTyped /\ ChatsFit /\ LegacyReplayed
<1> SUFFICES ASSUME StartupInit PROVE ChatsTyped /\ ChatsFit /\ LegacyReplayed
    OBVIOUS
<1>1. Init /\ boot = "user.role"
  BY PlaceInOrder DEF StartupInit, Parts
<1>2. LegacyOK
  <2>1. PICK n \in 0 .. MaxLegacy : legacy \in [1 .. n -> LegacyMessage]
    BY DEF StartupInit
  <2>2. n \in Nat /\ n <= MaxLegacy
    BY <2>1, StartupAssumption
  <2> QED  BY <2>1, <2>2 DEF LegacyOK
<1>3. OneChatPerPair /\ DirectsAreKeyed
  BY <1>1 DEF Init, OneChatPerPair, DirectsAreKeyed
<1>4. \A a \in Loops : At(a, "idle")
  BY <1>1 DEF Init, At, Idle
<1>5. ChatsTyped
  BY <1>1, <1>2, <1>3, <1>4, InitTyped DEF ChatsTyped
<1>6. ChatsFit
  BY <1>1, InitFits DEF ChatsFit
<1>7. LegacyReplayed
  BY DEF LegacyReplayed, Replayed, Known, StartupInit
<1> QED
  BY <1>5, <1>6, <1>7

(* What a step of the whole is to the chats. *)
ChatsChange ==
  \/ /\ [Next]_vars /\ schema \subseteq schema'
     /\ "conversation" \notin schema => UNCHANGED vars /\ "conversation" \notin schema'
     /\ boot # "serving" \/ boot' # "serving" => \A a \in Loops : At(a, "idle")'
  \/ /\ "conversation" \notin schema /\ "conversation" \in schema'
     /\ boot # "serving" /\ Replay
     /\ UNCHANGED loop

LEMMA ServingIsWhole == ASSUME StartupInv, boot = "serving" PROVE "conversation" \in schema
BY PlaceInOrder DEF StartupInv, SchemaSoFar

LEMMA ChatSteps ==
  ASSUME StartupInv, ChatsTyped, StartupNext
  PROVE  ChatsChange /\ legacy' = legacy
<1>1. CASE Serve
  <2>1. [Next]_vars /\ UNCHANGED bootVars /\ boot = "serving"
    BY <1>1 DEF Serve, Next
  <2> QED  BY <2>1, ServingIsWhole DEF ChatsChange, bootVars
<1>2. CASE Restart
  <2>1. [Next]_vars /\ UNCHANGED <<schema, legacy>> /\ boot' # "serving"
    BY <1>2, PlaceInOrder DEF Restart, Next, Parts
  <2>2. \A a \in Loops : At(a, "idle")'
    BY <1>2 DEF Restart, Crash, At, Idle, vars
  <2>3. "conversation" \notin schema => UNCHANGED vars
    BY <1>2, ServingIsWhole DEF Restart, Crash, ChatsTyped
  <2> QED  BY <2>1, <2>2, <2>3 DEF ChatsChange
<1>3. CASE Migrate
  <2>1. boot # "serving"
    BY <1>3, PartsAre DEF Migrate, AddPart, MigrateConversations, AddIndexes, AddNameIndex,
       DropNameIndex, RecreateNameIndex, LowerEmails
  <2>2. \A a \in Loops : At(a, "idle")
    BY <2>1 DEF ChatsTyped
  <2>3. CASE MigrateConversations
    <3>1. UNCHANGED <<legacy, loop>> /\ schema \subseteq schema'
      BY <2>3 DEF MigrateConversations
    <3>2. CASE "conversation" \in schema
      BY <2>2, <2>3, <3>1, <3>2 DEF MigrateConversations, ChatsChange, vars, At
    <3>3. CASE "conversation" \notin schema /\ SelfWritten
      BY <2>2, <2>3, <3>1, <3>3 DEF MigrateConversations, ChatsChange, vars, At
    <3>4. CASE "conversation" \notin schema /\ ~SelfWritten
      BY <2>1, <2>3, <3>1, <3>4 DEF MigrateConversations, ChatsChange
    <3> QED  BY <3>2, <3>3, <3>4
  <2>4. CASE ~MigrateConversations
    <3>1. UNCHANGED <<vars, legacy>> /\ schema \subseteq schema'
          /\ ("conversation" \notin schema => "conversation" \notin schema')
      BY <1>3, <2>4, PartsAre DEF Migrate, AddPart, AddIndexes, AddNameIndex,
         DropNameIndex, RecreateNameIndex, LowerEmails
    <3>2. \A a \in Loops : At(a, "idle")'
      BY <2>2, <3>1 DEF vars, At
    <3> QED  BY <3>1, <3>2 DEF ChatsChange
  <2> QED  BY <2>3, <2>4
<1> QED
  BY <1>1, <1>2, <1>3 DEF StartupNext

LEMMA ChatStepKeeps ==
  ASSUME StartupInv, ChatsTyped, ChatsFit, StartupNext
  PROVE  ChatsTyped' /\ ChatsFit'
<1>1. ChatsChange /\ legacy' = legacy
  BY ChatSteps
<1>2. LegacyOK'
  BY <1>1 DEF LegacyOK, ChatsTyped
<1>3. CASE /\ "conversation" \notin schema /\ "conversation" \in schema'
           /\ boot # "serving" /\ Replay
           /\ UNCHANGED loop
  <2>1. \A a \in Loops : At(a, "idle")'
    BY <1>3 DEF ChatsTyped, At
  <2>2. TypeInv' /\ OneChatPerPair' /\ DirectsAreKeyed' /\ RowsFit'
    BY <1>3, ReplayTyped, ReplayUnique, ReplayFits DEF ChatsTyped
  <2>3. \A a \in Loops : Fresh(loop[a])'
    BY <2>1 DEF Fresh, At
  <2> QED  BY <1>2, <1>3, <2>1, <2>2, <2>3 DEF ChatsTyped, ChatsFit, FitInv
<1>4. CASE /\ [Next]_vars /\ schema \subseteq schema'
           /\ "conversation" \notin schema => UNCHANGED vars /\ "conversation" \notin schema'
           /\ boot # "serving" \/ boot' # "serving" => \A a \in Loops : At(a, "idle")'
  <2>1. TypeInv' /\ OneChatPerPair' /\ DirectsAreKeyed'
    BY <1>4, NextTyped, NextUnique DEF ChatsTyped
  <2>2. ChatsFit'
    BY <1>4, NextFits DEF ChatsTyped, ChatsFit
  <2> QED  BY <1>2, <1>4, <2>1, <2>2 DEF ChatsTyped
<1> QED
  BY <1>1, <1>3, <1>4 DEF ChatsChange

(* A conversation that nobody is taken out of keeps what it has. *)
LEMMA OthersGrow ==
  ASSUME TypeInv, FitInv, [Next]_vars, \A a \in Loops : ~Part(a)
  PROVE  RowsGrow /\ \A m \in MessageIDs : message[m] # None => message'[m] = message[m]
<1>1. \A m \in MessageIDs : message[m] # None => message'[m] = message[m]
  <2>1. ASSUME NEW a \in Loops, NEW u \in Users, Start(a, u) PROVE message' = message
    BY <2>1 DEF Start, ChangeStart, SendStart, ReadStart, OpenInsert, CreateInsert, NewRow, rows
  <2>2. ASSUME NEW a \in Loops, Step(a), ~SendInsert(a) PROVE message' = message
    BY <2>2 DEF Step, CheckRequester, CheckTarget, Add, AddMember, Reread, ReadExists,
       MarkRead, Receivers, OpenLookup, Enrol, Opened, rows
  <2>3. ASSUME NEW a \in Loops, SendInsert(a), NEW m \in MessageIDs, message[m] # None
        PROVE  message'[m] = message[m]
    BY <2>3 DEF SendInsert, NextRow, MessageRows, TypeInv, TypeOK, RowsOK, rows
  <2> QED  BY <2>1, <2>2, <2>3 DEF Next, Work, Crash, vars, rows
<1>2. RowsGrow
  <2>1. ASSUME NEW c \in ConvIDs, NEW k, NEW users, NewRow(c, k, users) PROVE RowsGrow
    <3>1. kind[c] = "none" /\ member' = member
      BY <2>1 DEF NewRow, NextRow, ConvRows
    <3>2. \A d \in ConvIDs \ {c} : kind'[d] = kind[d] /\ pair'[d] = pair[d]
      BY <2>1 DEF NewRow, TypeInv, TypeOK, RowsOK
    <3> QED  BY <3>1, <3>2 DEF RowsGrow
  <2>2. CASE UNCHANGED <<kind, member, was>>
    <3>1. CASE UNCHANGED <<kind, pair>>
      BY <2>2, <3>1 DEF RowsGrow
    <3> QED  BY <2>1, <3>1, KeySteps DEF KeysChange
  <2>3. ASSUME NEW c \in ConvIDs, NEW u \in Users, AddMember(c, u) PROVE RowsGrow
    BY <2>3 DEF AddMember, RowsGrow, TypeInv, TypeOK, RowsOK
  <2> QED  BY <2>1, <2>2, <2>3, MemberSteps DEF MembersChange
<1> QED
  BY <1>1, <1>2

(* Nobody takes a direct conversation apart. *)
LEMMA DirectsGoOn ==
  ASSUME Undisturbed, TypeInv, FitInv, [Next]_vars, NEW c \in ConvIDs, kind[c] = "direct"
  PROVE  /\ kind'[c] = "direct" /\ pair'[c] = pair[c] /\ member[c] \subseteq member'[c]
         /\ \A m \in MessageIDs : message[m] # None /\ message[m].conv = c => message'[m] = message[m]
<1>1. CASE \E a \in Loops : Part(a)
  <2> PICK a \in Loops : Part(a)
      BY <1>1
  <2> PICK l : l = loop[a]
      OBVIOUS
  <2>1. l.pc = "part" /\ l.conv \in ConvIDs /\ kind[l.conv] = "group"
    BY DEF Part, At, TypeInv, HandlersKnow, Knows, OnConversation, FitInv, Fresh
  <2>2. c # l.conv
    BY <2>1
  <2>3. kind'[c] = kind[c] /\ pair'[c] = pair[c] /\ member'[c] = member[c]
    BY <2>2 DEF Part, TypeInv, TypeOK, RowsOK
  <2>4. ASSUME NEW m \in MessageIDs, message[m] # None, message[m].conv = c
        PROVE  message'[m] = message[m]
    BY <2>2, <2>4 DEF Part, InConv
  <2> QED  BY <2>3, <2>4
<1>2. CASE \A a \in Loops : ~Part(a)
  BY <1>2, OthersGrow DEF RowsGrow
<1> QED
  BY <1>1, <1>2

LEMMA SameLegacy ==
  ASSUME UNCHANGED legacy
  PROVE  /\ \A k : ConvOf(k)' = ConvOf(k) /\ Rank(k)' = Rank(k) /\ Pair(k)' = Pair(k)
         /\ Known' = Known
BY DEF Known, UpTo, Pair, Opener, ConvOf, Rank, RankIn, Below

LEMMA LegacyStepKeeps ==
  ASSUME Undisturbed, StartupInv, ChatsTyped, ChatsFit, LegacyReplayed, StartupNext
  PROVE  LegacyReplayed'
<1>1. ChatsChange /\ legacy' = legacy
  BY ChatSteps
<1>2. /\ \A k : ConvOf(k)' = ConvOf(k) /\ Rank(k)' = Rank(k) /\ Pair(k)' = Pair(k)
      /\ Known' = Known
  BY <1>1, SameLegacy
<1>3. \A k \in Known : ConvOf(k) \in ConvIDs /\ Rank(k) \in MessageIDs
  BY ConvOfIs, RankIs DEF ChatsTyped
<1>4. CASE Replay
  <2>1. \A k \in Known : /\ kind'[ConvOf(k)] = "direct"
                         /\ pair'[ConvOf(k)] = Pair(k)
                         /\ message'[Rank(k)] = Copy(k)
                         /\ member' = pair'
    BY <1>4, ReplayedRows DEF ChatsTyped
  <2> QED  BY <1>1, <1>2, <2>1 DEF LegacyReplayed, Replayed, Copy
<1>5. CASE ~Replay /\ [Next]_vars
  <2> SUFFICES ASSUME "conversation" \in schema', NEW k \in Known
               PROVE  /\ kind'[ConvOf(k)] = "direct"
                      /\ pair'[ConvOf(k)] = Pair(k)
                      /\ Pair(k) \subseteq member'[ConvOf(k)]
                      /\ message'[Rank(k)] = Copy(k)
      BY <1>1, <1>2 DEF LegacyReplayed, Replayed, Copy
  <2>1. "conversation" \in schema
    BY <1>1, <1>5 DEF ChatsChange
  <2> PICK c \in ConvIDs, m \in MessageIDs : c = ConvOf(k) /\ m = Rank(k)
      BY <1>3
  <2>2. /\ kind[c] = "direct" /\ pair[c] = Pair(k) /\ Pair(k) \subseteq member[c]
        /\ message[m] = [conv |-> c, from |-> legacy[k].from, stray |-> FALSE]
    BY <2>1 DEF LegacyReplayed, Replayed, Copy
  <2>3. message[m] # None /\ message[m].conv = c
    <3> PICK x : x = [conv |-> c, from |-> legacy[k].from, stray |-> FALSE]
        OBVIOUS
    <3>1. legacy[k].from \in Users
      BY KnownIs DEF ChatsTyped
    <3>2. x \in Message /\ x.conv = c
      BY <3>1 DEF Message
    <3>3. x # None
      BY <3>2, NoneIsNoMessage
    <3> QED  BY <2>2, <3>2, <3>3
  <2>4. FitInv
    BY DEF ChatsFit
  <2>5. /\ kind'[c] = "direct" /\ pair'[c] = pair[c] /\ member[c] \subseteq member'[c]
        /\ message'[m] = message[m]
    BY <1>5, <2>2, <2>3, <2>4, DirectsGoOn DEF ChatsTyped
  <2> QED  BY <2>2, <2>5 DEF Copy
<1> QED
  BY <1>1, <1>4, <1>5 DEF ChatsChange

LEMMA ChatsAlways == StartupSpec => [](ChatsTyped /\ ChatsFit)
<1> DEFINE Inv == StartupInv /\ ChatsTyped /\ ChatsFit
<1>1. StartupInv /\ ChatsTyped /\ ChatsFit /\ [StartupNext]_startupVars => (ChatsTyped /\ ChatsFit)'
  <2>1. ASSUME ChatsTyped, ChatsFit, UNCHANGED startupVars PROVE (ChatsTyped /\ ChatsFit)'
    <3>1. [Next]_vars /\ UNCHANGED <<vars, boot, schema, legacy>>
      BY <2>1 DEF startupVars, bootVars
    <3>2. TypeInv' /\ OneChatPerPair' /\ DirectsAreKeyed'
      BY <2>1, <3>1, NextTyped, NextUnique DEF ChatsTyped
    <3>3. ChatsFit'
      BY <2>1, <3>1, NextFits DEF ChatsTyped, ChatsFit
    <3> QED  BY <2>1, <3>1, <3>2, <3>3 DEF ChatsTyped, LegacyOK, vars, rows, At
  <2> QED  BY <2>1, ChatStepKeeps
<1>2. StartupInit => ChatsTyped /\ ChatsFit
  BY ChatsStart
<1> QED
  BY <1>1, <1>2, StartupInvariant, PTL DEF StartupSpec

LEMMA LegacyAlways == ASSUME Undisturbed PROVE StartupSpec => []LegacyReplayed
<1>1. StartupInv /\ ChatsTyped /\ ChatsFit /\ LegacyReplayed /\ [StartupNext]_startupVars
        => LegacyReplayed'
  <2>1. ASSUME LegacyReplayed, UNCHANGED startupVars PROVE LegacyReplayed'
    <3>1. UNCHANGED <<legacy, schema, kind, pair, member, message>>
      BY <2>1 DEF startupVars, bootVars, vars, rows
    <3> QED  BY <2>1, <3>1, SameLegacy DEF LegacyReplayed, Replayed, Copy
  <2> QED  BY <2>1, LegacyStepKeeps
<1>2. StartupInit => LegacyReplayed
  BY ChatsStart
<1> QED
  BY <1>1, <1>2, ChatsAlways, StartupInvariant, PTL DEF StartupSpec

(* Two users have at most one direct conversation (OneChatPerPair), also   *)
(* one that was made from their old messages, wherever the server stopped  *)
(* and whoever opens it at once when it serves.                            *)
THEOREM OneChatAcrossStarts == StartupSpec => []OneChatPerPair
<1>1. ChatsTyped => OneChatPerPair
  BY DEF ChatsTyped
<1> QED
  BY <1>1, ChatsAlways, PTL

(* conversations.go:46-48: whoever is about to be shown a direct           *)
(* conversation finds both its members recorded, also one whose rows the   *)
(* migration made.                                                         *)
THEOREM WholeAcrossStarts == ASSUME Undisturbed PROVE StartupSpec => []OpenedIsWhole
<1>1. ChatsTyped /\ ChatsFit => OpenedIsWhole
  BY WholeWhenOpened DEF ChatsTyped, ChatsFit
<1> QED
  BY <1>1, ChatsAlways, PTL

(* migrate_conversations.go:152-196: of any number of old messages, the    *)
(* n-th between two users is the n-th message of their conversation, which *)
(* has them both, after any number of stops, starts and events.            *)
THEOREM LegacyStays == ASSUME Undisturbed PROVE StartupSpec => []LegacyIsKept
<1>1. ChatsTyped /\ ChatsFit /\ LegacyReplayed => LegacyIsKept
  <2> SUFFICES ASSUME ChatsTyped, ChatsFit, LegacyReplayed, "conversation" \in schema, NEW k \in Known
               PROVE  \E m \in MessageIDs :
                        /\ message[m] # None
                        /\ message[m].from = legacy[k].from
                        /\ pair[message[m].conv] = Pair(k)
                        /\ member[message[m].conv] = Pair(k)
                        /\   Cardinality({i \in MessageIDs : i <= m /\ InConv(message[m].conv, i)})
                           = Cardinality({j \in UpTo(k) : Pair(j) = Pair(k)})
      BY DEF LegacyIsKept
  <2> PICK c \in ConvIDs, m \in MessageIDs : c = ConvOf(k) /\ m = Rank(k)
      BY ConvOfIs, RankIs DEF ChatsTyped
  <2>1. ASSUME NEW j \in Known
        PROVE  /\ Rank(j) \in MessageIDs
               /\ message[Rank(j)] # None
               /\ message[Rank(j)].conv = ConvOf(j)
               /\ message[Rank(j)].from = legacy[j].from
    <3>1. message[Rank(j)] = Copy(j)
      BY <2>1 DEF LegacyReplayed, Replayed
    <3>2. Copy(j) \in Message /\ Copy(j).conv = ConvOf(j) /\ Copy(j).from = legacy[j].from
      BY <2>1, KnownIs, ConvOfIs DEF Message, Copy, ChatsTyped
    <3> QED  BY <2>1, <3>1, <3>2, RankIs, NoneIsNoMessage DEF ChatsTyped
  <2>2. message[m] # None /\ message[m].from = legacy[k].from /\ message[m].conv = c
    BY <2>1
  <2>3. pair[c] = Pair(k) /\ member[c] = Pair(k)
    <3>1. kind[c] = "direct" /\ pair[c] = Pair(k) /\ Pair(k) \subseteq member[c]
      BY DEF LegacyReplayed, Replayed
    <3>2. RowsFit
      BY DEF ChatsFit, FitInv
    <3> QED  BY <3>1, <3>2 DEF RowsFit
  <2> DEFINE Old == {j \in UpTo(k) : Pair(j) = Pair(k)}
             New == {i \in MessageIDs : i <= m /\ InConv(c, i)}
             f   == [j \in Old |-> Rank(j)]
  <2>4. Old \in SUBSET Known /\ \A j \in Old : j <= k /\ Pair(j) = Pair(k)
    BY DEF UpTo
  <2>5. IsFiniteSet(Old)
    BY <2>4, KnownIs, FS_Subset DEF ChatsTyped
  <2>6. f \in [Old -> New]
    <3>1. ASSUME NEW j \in Old PROVE Rank(j) \in New
      <4>1. j \in Known /\ Rank(j) <= m /\ ConvOf(j) = c
        BY <2>4, RankIs, ConvOfIs DEF ChatsTyped
      <4>2. message[Rank(j)].conv = c
        BY <2>1, <4>1
      <4> QED  BY <2>1, <4>1, <4>2 DEF InConv
    <3> QED  BY <3>1
  <2>7. \A i, j \in Old : f[i] = f[j] => i = j
    BY <2>4, RankIs DEF ChatsTyped
  <2>8. ASSUME NEW i \in New PROVE \E j \in Old : f[j] = i
    <3>1. i \in Nat \ {0} /\ i <= m /\ message[i].conv = c
      BY ConversationsAssumption DEF InConv
    <3>2. m \in 1 .. Cardinality(Known) /\ Cardinality(Known) \in Nat
      BY RankIs, KnownIs DEF ChatsTyped
    <3>3. PICK j \in Known : Rank(j) = i
      BY <3>1, <3>2, RankIs DEF ChatsTyped
    <3>4. j <= k
      BY <3>1, <3>3, RankIs DEF ChatsTyped
    <3>5. ConvOf(j) = c
      BY <2>1, <3>1, <3>3
    <3>6. Pair(j) = Pair(k)
      BY <3>5, ConvOfIs DEF ChatsTyped
    <3> QED  BY <3>3, <3>4, <3>6 DEF UpTo
  <2> HIDE DEF Old, New, f
  <2>9. f \in Bijection(Old, New)
    BY <2>6, <2>7, <2>8 DEF Bijection, Injection, Surjection, IsInjective
  <2>10. Cardinality(New) = Cardinality(Old)
    BY <2>5, <2>9, FS_Bijection DEF ExistsBijection
  <2> QED  BY <2>2, <2>3, <2>10 DEF Old, New
<1> QED
  BY <1>1, ChatsAlways, LegacyAlways, PTL
=============================================================================
