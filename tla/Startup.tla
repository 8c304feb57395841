------------------------------- MODULE Startup -------------------------------
(***************************************************************************)
(* The server over its restarts: OpenDB brings the database, whatever an   *)
(* earlier version left in it, to the schema of today step by step, and    *)
(* only then do the handlers of Conversations and Directory run.  The      *)
(* server can stop at any step of either; what was committed stays, and    *)
(* the next start begins again at the first step.  A step that fails ends  *)
(* the process, and would do so on every start after it.                   *)
(*                                                                         *)
(* The chats and the directory share no row, so a behaviour follows one of *)
(* them (subject) and leaves the other's rows as they were.                *)
(***************************************************************************)
EXTENDS Conversations, Sequences

CONSTANTS Words, Categories, Accounts, Handlers, Requests,
          Subjects,   \* bound: "chats", "directory"
          Active,     \* bound: the users who chat once the server is up
          MaxLegacy   \* bound: messages in a database of the old shape

ASSUME StartupAssumption ==
  /\ Categories \subseteq Nat \ {0}
  /\ Accounts \subseteq Nat \ {0}
  /\ Subjects \subseteq {"chats", "directory"}
  /\ Active \subseteq Users
  /\ MaxLegacy \in Nat
  /\ 1 .. MaxLegacy \subseteq ConvIDs \cap MessageIDs  \* ids for the replay

VARIABLES boot,     \* the step of migrate() that is next, or "serving"
          schema,   \* the columns, tables and indexes there are
          legacy,   \* the rows of the old message table, kept in message_legacy
          subject,  \* bound: what the handlers work on
          alike,    \* history: whether names, and addresses, were alike at first
          category, email, index, request

Dir == INSTANCE Directory

bootVars == <<boot, schema, legacy>>
dirVars == <<category, email, index, request>>
startupVars == <<vars, bootVars, subject, alike, dirVars>>

-----------------------------------------------------------------------------
(* The steps of migrate(), in their order.  The first nine add something,  *)
(* and look whether it is there, in SQL or before it.                      *)
BootOrder == <<"user.role", "user.banned", "post.img_url", "user_post_reaction",
               "conversation", "notification", "bookmark", "message_read", "indexes",
               "unique", "nocase", "recreate", "emails", "serving">>
Parts == [k \in 1 .. 9 |-> BootOrder[k]]
Whole == {Parts[k] : k \in DOMAIN Parts}

After(step) == BootOrder[1 + CHOOSE k \in DOMAIN BootOrder : BootOrder[k] = step]
Boots == {BootOrder[k] : k \in DOMAIN BootOrder} \cup {"failed"}

(* The tables that CREATE INDEX names, of those migrate() creates. *)
Indexed == {"user_post_reaction", "conversation", "notification", "bookmark"}

(* A user nobody is by now is None. *)
LegacyMessage == [from: Users \cup {None}, to: Users \cup {None}]

StartupTyped ==
  /\ boot \in Boots
  /\ schema \subseteq Whole
  /\ legacy \in Seq(LegacyMessage)
  /\ subject \in Subjects
  /\ Dir!DirectoryTyped

(* A database that an earlier version of migrate() left: it has the parts  *)
(* up to one, and the name index only if it has them all.                  *)
StartupInit ==
  /\ Init
  /\ subject \in Subjects
  /\ boot = Parts[1]
  /\ \E n \in 0 .. Len(Parts) : schema = {Parts[k] : k \in 1 .. n}
  /\ \E n \in 0 .. MaxLegacy : legacy \in [1 .. n -> LegacyMessage]
  /\ legacy # <<>> => "conversation" \notin schema /\ subject = "chats"
  /\ category \in [Categories -> Dir!Spelling \cup {None}]
  /\ email \in [Accounts -> Dir!Spelling \cup {None}]
  /\ subject = "chats" => \A i \in Categories, j \in Accounts : {category[i], email[j]} = {None}
  /\ ~Dir!Repeated(email)
  /\ index \in Dir!Indexes
  /\ index # "none" => schema = Whole /\ ~Dir!Repeated(category)
  /\ index = "nocase" => ~Dir!Alike(category)
  /\ alike = [category |-> Dir!Alike(category), email |-> Dir!Alike(email)]
  /\ request = [h \in Handlers |-> Dir!Idle]

-----------------------------------------------------------------------------
(* migrateConversationModel. *)

(* The old messages whose sender and receiver both still exist. *)
Known == {k \in DOMAIN legacy : None \notin {legacy[k].from, legacy[k].to}}
Pair(k) == {legacy[k].from, legacy[k].to}
UpTo(k) == {j \in Known : j <= k}

(* The first old message between the pair of k: it makes the conversation. *)
Opener(k) == CHOOSE j \in Known : Pair(j) = Pair(k) /\ \A i \in UpTo(j) : Pair(i) = Pair(j) => i = j
ConvOf(k) == Cardinality({j \in UpTo(Opener(k)) : Opener(j) = j})
Replays(k, m, c) == k \in Known /\ m = Cardinality(UpTo(k)) /\ c = ConvOf(k)

(* A message to oneself: its conversation would have the same member twice *)
(* (migrate_conversations.go:208-215), which the UNIQUE refuses.           *)
SelfWritten == \E k \in Known : legacy[k].from = legacy[k].to

(* The replay of the old messages into the tables of the new shape. *)
Replay ==
  /\ kind' = [c \in ConvIDs |-> IF \E k \in Known : ConvOf(k) = c THEN "direct" ELSE "none"]
  /\ pair' = [c \in ConvIDs |-> UNION {Pair(k) : k \in {j \in Known : ConvOf(j) = c}}]
  /\ member' = pair'
  /\ was' = pair'
  /\ message' = [m \in MessageIDs |->
                   IF m <= Cardinality(Known)
                   THEN LET k == CHOOSE k \in Known : Cardinality(UpTo(k)) = m
                        IN  [conv |-> ConvOf(k), from |-> legacy[k].from, stray |-> FALSE]
                   ELSE None]
  /\ UNCHANGED <<mark, strays>>

-----------------------------------------------------------------------------
(* Faulty variants of the actions below, each with a plausible bug. *)

(* The tables are renamed and made, and then, in a transaction of its own, *)
(* filled.                                                                 *)
MigrateConversationsInTwo ==
  /\ boot = "conversation"
  /\ \/ /\ "conversation" \in schema
        /\ boot' = After(boot)
        /\ UNCHANGED rows
     \/ /\ "conversation" \notin schema /\ ~SelfWritten
        /\ Replay
        /\ boot' = After(boot)
     \/ /\ "conversation" \notin schema
        /\ boot' = IF SelfWritten THEN "failed" ELSE Parts[1]
        /\ UNCHANGED rows
  /\ schema' = schema \cup {"conversation"}
  /\ UNCHANGED <<legacy, loop, dirVars>>

(* The index is made whatever the names are. *)
AddNameIndexUnchecked ==
  /\ boot = "unique"
  /\ IF index = "none" /\ Dir!Repeated(category)
     THEN boot' = "failed" /\ UNCHANGED index
     ELSE boot' = After(boot) /\ index' = IF index = "none" THEN "exact" ELSE index
  /\ UNCHANGED <<vars, schema, legacy, category, email, request>>

(* The dropped index is not made again. *)
DropNameIndexForGood ==
  /\ boot = "nocase"
  /\ index' = IF index = "nocase" \/ Dir!Alike(category) THEN index ELSE "none"
  /\ boot' = "emails"
  /\ UNCHANGED <<vars, schema, legacy, category, email, request>>

-----------------------------------------------------------------------------
(* ALTER TABLE ... ADD COLUMN after columnExists, and CREATE TABLE IF NOT  *)
(* EXISTS.                                                                 *)
AddPart ==
  /\ boot \in Whole \ {"conversation", "indexes"}
  /\ schema' = schema \cup {boot}
  /\ boot' = After(boot)
  /\ UNCHANGED <<vars, legacy, dirVars>>

(* One transaction, rolled back as a whole when a statement of it fails;   *)
(* nothing to do without the old message.from_user.                        *)
MigrateConversations ==
  /\ boot = "conversation"
  /\ \/ /\ "conversation" \in schema
        /\ boot' = After(boot)
        /\ UNCHANGED <<rows, schema>>
     \/ /\ "conversation" \notin schema /\ ~SelfWritten
        /\ Replay
        /\ schema' = schema \cup {"conversation"}
        /\ boot' = After(boot)
     \/ /\ "conversation" \notin schema /\ SelfWritten
        /\ boot' = "failed"
        /\ UNCHANGED <<rows, schema>>
  /\ UNCHANGED <<legacy, loop, dirVars>>

(* CREATE INDEX IF NOT EXISTS, thirteen times. *)
AddIndexes ==
  /\ boot = "indexes"
  /\ IF Indexed \subseteq schema
     THEN schema' = schema \cup {"indexes"} /\ boot' = After(boot)
     ELSE boot' = "failed" /\ UNCHANGED schema
  /\ UNCHANGED <<vars, legacy, dirVars>>

(* addCategoryNameUniqueIndex *)
AddNameIndex ==
  /\ boot = "unique"
  /\ index' = IF index = "none" /\ ~Dir!Repeated(category) THEN "exact" ELSE index
  /\ boot' = After(boot)
  /\ UNCHANGED <<vars, schema, legacy, category, email, request>>

(* makeCategoryNameUniqueIndexCaseInsensitive: its checks and its DROP, *)
DropNameIndex ==
  /\ boot = "nocase"
  /\ IF index = "nocase" \/ Dir!Alike(category)
     THEN boot' = "emails" /\ UNCHANGED index
     ELSE boot' = "recreate" /\ index' = "none"
  /\ UNCHANGED <<vars, schema, legacy, category, email, request>>

(* and its CREATE UNIQUE INDEX. *)
RecreateNameIndex ==
  /\ boot = "recreate"
  /\ IF Dir!Alike(category)
     THEN boot' = "failed" /\ UNCHANGED index
     ELSE boot' = After(boot) /\ index' = "nocase"
  /\ UNCHANGED <<vars, schema, legacy, category, email, request>>

(* normalizeExistingEmailsToLowercase *)
LowerEmails ==
  /\ boot = "emails"
  /\ email' = IF Dir!Alike(email) THEN email
              ELSE [i \in Accounts |-> IF email[i] = None THEN None ELSE Dir!Lower(email[i])]
  /\ boot' = After(boot)
  /\ UNCHANGED <<vars, schema, legacy, category, index, request>>

Migrate ==
  \/ AddPart
  \/ MigrateConversations
  \/ AddIndexes
  \/ AddNameIndex
  \/ DropNameIndex
  \/ RecreateNameIndex
  \/ LowerEmails

Serve ==
  /\ boot = "serving"
  /\ \/ /\ subject = "chats"
        /\ Work
        /\ \A a \in Loops : {loop'[a].by, loop'[a].target} \subseteq Active \cup {None}
        /\ UNCHANGED dirVars
     \/ /\ subject = "directory"
        /\ Dir!Handle
        /\ UNCHANGED vars
  /\ UNCHANGED bootVars

(* The server stops, and is started again. *)
Restart ==
  /\ "crash" \in Ops
  /\ boot # Parts[1]
  /\ boot' = Parts[1]
  /\ Crash \/ ((\A a \in Loops : At(a, "idle")) /\ UNCHANGED vars)
  /\ request' = [h \in Handlers |-> Dir!Idle]
  /\ UNCHANGED <<schema, legacy, category, email, index>>

StartupNext == (Migrate \/ Serve \/ Restart) /\ UNCHANGED <<subject, alike>>

StartupSpec == StartupInit /\ [][StartupNext]_startupVars
-----------------------------------------------------------------------------
(* Safety.                                                                 *)

(* sqlFuncs.go:244-251: a step of migrate() that fails would "take the     *)
(* whole server down on every future start".  None does but the migration  *)
(* of an old message of a user to themselves, not done yet, wherever an    *)
(* earlier start stopped and whatever the handlers wrote in between.       *)
OnlySelfMessagesFail == boot = "failed" => "conversation" \notin schema /\ SelfWritten

(* migrate_conversations.go:152-196: the n-th old message between two      *)
(* users is the n-th message of their conversation, whenever the server    *)
(* stopped and whatever they have written since.                           *)
LegacyIsKept ==
  "conversation" \in schema =>
    \A k \in Known :
      \E m \in MessageIDs :
        /\ message[m] # None
        /\ message[m].from = legacy[k].from
        /\ pair[message[m].conv] = Pair(k)
        /\ member[message[m].conv] = Pair(k)
        /\   Cardinality({i \in MessageIDs : i <= m /\ InConv(message[m].conv, i)})
           = Cardinality({j \in UpTo(k) : Pair(j) = Pair(k)})

(* sqlFuncs.go:240-243, 289-295, 352-361: categories whose names differ by *)
(* more than case in the first database, and users whose addresses do, go  *)
(* on doing so: through the change of the index, and through handlers that *)
(* looked for the same name at once.                                       *)
NamesStayDistinct ==
  /\ Dir!Alike(category) => alike.category
  /\ Dir!Alike(email) => alike.email

-----------------------------------------------------------------------------
(* What a step may never do.                                               *)

(* The server starts to serve only on the whole schema, with the strongest *)
(* index on the names that they allow, and with addresses in lower case    *)
(* unless that would make two the same.                                    *)
ServesWhole ==
  /\ schema = Whole
  /\ Dir!Repeated(category) => index = "none"
  /\ Dir!Alike(category) => index # "nocase"
  /\ ~Dir!Repeated(category) => index # "none"
  /\ ~Dir!Alike(category) => index = "nocase"
  /\ Dir!Alike(email) \/ \A i \in Accounts : email[i] # None => email[i].lower
StartsWhole == [][boot # "serving" /\ boot' = "serving" => ServesWhole']_startupVars
=============================================================================
