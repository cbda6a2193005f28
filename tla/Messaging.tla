----------------------------- MODULE Messaging -----------------------------
(***************************************************************************)
(* One open conversation thread (apps/notifications): create_message calls *)
(* from HTTP and WebSocket, readers that follow the thread with ?after=,   *)
(* and mark_thread_read.                                                   *)
(*                                                                         *)
(* create_message looks for a message with the caller's client id before   *)
(* its transaction and without a lock.  The transaction locks the thread   *)
(* row, numbers and inserts the message, and holds the lock to its commit, *)
(* so that the insert is seen by others only after the commit.             *)
(*                                                                         *)
(* A definition marked "fault" is a variant of the one after it with a     *)
(* plausible mistake, to show that a property notices it.                  *)
(***************************************************************************)
EXTENDS Integers, Sequences, FiniteSetsExt

CONSTANTS
    Calls,      \* calls of create_message
    NoCall,     \* nobody holds the thread's row
    Users,      \* the participants
    ClientIds,  \* client_message_id values
    NoId,       \* no client_message_id
    PageSize,   \* messages on a page
    MaxMarks    \* bound on the mark-read requests of one behaviour

ASSUME MessagingAssumption ==
    /\ NoCall \notin Calls
    /\ NoId \notin ClientIds
    /\ PageSize \in Nat \ {0}
    /\ MaxMarks \in Nat

VARIABLES
    calls,     \* where each call is
    messages,  \* the Message row each call inserted
    log,       \* the calls whose message is committed, in commit order
    rowLock,   \* the call whose transaction holds the thread row
    clock,     \* the time stamps handed out so far
    lastRead,  \* ConversationParticipant.last_read_at, 0 before any
    cursor,    \* thread_sequence of the last message a client has fetched
    seen,      \* history: what a client has fetched
    existing,  \* history: what was inserted when a user last marked read
    marks      \* history: mark-read requests so far

tableVars == <<messages, log, rowLock>>
readerVars == <<cursor, seen>>
markVars == <<lastRead, existing, marks>>
vars == <<calls, tableVars, readerVars, markVars, clock>>

AllIds == ClientIds \cup {NoId}
Call == [state : {"idle", "ready", "inserted", "returned", "refused", "lost"},
         user : Users, id : AllIds, began : Nat]
NoMessage == [user |-> NoCall, id |-> NoId, number |-> 0, created |-> 0]
Message == [user : Users, id : AllIds, number : Nat, created : Nat]

Committed == {log[i] : i \in DOMAIN log}

(* Calls whose user and client id are those of the given message. *)
SameId(user, id) ==
    {c \in Committed : messages[c].user = user /\ messages[c].id = id}

Init ==
    /\ calls \in [Calls -> {[state |-> "idle", user |-> u, id |-> NoId,
                             began |-> 0] : u \in Users}]
    /\ messages = [c \in Calls |-> NoMessage]
    /\ log = <<>>
    /\ rowLock = NoCall
    /\ clock = 1
    /\ lastRead = [u \in Users |-> 0]
    /\ cursor = [u \in Users |-> 0]
    /\ seen = [u \in Users |-> {}]
    /\ existing = [u \in Users |-> {}]
    /\ marks = 0

-----------------------------------------------------------------------------
(* create_message up to the transaction: a message that already has the    *)
(* client id is returned.  began is a history field.                       *)
BeginCall(c, id) ==
    /\ calls[c].state = "idle"
    /\ calls' = [calls EXCEPT ![c].id = id, ![c].began = clock,
                    ![c].state = IF id # NoId
                                    /\ SameId(calls[c].user, id) # {}
                                 THEN "returned" ELSE "ready"]
    /\ UNCHANGED <<tableVars, readerVars, markVars, clock>>

NumberFromClock == clock                                          \* fault
LastNumber == Max({0} \cup {messages[c].number : c \in Committed})

StampOfRequest(c) == calls[c].began                               \* fault
Stamp(c) == clock

DuplicateNever(c) == FALSE                                        \* fault
Duplicate(c) ==
    calls[c].id # NoId /\ SameId(calls[c].user, calls[c].id) # {}

InsertWithoutLock(c) ==                                           \* fault
    /\ calls[c].state = "ready"
    /\ ~Duplicate(c)
    /\ messages' = [messages EXCEPT ![c] =
          [user |-> calls[c].user, id |-> calls[c].id,
           number |-> LastNumber + 1, created |-> Stamp(c)]]
    /\ calls' = [calls EXCEPT ![c].state = "inserted"]
    /\ clock' = clock + 1
    /\ UNCHANGED <<log, rowLock, readerVars, markVars>>

(* The transaction takes the thread's row, gives the message the number    *)
(* after the last and the time of the insert.                              *)
Insert(c) ==
    /\ calls[c].state = "ready"
    /\ rowLock = NoCall
    /\ ~Duplicate(c)
    /\ rowLock' = c
    /\ messages' = [messages EXCEPT ![c] =
          [user |-> calls[c].user, id |-> calls[c].id,
           number |-> LastNumber + 1, created |-> Stamp(c)]]
    /\ calls' = [calls EXCEPT ![c].state = "inserted"]
    /\ clock' = clock + 1
    /\ UNCHANGED <<log, readerVars, markVars>>

(* A message with the same client id was committed since the lookup: the   *)
(* insert breaks unique_message_client_id_per_sender_thread, and the       *)
(* IntegrityError leaves create_message.                                   *)
Refuse(c) ==
    /\ calls[c].state = "ready"
    /\ rowLock = NoCall
    /\ Duplicate(c)
    /\ calls' = [calls EXCEPT ![c].state = "refused"]
    /\ UNCHANGED <<tableVars, readerVars, markVars, clock>>

(* The commit makes the message, its notifications and its outbox rows     *)
(* visible and frees the thread's row.                                     *)
Commit(c) ==
    /\ calls[c].state = "inserted"
    /\ log' = Append(log, c)
    /\ rowLock' = NoCall
    /\ calls' = [calls EXCEPT ![c].state = "returned"]
    /\ UNCHANGED <<messages, readerVars, markVars, clock>>

(* The server process dies in the transaction, or creating a notification  *)
(* raises: everything is rolled back.                                      *)
Rollback(c) ==
    /\ calls[c].state = "inserted"
    /\ messages' = [messages EXCEPT ![c] = NoMessage]
    /\ rowLock' = NoCall
    /\ calls' = [calls EXCEPT ![c].state = "lost"]
    /\ UNCHANGED <<log, readerVars, markVars, clock>>

(* The messages after the cursor by thread_sequence. *)
After(u) == {c \in Committed : messages[c].number > cursor[u]}

FirstPageOf(page, rest) ==
    /\ Cardinality(page) <= PageSize
    /\ page # rest => Cardinality(page) = PageSize
    /\ \A c \in page, d \in rest \ page :
          messages[c].number < messages[d].number

(* GET messages/?after=: the first page after the last message fetched.    *)
(* The client goes on from the last message of the page.                   *)
FetchAfter(u) ==
    /\ \E page \in SUBSET After(u), last \in After(u) :
          /\ last \in page
          /\ \A c \in page : messages[c].number <= messages[last].number
          /\ FirstPageOf(page, After(u))
          /\ seen' = [seen EXCEPT ![u] = seen[u] \cup page]
          /\ cursor' = [cursor EXCEPT ![u] = messages[last].number]
    /\ UNCHANGED <<calls, tableVars, markVars, clock>>

(* mark_thread_read *)
MarkRead(u) ==
    /\ marks < MaxMarks
    /\ marks' = marks + 1
    /\ lastRead' = [lastRead EXCEPT ![u] = clock]
    /\ clock' = clock + 1
    /\ existing' = [existing EXCEPT
                       ![u] = {c \in Calls : messages[c] # NoMessage}]
    /\ UNCHANGED <<calls, tableVars, readerVars>>

Send ==
    \E c \in Calls :
        \/ \E id \in AllIds : BeginCall(c, id)
        \/ Insert(c)
        \/ Refuse(c)
        \/ Commit(c)
        \/ Rollback(c)

Next == Send \/ \E u \in Users : FetchAfter(u) \/ MarkRead(u)

Spec == Init /\ [][Next]_vars
-----------------------------------------------------------------------------
(* Properties *)

(* What the columns and the calls in progress can hold.                    *)
TypeOK ==
    /\ calls \in [Calls -> Call]
    /\ messages \in [Calls -> Message \cup {NoMessage}]
    /\ log \in Seq(Calls)
    /\ rowLock \in Calls \cup {NoCall}
    /\ clock \in Nat
    /\ lastRead \in [Users -> Nat]
    /\ cursor \in [Users -> 0..Len(log)]
    /\ seen \in [Users -> SUBSET Calls]
    /\ existing \in [Users -> SUBSET Calls]
    /\ marks \in Nat

(* thread_sequence counts the messages in the order they become visible,   *)
(* without gaps: a rolled back insert gives its number back.               *)
NumberedInCommitOrder ==
    \A i \in DOMAIN log : messages[log[i]].number = i

(* A client that follows a thread with ?after= misses nothing: everything  *)
(* up to its cursor has been fetched.  It would be wrong if a message      *)
(* could become visible behind a message with a higher number              *)
(* (docs/RealityNG-Realtime-Messaging-Protocol.md, Reconnect Sync).        *)
FollowerMissesNothing ==
    \A u \in Users : \A c \in Committed :
        messages[c].number <= cursor[u] => c \in seen[u]

(* The history is ordered by thread_sequence and the preview of a thread   *)
(* by created_at: the two orders agree.                                    *)
OrdersAgree ==
    \A c, d \in Committed :
        messages[c].number < messages[d].number =>
            messages[c].created < messages[d].created

(* However often and however concurrently a client id is sent, it names    *)
(* one message of its sender.                                              *)
OneMessagePerClientId ==
    \A c, d \in Committed :
        /\ messages[c].user = messages[d].user
        /\ messages[c].id = messages[d].id
        /\ messages[c].id # NoId
        => c = d

(* mark_thread_read hides a message (created_at is not after last_read_at) *)
(* only when it was inserted at that moment, not one whose sender still    *)
(* waited for the thread's row.                                            *)
HidesOnlyExisting ==
    \A u \in Users : \A c \in Committed :
        messages[c].created <= lastRead[u] => c \in existing[u]

(* The history, the previews, the client ids and the readers of a thread   *)
(* agree: the five together.                                               *)
MessagesAgree ==
    /\ NumberedInCommitOrder
    /\ OrdersAgree
    /\ OneMessagePerClientId
    /\ FollowerMissesNothing
    /\ HidesOnlyExisting

Log == INSTANCE ThreadLog WITH Entries <- Calls, Readers <- Users,
                               position <- cursor

(* Seen by its clients, a thread is a log with forward readers: messages   *)
(* appear at the end only, once each, and ?after= moves a client to a      *)
(* later place in what is visible.                                         *)
ThreadIsALog == Log!Spec
=============================================================================
