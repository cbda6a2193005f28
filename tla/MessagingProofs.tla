-------------------------- MODULE MessagingProofs --------------------------
(***************************************************************************)
(* A thread is a log, for any calls, users, client ids and page size.      *)
(*                                                                         *)
(* The lock makes the numbers right: while a message is inserted and not   *)
(* committed, its call holds the row, no other call can commit, and its    *)
(* number stays one more than the length of the log.  Readers then see     *)
(* the log grow at its end, and a page taken by number is the next stretch *)
(* of it.                                                                  *)
(***************************************************************************)
EXTENDS MCMessaging, Sums, NaturalsInduction, FiniteSetTheorems, SequenceTheorems, TLAPS

USE MessagingAssumption

(* The call with an uncommitted message is the one that holds the row, and *)
(* the row is held for nothing else.                                       *)
LockInv ==
    \A c \in Calls : calls[c].state = "inserted" <=> rowLock = c

(* An uncommitted message is the next of the log and has a client id that  *)
(* no visible message of its sender has.                                   *)
NextInv ==
    \A c \in Calls : calls[c].state = "inserted" =>
        /\ messages[c] \in Message
        /\ messages[c].number = Len(log) + 1
        /\ messages[c].id # NoId => SameId(messages[c].user, messages[c].id) = {}

(* Only calls that returned are in the log, and with their messages. *)
LogInv ==
    \A i \in DOMAIN log :
        /\ calls[log[i]].state = "returned"
        /\ messages[log[i]] \in Message

IInv ==
    /\ TypeOK
    /\ LockInv
    /\ NextInv
    /\ LogInv
    /\ NumberedInCommitOrder
    /\ OneMessagePerClientId
    /\ FollowerMissesNothing

-----------------------------------------------------------------------------
(* The largest number given out is the length of the log. *)
LEMMA LastNumberIsLength ==
    ASSUME TypeOK, LogInv, NumberedInCommitOrder
    PROVE  LastNumber = Len(log)
<1> DEFINE S == {0} \cup {messages[c].number : c \in Committed}
<1>1. Len(log) \in Nat /\ DOMAIN log = 1..Len(log)
  BY DEF TypeOK
<1>2. Len(log) \in S
  <2>1. CASE Len(log) = 0
    BY <2>1
  <2>2. CASE Len(log) # 0
    <3>1. Len(log) \in DOMAIN log
      BY <1>1, <2>2
    <3>2. log[Len(log)] \in Committed
      BY <3>1 DEF Committed
    <3>3. messages[log[Len(log)]].number = Len(log)
      BY <3>1 DEF NumberedInCommitOrder
    <3> QED BY <3>2, <3>3
  <2> QED BY <2>1, <2>2
<1>3. \A n \in S : n \in Nat /\ n <= Len(log)
  <2>1. \A c \in Committed : messages[c].number \in 1..Len(log)
    BY <1>1 DEF Committed, NumberedInCommitOrder
  <2> QED BY <1>1, <2>1
<1> HIDE DEF S
<1>4. Max(S) = Len(log)
  <2>1. \E x \in S : \A y \in S : x >= y
    BY <1>1, <1>2, <1>3
  <2>2. Max(S) \in S /\ \A y \in S : Max(S) >= y
    BY <2>1 DEF Max
  <2> QED BY <1>1, <1>2, <1>3, <2>2
<1> QED BY <1>4 DEF S, LastNumber

(* The steps that leave the messages and the log alone. *)
LEMMA QuietStep ==
    ASSUME IInv, TypeOK', UNCHANGED <<messages, log, rowLock, cursor, seen>>,
           \A c \in Calls :
               /\ calls'[c].state = "inserted" <=> calls[c].state = "inserted"
               /\ calls[c].state = "returned" => calls'[c].state = "returned"
    PROVE  IInv'
<1>1. LogInv'
  BY DEF IInv, LogInv, TypeOK
<1> QED
  BY <1>1 DEF IInv, LockInv, NextInv, SameId, Committed,
              NumberedInCommitOrder, OneMessagePerClientId,
              FollowerMissesNothing

LEMMA InvInit == Init => IInv
<1> SUFFICES ASSUME Init PROVE IInv
  OBVIOUS
<1>1. log = <<>> /\ Len(log) = 0 /\ DOMAIN log = {} /\ log \in Seq(Calls)
  BY DEF Init
<1>2. TypeOK
  BY <1>1 DEF Init, TypeOK, Call, AllIds
<1>3. \A c \in Calls : calls[c].state = "idle" /\ rowLock # c
  BY DEF Init
<1> QED
  BY <1>1, <1>2, <1>3
  DEF IInv, LockInv, NextInv, LogInv, NumberedInCommitOrder,
      OneMessagePerClientId, FollowerMissesNothing, Committed

States == {"idle", "ready", "inserted", "returned", "refused", "lost"}

(* A call that only changes its state stays a call. *)
LEMMA CallMoves ==
    ASSUME calls \in [Calls -> Call], NEW c \in Calls, NEW s \in States,
           calls' = [calls EXCEPT ![c].state = s]
    PROVE  /\ calls' \in [Calls -> Call]
           /\ calls'[c].state = s
           /\ \A d \in Calls : d # c => calls'[d] = calls[d]
<1>1. calls[c] \in Call
  OBVIOUS
<1>2. [calls[c] EXCEPT !.state = s] \in Call /\ [calls[c] EXCEPT !.state = s].state = s
  BY <1>1 DEF Call, States
<1>3. calls' = [calls EXCEPT ![c] = [calls[c] EXCEPT !.state = s]]
  OBVIOUS
<1> QED BY <1>2, <1>3

LEMMA BeginStep ==
    ASSUME IInv, NEW c \in Calls, NEW id \in AllIds, BeginCall(c, id)
    PROVE  IInv'
<1>1. TypeOK /\ TypeOK'
  <2>1. TypeOK /\ calls[c] \in Call /\ clock \in Nat
    BY DEF IInv, TypeOK
  <2>2. PICK s \in {"returned", "ready"} :
           calls' = [calls EXCEPT ![c].id = id, ![c].began = clock, ![c].state = s]
    BY DEF BeginCall
  <2>3. calls' = [calls EXCEPT ![c] =
                     [calls[c] EXCEPT !.id = id, !.began = clock, !.state = s]]
    BY <2>2
  <2>4. [calls[c] EXCEPT !.id = id, !.began = clock, !.state = s] \in Call
    BY <2>1 DEF Call
  <2>5. calls' \in [Calls -> Call]
    BY <2>1, <2>3, <2>4 DEF TypeOK
  <2> QED
    BY <2>1, <2>5 DEF BeginCall, TypeOK, tableVars, readerVars, markVars
<1> QED
  BY <1>1, QuietStep DEF BeginCall, TypeOK, Call, tableVars, readerVars

LEMMA RefuseStep == ASSUME IInv, NEW c \in Calls, Refuse(c) PROVE IInv'
<1>1. TypeOK /\ TypeOK'
  <2>1. TypeOK
    BY DEF IInv
  <2>2. calls' \in [Calls -> Call]
    BY <2>1, CallMoves DEF Refuse, TypeOK, States
  <2> QED BY <2>1, <2>2 DEF Refuse, TypeOK, tableVars, readerVars, markVars
<1>2. /\ calls[c].state = "ready" /\ calls'[c].state = "refused"
      /\ \A d \in Calls : d # c => calls'[d] = calls[d]
  BY <1>1, CallMoves DEF Refuse, TypeOK, States
<1>3. \A d \in Calls :
         /\ calls'[d].state = "inserted" <=> calls[d].state = "inserted"
         /\ calls[d].state = "returned" => calls'[d].state = "returned"
  BY <1>2
<1>4. UNCHANGED <<messages, log, rowLock, cursor, seen>>
  BY DEF Refuse, tableVars, readerVars
<1> QED
  BY <1>1, <1>3, <1>4, QuietStep

LEMMA MarkStep == ASSUME IInv, NEW u \in Users, MarkRead(u) PROVE IInv'
<1>1. TypeOK /\ TypeOK'
  BY DEF MarkRead, IInv, TypeOK, tableVars, readerVars
<1> QED
  BY <1>1, QuietStep DEF MarkRead, tableVars, readerVars

(* Whoever is in the log has no uncommitted message. *)
LEMMA InsertedIsNotCommitted ==
    ASSUME LogInv, NEW c \in Calls, calls[c].state # "returned"
    PROVE  c \notin Committed
BY DEF LogInv, Committed

LEMMA InsertStep == ASSUME IInv, NEW c \in Calls, Insert(c) PROVE IInv'
<1>1. TypeOK /\ LastNumber = Len(log) /\ Len(log) \in Nat
  BY LastNumberIsLength DEF IInv, TypeOK
<1>2. /\ calls[c] \in Call /\ clock \in Nat
      /\ calls' = [calls EXCEPT ![c].state = "inserted"]
      /\ messages' = [messages EXCEPT ![c] =
            [user |-> calls[c].user, id |-> calls[c].id,
             number |-> Len(log) + 1, created |-> clock]]
      /\ rowLock = NoCall /\ rowLock' = c /\ clock' = clock + 1
      /\ UNCHANGED <<log, cursor, seen, lastRead, existing, marks>>
  BY <1>1 DEF Insert, Stamp, TypeOK, readerVars, markVars
<1>3. TypeOK'
  <2>1. calls' \in [Calls -> Call]
    BY <1>1, <1>2, CallMoves DEF TypeOK, States
  <2>2. messages' \in [Calls -> Message \cup {NoMessage}]
    <3>1. [user |-> calls[c].user, id |-> calls[c].id,
           number |-> Len(log) + 1, created |-> clock] \in Message
      BY <1>1, <1>2 DEF Call, Message
    <3> QED BY <1>1, <1>2, <3>1 DEF TypeOK
  <2> QED BY <1>1, <1>2, <2>1, <2>2 DEF TypeOK
<1>4. /\ c \notin Committed /\ Committed' = Committed
      /\ \A d \in Committed : messages'[d] = messages[d]
      /\ \A d \in Calls : calls[d].state # "inserted"
  <2>1. c \notin Committed
    BY InsertedIsNotCommitted DEF IInv, Insert
  <2> QED
    BY <2>1, <1>1, <1>2 DEF Committed, TypeOK, IInv, LockInv
<1>5. LockInv'
  BY <1>1, <1>2, <1>4 DEF LockInv, TypeOK, Call
<1>6. NextInv'
  <2>1. messages'[c] \in Message /\ messages'[c].number = Len(log') + 1
    BY <1>1, <1>2 DEF TypeOK, Call, Message
  <2>2. messages'[c].id # NoId =>
           {d \in Committed : /\ messages[d].user = messages'[c].user
                              /\ messages[d].id = messages'[c].id} = {}
    BY <1>1, <1>2 DEF Insert, Duplicate, SameId, TypeOK
  <2>3. messages'[c].id # NoId =>
           SameId(messages[c].user, messages[c].id)' = {}
    BY <1>4, <2>2 DEF SameId
  <2>4. \A d \in Calls : calls'[d].state = "inserted" => d = c
    BY <1>1, <1>2, <1>4 DEF TypeOK
  <2> QED BY <2>1, <2>3, <2>4 DEF NextInv
<1>7. LogInv'
  <2> SUFFICES ASSUME NEW i \in DOMAIN log
               PROVE  /\ calls'[log[i]].state = "returned"
                      /\ messages'[log[i]] \in Message
    BY <1>2 DEF LogInv
  <2>1. log[i] \in Committed /\ log[i] \in Calls /\ log[i] # c
    BY <1>1, <1>4 DEF Committed, TypeOK
  <2> QED BY <1>1, <1>2, <1>4, <2>1 DEF IInv, LogInv, TypeOK
<1>8. NumberedInCommitOrder' /\ OneMessagePerClientId' /\ FollowerMissesNothing'
  <2>1. \A i \in DOMAIN log : log[i] \in Committed
    BY DEF Committed
  <2> QED
    BY <1>2, <1>4, <2>1
    DEF IInv, NumberedInCommitOrder, OneMessagePerClientId,
        FollowerMissesNothing
<1> QED BY <1>3, <1>5, <1>6, <1>7, <1>8 DEF IInv

(* What a commit or a rollback starts from. *)
LEMMA Holder ==
    ASSUME IInv, NEW c \in Calls, calls[c].state = "inserted"
    PROVE  /\ rowLock = c /\ c \notin Committed
           /\ messages[c] \in Message /\ messages[c].number = Len(log) + 1
           /\ \A d \in Calls : calls[d].state = "inserted" => d = c
BY InsertedIsNotCommitted DEF IInv, LockInv, NextInv

LEMMA CommitStep == ASSUME IInv, NEW c \in Calls, Commit(c) PROVE IInv'
<1>1. /\ TypeOK /\ LogInv /\ Len(log) \in Nat /\ log \in Seq(Calls)
      /\ DOMAIN log = 1..Len(log)
  BY DEF IInv, TypeOK
<1>2. /\ log' = Append(log, c) /\ rowLock' = NoCall
      /\ calls' = [calls EXCEPT ![c].state = "returned"]
      /\ UNCHANGED <<messages, cursor, seen, lastRead, existing, marks, clock>>
      /\ calls[c].state = "inserted"
  BY DEF Commit, readerVars, markVars
<1>3. /\ Len(log') = Len(log) + 1 /\ DOMAIN log' = 1..Len(log) + 1
      /\ log'[Len(log) + 1] = c
      /\ \A i \in 1..Len(log) : log'[i] = log[i]
      /\ log' \in Seq(Calls)
  BY <1>1, <1>2
<1>4. Committed' = Committed \cup {c}
  BY <1>1, <1>3 DEF Committed
<1>5. TypeOK'
  <2>1. cursor' \in [Users -> 0..Len(log')]
    BY <1>1, <1>2, <1>3 DEF TypeOK
  <2>2. calls' \in [Calls -> Call]
    BY <1>1, <1>2, CallMoves DEF TypeOK, States
  <2> QED BY <1>1, <1>2, <1>3, <2>1, <2>2 DEF TypeOK
<1>6. /\ rowLock = c /\ c \notin Committed
      /\ messages[c] \in Message /\ messages[c].number = Len(log) + 1
      /\ \A d \in Calls : calls[d].state = "inserted" => d = c
  BY <1>2, Holder
<1>7. LockInv' /\ NextInv'
  <2>1. \A d \in Calls : calls'[d].state # "inserted"
    BY <1>1, <1>2, <1>6 DEF TypeOK, Call
  <2> QED BY <1>2, <2>1 DEF LockInv, NextInv
<1>8. LogInv'
  <2> SUFFICES ASSUME NEW i \in DOMAIN log'
               PROVE  /\ calls'[log'[i]].state = "returned"
                      /\ messages'[log'[i]] \in Message
    BY DEF LogInv
  <2>1. CASE i = Len(log) + 1
    BY <1>1, <1>2, <1>3, <1>6, <2>1 DEF TypeOK, Call
  <2>2. CASE i # Len(log) + 1
    <3>1. i \in DOMAIN log /\ log'[i] = log[i] /\ log[i] \in Calls
      BY <1>1, <1>3, <2>2
    <3>2. calls[log[i]].state = "returned" /\ messages[log[i]] \in Message
      BY <1>1, <3>1 DEF LogInv
    <3> QED BY <1>1, <1>2, <3>1, <3>2 DEF TypeOK, Call
  <2> QED BY <2>1, <2>2
<1>9. NumberedInCommitOrder'
  BY <1>1, <1>2, <1>3, <1>6 DEF IInv, NumberedInCommitOrder
<1>10. OneMessagePerClientId'
  <2> SUFFICES ASSUME NEW d \in Committed', NEW e \in Committed',
                      messages[d].user = messages[e].user,
                      messages[d].id = messages[e].id, messages[d].id # NoId
               PROVE  d = e
    BY <1>2 DEF OneMessagePerClientId
  <2>1. messages[c].id # NoId =>
           \A x \in Committed : ~(/\ messages[x].user = messages[c].user
                                  /\ messages[x].id = messages[c].id)
    BY <1>2 DEF IInv, NextInv, SameId
  <2>2. CASE d \in Committed /\ e \in Committed
    BY <2>2 DEF IInv, OneMessagePerClientId
  <2>3. CASE d = c \/ e = c
    BY <1>4, <2>1, <2>3
  <2> QED BY <1>4, <2>2, <2>3
<1>11. FollowerMissesNothing'
  <2>1. \A u \in Users : cursor[u] \in 0..Len(log)
    BY <1>1 DEF TypeOK
  <2>2. \A u \in Users : ~(messages[c].number <= cursor[u])
    BY <1>1, <1>6, <2>1
  <2> QED BY <1>2, <1>4, <2>2 DEF IInv, FollowerMissesNothing
<1> QED BY <1>5, <1>7, <1>8, <1>9, <1>10, <1>11 DEF IInv

LEMMA RollbackStep == ASSUME IInv, NEW c \in Calls, Rollback(c) PROVE IInv'
<1>1. TypeOK /\ LogInv
  BY DEF IInv
<1>2. /\ rowLock' = NoCall /\ calls[c].state = "inserted"
      /\ calls' = [calls EXCEPT ![c].state = "lost"]
      /\ messages' = [messages EXCEPT ![c] = NoMessage]
      /\ UNCHANGED <<log, cursor, seen, lastRead, existing, marks, clock>>
  BY DEF Rollback, readerVars, markVars
<1>3. TypeOK'
  <2>1. calls' \in [Calls -> Call]
    BY <1>1, <1>2, CallMoves DEF TypeOK, States
  <2>2. messages' \in [Calls -> Message \cup {NoMessage}]
    BY <1>1, <1>2 DEF TypeOK
  <2> QED BY <1>1, <1>2, <2>1, <2>2 DEF TypeOK
<1>4. /\ c \notin Committed /\ Committed' = Committed
      /\ \A d \in Committed : messages'[d] = messages[d]
      /\ \A d \in Calls : calls[d].state = "inserted" => d = c
  <2>1. c \notin Committed
    BY <1>2, Holder
  <2>2. Committed \subseteq Calls
    BY <1>1 DEF TypeOK, Committed
  <2> QED
    BY <2>1, <2>2, <1>1, <1>2, Holder DEF Committed, TypeOK
<1>5. LockInv' /\ NextInv'
  <2>1. \A d \in Calls : calls'[d].state # "inserted"
    BY <1>1, <1>2, <1>4 DEF TypeOK, Call
  <2> QED BY <1>2, <2>1 DEF LockInv, NextInv
<1>6. LogInv'
  <2> SUFFICES ASSUME NEW i \in DOMAIN log
               PROVE  /\ calls'[log[i]].state = "returned"
                      /\ messages'[log[i]] \in Message
    BY <1>2 DEF LogInv
  <2>1. log[i] \in Committed /\ log[i] \in Calls /\ log[i] # c
    BY <1>1, <1>4 DEF Committed, TypeOK
  <2> QED BY <1>1, <1>2, <1>4, <2>1 DEF LogInv, TypeOK
<1>7. NumberedInCommitOrder' /\ OneMessagePerClientId' /\ FollowerMissesNothing'
  <2>1. \A i \in DOMAIN log : log[i] \in Committed
    BY DEF Committed
  <2> QED
    BY <1>2, <1>4, <2>1
    DEF IInv, NumberedInCommitOrder, OneMessagePerClientId,
        FollowerMissesNothing
<1> QED BY <1>3, <1>5, <1>6, <1>7 DEF IInv

(* The last message of a page is the entry of the log at its number. *)
LEMMA CommittedNumber ==
    ASSUME TypeOK, NumberedInCommitOrder, NEW c \in Committed
    PROVE  messages[c].number \in 1..Len(log)
BY DEF TypeOK, NumberedInCommitOrder, Committed

LEMMA FetchStep == ASSUME IInv, NEW u \in Users, FetchAfter(u) PROVE IInv'
<1>1. TypeOK /\ NumberedInCommitOrder /\ Len(log) \in Nat
  BY DEF IInv, TypeOK
<1>2. PICK page \in SUBSET After(u), last \in After(u) :
         /\ last \in page
         /\ \A c \in page : messages[c].number <= messages[last].number
         /\ \A c \in page, d \in After(u) \ page :
               messages[c].number < messages[d].number
         /\ seen' = [seen EXCEPT ![u] = seen[u] \cup page]
         /\ cursor' = [cursor EXCEPT ![u] = messages[last].number]
  BY DEF FetchAfter, FirstPageOf
<1>3. UNCHANGED <<calls, messages, log, rowLock, lastRead, existing, marks, clock>>
  BY DEF FetchAfter, tableVars, markVars
<1>4. Committed \subseteq Calls /\ After(u) \subseteq Committed
  BY <1>1 DEF Committed, TypeOK, After
<1>5. \A c \in Committed : messages[c].number \in 1..Len(log)
  BY <1>1, CommittedNumber
<1>6. TypeOK'
  <2>1. messages[last].number \in 0..Len(log) /\ page \subseteq Calls
    BY <1>1, <1>4, <1>5
  <2> QED BY <1>1, <1>2, <1>3, <2>1 DEF TypeOK
<1>7. FollowerMissesNothing'
  <2> SUFFICES ASSUME NEW v \in Users, NEW c \in Committed,
                      messages[c].number <= cursor'[v]
               PROVE  c \in seen'[v]
    BY <1>3 DEF FollowerMissesNothing, Committed
  <2>1. CASE v # u
    <3>1. cursor'[v] = cursor[v] /\ seen'[v] = seen[v]
      BY <1>1, <1>2, <2>1 DEF TypeOK
    <3> QED BY <3>1 DEF IInv, FollowerMissesNothing
  <2>2. CASE v = u
    <3>1. cursor'[u] = messages[last].number /\ seen'[u] = seen[u] \cup page
      BY <1>1, <1>2 DEF TypeOK
    <3>2. CASE messages[c].number <= cursor[u]
      BY <2>2, <3>1, <3>2 DEF IInv, FollowerMissesNothing
    <3>3. CASE ~(messages[c].number <= cursor[u])
      <4>1. c \in After(u)
        <5>1. messages[c].number \in Nat /\ cursor[u] \in Nat
          BY <1>1, <1>5 DEF TypeOK
        <5> QED BY <3>3, <5>1 DEF After
      <4>2. messages[c].number \in Nat /\ messages[last].number \in Nat
        BY <1>4, <1>5
      <4>3. c \in page
        BY <1>2, <2>2, <3>1, <4>1, <4>2
      <4> QED BY <2>2, <3>1, <4>3
    <3> QED BY <3>2, <3>3
  <2> QED BY <2>1, <2>2
<1> QED
  BY <1>3, <1>6, <1>7
  DEF IInv, LockInv, NextInv, LogInv, NumberedInCommitOrder,
      OneMessagePerClientId, SameId, Committed

LEMMA Invariance == Spec => []IInv
<1>1. Init => IInv
  BY InvInit
<1>2. IInv /\ [Next]_vars => IInv'
  <2> SUFFICES ASSUME IInv, [Next]_vars PROVE IInv'
    OBVIOUS
  <2>1. CASE UNCHANGED vars
    <3>1. TypeOK'
      BY <2>1
      DEF IInv, TypeOK, vars, tableVars, readerVars, markVars
    <3> QED BY <2>1, <3>1, QuietStep DEF vars, tableVars, readerVars
  <2> QED
    BY <2>1, BeginStep, InsertStep, RefuseStep, CommitStep, RollbackStep,
       FetchStep, MarkStep DEF Next, Send
<1> QED BY <1>1, <1>2, PTL DEF Spec

(* A client's cursor never points past the log, and all columns keep their *)
(* types.                                                                  *)
THEOREM MessagingTypeCorrect == Spec => []TypeOK
<1>1. IInv => TypeOK
  BY DEF IInv
<1> QED BY <1>1, Invariance, PTL

(* thread_sequence is the place of a message in commit order. *)
THEOREM NumbersFollowCommits == Spec => []NumberedInCommitOrder
<1>1. IInv => NumberedInCommitOrder
  BY DEF IInv
<1> QED BY <1>1, Invariance, PTL

(* A client that follows a thread with ?after= misses no message. *)
THEOREM FollowersMissNothing == Spec => []FollowerMissesNothing
<1>1. IInv => FollowerMissesNothing
  BY DEF IInv
<1> QED BY <1>1, Invariance, PTL

(* A client id names one message of its sender. *)
THEOREM ClientIdsAreUnique == Spec => []OneMessagePerClientId
<1>1. IInv => OneMessagePerClientId
  BY DEF IInv
<1> QED BY <1>1, Invariance, PTL

-----------------------------------------------------------------------------
(* Time stamps.  The insert stamps a message while it holds the row, so a  *)
(* stamp is later than those of all visible messages and of all earlier    *)
(* mark-read requests.                                                     *)
StampInv ==
    /\ \A c \in Calls : messages[c].number # 0 => messages[c].created < clock
    /\ \A c \in Calls : calls[c].state = "inserted" =>
          \A d \in Committed : messages[d].created < messages[c].created
    /\ \A u \in Users : lastRead[u] < clock
    /\ \A u \in Users, c \in Calls :
          messages[c].number # 0 /\ messages[c].created <= lastRead[u]
          => c \in existing[u]
    /\ OrdersAgree

LEMMA CommittedIsNumbered ==
    ASSUME IInv, NEW c \in Committed
    PROVE  c \in Calls /\ messages[c].number \in 1..Len(log) /\ Len(log) \in Nat
BY CommittedNumber DEF IInv, TypeOK, Committed

LEMMA RowTypes ==
    ASSUME TypeOK, NEW c \in Calls
    PROVE  messages[c].number \in Nat /\ messages[c].created \in Nat
BY DEF TypeOK, Message, NoMessage

(* Steps that leave rows, stamps and marks alone and insert nothing. *)
LEMMA StampsStay ==
    ASSUME IInv, StampInv, UNCHANGED <<messages, log, clock, lastRead, existing>>,
           \A c \in Calls : calls'[c].state = "inserted" => calls[c].state = "inserted"
    PROVE  StampInv'
BY DEF StampInv, OrdersAgree, Committed

LEMMA StampInsert ==
    ASSUME IInv, StampInv, NEW c \in Calls, Insert(c) PROVE StampInv'
<1>1. TypeOK /\ LastNumber = Len(log) /\ Len(log) \in Nat /\ clock \in Nat
  BY LastNumberIsLength DEF IInv, TypeOK
<1>2. /\ calls' = [calls EXCEPT ![c].state = "inserted"]
      /\ messages' = [messages EXCEPT ![c] =
            [user |-> calls[c].user, id |-> calls[c].id,
             number |-> Len(log) + 1, created |-> clock]]
      /\ rowLock = NoCall /\ clock' = clock + 1
      /\ UNCHANGED <<log, lastRead, existing>>
  BY <1>1 DEF Insert, Stamp, readerVars, markVars
<1>3. /\ messages'[c].number = Len(log) + 1 /\ messages'[c].created = clock
      /\ \A d \in Calls : d # c => messages'[d] = messages[d]
      /\ \A d \in Calls : calls'[d].state = "inserted" => d = c
  <2>1. \A d \in Calls : calls[d].state # "inserted"
    BY <1>2 DEF IInv, LockInv
  <2> QED BY <1>1, <1>2, <2>1 DEF TypeOK
<1>4. /\ c \notin Committed /\ Committed' = Committed
      /\ \A d \in Committed : d \in Calls /\ d # c /\ messages[d].number # 0
  <2>1. c \notin Committed
    BY InsertedIsNotCommitted DEF IInv, Insert
  <2>2. \A d \in Committed : d \in Calls /\ messages[d].number \in 1..Len(log)
    BY CommittedIsNumbered
  <2> QED BY <1>1, <1>2, <2>1, <2>2 DEF Committed
<1>5. \A d \in Calls : messages[d].created \in Nat
  BY <1>1, RowTypes
<1>6. \A u \in Users : lastRead[u] \in Nat
  BY <1>1 DEF TypeOK
<1>7. \A d \in Calls : messages'[d].number # 0 => messages'[d].created < clock'
  BY <1>1, <1>2, <1>3, <1>5 DEF StampInv
<1>8. \A d \in Calls : calls'[d].state = "inserted" =>
         \A e \in Committed' : messages'[e].created < messages'[d].created
  BY <1>1, <1>3, <1>4 DEF StampInv
<1>9. \A u \in Users : lastRead'[u] < clock'
  BY <1>1, <1>2, <1>6 DEF StampInv
<1>10. \A u \in Users, d \in Calls :
          messages'[d].number # 0 /\ messages'[d].created <= lastRead'[u]
          => d \in existing'[u]
  BY <1>1, <1>2, <1>3, <1>6 DEF StampInv
<1>11. OrdersAgree'
  BY <1>3, <1>4 DEF StampInv, OrdersAgree
<1> QED BY <1>7, <1>8, <1>9, <1>10, <1>11 DEF StampInv

LEMMA StampCommit ==
    ASSUME IInv, StampInv, NEW c \in Calls, Commit(c) PROVE StampInv'
<1>1. TypeOK /\ log \in Seq(Calls) /\ Len(log) \in Nat
  BY DEF IInv, TypeOK
<1>2. /\ log' = Append(log, c) /\ calls[c].state = "inserted"
      /\ calls' = [calls EXCEPT ![c].state = "returned"]
      /\ UNCHANGED <<messages, lastRead, existing, clock>>
  BY DEF Commit, readerVars, markVars
<1>3. Committed' = Committed \cup {c}
  BY <1>1, <1>2 DEF Committed
<1>4. /\ messages[c].number = Len(log) + 1
      /\ \A d \in Calls : calls[d].state = "inserted" => d = c
  BY <1>2, Holder
<1>5. \A d \in Calls : calls'[d].state # "inserted"
  BY <1>1, <1>2, <1>4 DEF TypeOK, Call
<1>6. OrdersAgree'
  <2> SUFFICES ASSUME NEW d \in Committed \cup {c}, NEW e \in Committed \cup {c},
                      messages[d].number < messages[e].number
               PROVE  messages[d].created < messages[e].created
    BY <1>2, <1>3 DEF OrdersAgree
  <2>1. \A x \in Committed : messages[x].number \in 1..Len(log)
    BY CommittedIsNumbered
  <2>2. CASE d \in Committed /\ e \in Committed
    BY <2>2 DEF StampInv, OrdersAgree
  <2>3. CASE d \in Committed /\ e = c
    BY <1>2, <2>3 DEF StampInv
  <2>4. d # c
    BY <1>1, <1>4, <2>1
  <2> QED BY <2>2, <2>3, <2>4
<1> QED BY <1>2, <1>5, <1>6 DEF StampInv

LEMMA StampRollback ==
    ASSUME IInv, StampInv, NEW c \in Calls, Rollback(c) PROVE StampInv'
<1>1. TypeOK /\ calls[c].state = "inserted" /\ c \notin Committed
  BY Holder DEF IInv, Rollback
<1>2. /\ messages' = [messages EXCEPT ![c] = NoMessage]
      /\ calls' = [calls EXCEPT ![c].state = "lost"]
      /\ UNCHANGED <<log, lastRead, existing, clock>>
  BY DEF Rollback, markVars
<1>3. /\ messages'[c].number = 0
      /\ \A d \in Calls : d # c => messages'[d] = messages[d]
      /\ \A d \in Calls : calls'[d].state # "inserted"
  <2>1. \A d \in Calls : calls[d].state = "inserted" => d = c
    BY <1>1, Holder
  <2> QED BY <1>1, <1>2, <2>1 DEF TypeOK, Call, NoMessage
<1>4. /\ Committed' = Committed
      /\ \A d \in Committed : d \in Calls /\ messages'[d] = messages[d]
  BY <1>1, <1>2, <1>3, CommittedIsNumbered DEF Committed
<1> QED BY <1>2, <1>3, <1>4 DEF StampInv, OrdersAgree

LEMMA StampMark ==
    ASSUME IInv, StampInv, NEW u \in Users, MarkRead(u) PROVE StampInv'
<1>1. TypeOK /\ clock \in Nat
  BY DEF IInv, TypeOK
<1>2. /\ lastRead' = [lastRead EXCEPT ![u] = clock] /\ clock' = clock + 1
      /\ existing' = [existing EXCEPT ![u] = {c \in Calls : messages[c] # NoMessage}]
      /\ UNCHANGED <<calls, messages, log>>
  BY DEF MarkRead, tableVars
<1>3. \A c \in Calls : messages[c].created \in Nat
  BY <1>1, RowTypes
<1>4. \A v \in Users : lastRead[v] \in Nat
  BY <1>1 DEF TypeOK
<1>5. \A v \in Users : lastRead'[v] < clock'
  BY <1>1, <1>2, <1>4 DEF TypeOK, StampInv
<1>6. ASSUME NEW v \in Users, NEW c \in Calls, messages[c].number # 0,
             messages[c].created <= lastRead'[v]
      PROVE  c \in existing'[v]
  <2>1. CASE v = u
    BY <1>1, <1>2, <1>6, <2>1 DEF TypeOK, NoMessage
  <2>2. CASE v # u
    BY <1>1, <1>2, <1>6, <2>2 DEF TypeOK, StampInv
  <2> QED BY <2>1, <2>2
<1>7. \A c \in Calls : messages[c].number # 0 => messages[c].created < clock'
  BY <1>1, <1>2, <1>3 DEF StampInv
<1> QED BY <1>2, <1>5, <1>6, <1>7 DEF StampInv, OrdersAgree, Committed

LEMMA StampInvariance == Spec => [](IInv /\ StampInv)
<1>1. Init => StampInv
  <2> SUFFICES ASSUME Init PROVE StampInv
    OBVIOUS
  <2>1. Committed = {}
    BY DEF Init, Committed
  <2> QED BY <2>1 DEF Init, StampInv, OrdersAgree, NoMessage
<1>2. IInv /\ StampInv /\ [Next]_vars => StampInv'
  <2> SUFFICES ASSUME IInv, StampInv, [Next]_vars PROVE StampInv'
    OBVIOUS
  <2>1. ASSUME NEW c \in Calls, NEW id \in AllIds, BeginCall(c, id)
        PROVE  StampInv'
    <3>1. \A d \in Calls : calls'[d].state = "inserted" => calls[d].state = "inserted"
      BY <2>1 DEF BeginCall, IInv, TypeOK, Call
    <3> QED BY <2>1, <3>1, StampsStay DEF BeginCall, tableVars, markVars
  <2>2. ASSUME NEW c \in Calls, Refuse(c) PROVE StampInv'
    <3>1. \A d \in Calls : calls'[d].state = "inserted" => calls[d].state = "inserted"
      BY <2>2 DEF Refuse, IInv, TypeOK, Call
    <3> QED BY <2>2, <3>1, StampsStay DEF Refuse, tableVars, markVars
  <2>3. ASSUME NEW u \in Users, FetchAfter(u) PROVE StampInv'
    BY <2>3, StampsStay DEF FetchAfter, tableVars, markVars
  <2>4. CASE UNCHANGED vars
    BY <2>4, StampsStay DEF vars, tableVars, markVars
  <2> QED
    BY <2>1, <2>2, <2>3, <2>4, StampInsert, StampCommit, StampRollback,
       StampMark DEF Next, Send
<1> QED BY <1>1, <1>2, Invariance, PTL DEF Spec

(* The history, the previews, the client ids and the readers of a thread   *)
(* agree, for any number of calls, users, pages and rollbacks.             *)
THEOREM MessagesStayInStep == Spec => []MessagesAgree
<1>1. IInv /\ StampInv => MessagesAgree
  <2> SUFFICES ASSUME IInv, StampInv PROVE HidesOnlyExisting
    BY DEF IInv, StampInv, MessagesAgree
  <2>1. \A c \in Committed : c \in Calls /\ messages[c].number # 0
    BY CommittedIsNumbered
  <2> QED BY <2>1 DEF StampInv, HidesOnlyExisting
<1> QED BY <1>1, StampInvariance, PTL

(* A thread implements the abstract log. *)
THEOREM ImplementsThreadLog == Spec => ThreadIsALog
<1>1. Init => Log!Init
  BY DEF Init, Log!Init
<1>2. IInv /\ [Next]_vars => [Log!Next]_<<log, cursor>>
  <2> SUFFICES ASSUME IInv, [Next]_vars PROVE [Log!Next]_<<log, cursor>>
    OBVIOUS
  <2>1. ASSUME NEW c \in Calls, Commit(c) PROVE Log!Next
    <3>1. c \notin Committed
      BY <2>1, Holder DEF Commit
    <3>2. Log!Grow(c)
      BY <2>1, <3>1 DEF Commit, Committed, readerVars, Log!Grow
    <3> QED BY <3>2 DEF Log!Next
  <2>2. ASSUME NEW u \in Users, FetchAfter(u) PROVE Log!Next
    <3>1. PICK last \in After(u) :
             cursor' = [cursor EXCEPT ![u] = messages[last].number]
      BY <2>2 DEF FetchAfter
    <3>2. last \in Committed /\ messages[last].number > cursor[u]
      BY DEF After
    <3>3. TypeOK /\ NumberedInCommitOrder
      BY DEF IInv
    <3>4. messages[last].number \in 1..Len(log)
      BY <3>2, <3>3, CommittedNumber
    <3>5. cursor[u] \in 0..Len(log) /\ Len(log) \in Nat
      BY <3>3 DEF TypeOK
    <3>6. messages[last].number \in cursor[u] + 1 .. Len(log)
      BY <3>2, <3>4, <3>5
    <3>7. Log!Read(u, messages[last].number)
      BY <2>2, <3>1, <3>6 DEF FetchAfter, tableVars, Log!Read
    <3> QED BY <3>4, <3>7 DEF Log!Next
  <2>3. ASSUME NEW c \in Calls, NEW id \in AllIds,
               BeginCall(c, id) \/ Insert(c) \/ Refuse(c) \/ Rollback(c)
        PROVE  UNCHANGED <<log, cursor>>
    BY <2>3 DEF BeginCall, Insert, Refuse, Rollback, tableVars, readerVars
  <2>4. ASSUME NEW u \in Users, MarkRead(u) PROVE UNCHANGED <<log, cursor>>
    BY <2>4 DEF MarkRead, tableVars, readerVars
  <2>5. CASE UNCHANGED vars
    BY <2>5 DEF vars, tableVars, readerVars
  <2>6. NoId \in AllIds
    BY DEF AllIds
  <2> QED BY <2>1, <2>2, <2>3, <2>4, <2>5, <2>6 DEF Next, Send
<1> QED BY <1>1, <1>2, Invariance, PTL DEF Spec, ThreadIsALog, Log!Spec
-----------------------------------------------------------------------------
(* Opening a thread.  While no request dies, a thread lacks a participant  *)
(* only as long as its request is still inserting them; and while none     *)
(* overlap, a request only creates a thread when there is none.            *)

Existing == {t \in Threads : creator[t] # "nobody"}

RequestOK(q) ==
    \/ q = Conversations!Idle
    \/ /\ q.step = "create" /\ q.user \in Users
    \/ /\ q.step = "add" /\ q.user \in Users /\ q.thread \in Existing

RequestRow ==
    {Conversations!Idle}
    \cup [step : {"create", "add"}, user : Users, thread : Threads \cup {"none"}]

OpeningInv ==
    /\ creator \in [Threads -> Users \cup {"nobody"}]
    /\ participants \in [Threads -> SUBSET Users]
    /\ requests \in [Requests -> RequestRow]
    /\ answered \subseteq Users \X Threads
    /\ \A r \in Requests : RequestOK(requests[r])
    /\ \A t \in Threads : participants[t] # {} => t \in Existing
    /\ Conversations!AnsweredTakePart
    /\ ~died => \A t \in Existing :
          \/ participants[t] = Users
          \/ \E r \in Requests : requests[r].step = "add" /\ requests[r].thread = t
    /\ ~overlapped =>
          \A q, r \in Requests :
             requests[q] # Conversations!Idle /\ requests[r] # Conversations!Idle => q = r
    /\ ~overlapped /\ ~died =>
          /\ \A t, u \in Existing : t = u
          /\ (\E r \in Requests : requests[r].step = "create") => Existing = {}

LEMMA IdleRequest == Conversations!Idle.step = "idle"
BY DEF Conversations!Idle

LEMMA OpeningInit == Conversations!Init => OpeningInv
BY IdleRequest, MessagingPartsAssumption
   DEF Conversations!Init, OpeningInv, RequestOK, RequestRow, Existing,
       Conversations!AnsweredTakePart

LEMMA LookStep ==
    ASSUME OpeningInv, NEW r \in Requests, NEW u \in Users, Conversations!Look(r, u)
    PROVE  OpeningInv'
<1> USE DEF OpeningInv, RequestOK, Existing, Conversations!AnsweredTakePart
<1>1. UNCHANGED <<creator, participants, died>> /\ requests[r] = Conversations!Idle
      /\ overlapped' = (overlapped \/ \E q \in Requests : requests[q] # Conversations!Idle)
  BY DEF Conversations!Look
<1>2. CASE \E t \in Conversations!ThreadsOf(u) :
             /\ answered' = answered \cup {<<u, t>>}
             /\ UNCHANGED requests
  <2>1. PICK t \in Threads : u \in participants[t] /\ answered' = answered \cup {<<u, t>>}
    BY <1>2 DEF Conversations!ThreadsOf
  <2>2. requests' = requests
    BY <1>2
  <2>3. answered' \subseteq Users \X Threads /\ \A a \in answered' : a[1] \in participants[a[2]]
    BY <2>1
  <2>4. ~overlapped' => ~overlapped
    BY <1>1
  <2>5. Existing' = Existing /\ \A q \in Requests : RequestOK(requests[q])'
    BY <1>1, <2>2
  <2>6. ~died' => \A v \in Existing' :
          \/ participants'[v] = Users
          \/ \E q \in Requests : requests'[q].step = "add" /\ requests'[q].thread = v
    BY <1>1, <2>2
  <2>7. /\ creator' = creator /\ participants' = participants /\ died' = died
        /\ requests' = requests
    BY <1>1, <2>2
  <2> QED
    BY <2>3, <2>4, <2>5, <2>6, <2>7
<1>3. CASE /\ Conversations!ThreadsOf(u) = {}
           /\ requests' = [requests EXCEPT ![r] =
                [step |-> "create", user |-> u, thread |-> "none"]]
           /\ UNCHANGED answered
  <2> DEFINE row == [step |-> "create", user |-> u, thread |-> "none"]
  <2>1. requests'[r] = row /\ \A q \in Requests \ {r} : requests'[q] = requests[q]
    BY <1>3
  <2>2. row \in RequestRow /\ row.step = "create" /\ row.user = u /\ row # Conversations!Idle
    BY DEF RequestRow, Conversations!Idle
  <2>3. requests' \in [Requests -> RequestRow]
    BY <1>3, <2>2
  <2> HIDE DEF row
  <2>4. \A q \in Requests : RequestOK(requests[q])'
    BY <1>1, <2>1, <2>2
  <2>5. \A q \in Requests : requests[q].step = "add" =>
            requests'[q].step = "add" /\ requests'[q].thread = requests[q].thread
    BY <1>1, <2>1, IdleRequest
  <2>6. ASSUME ~overlapped'
        PROVE  ~overlapped /\ \A q \in Requests : requests[q] = Conversations!Idle
    BY <1>1, <2>6
  <2>7. ~overlapped' => \A p, q \in Requests :
             requests'[q] # Conversations!Idle /\ requests'[p] # Conversations!Idle => p = q
    BY <2>1, <2>6
  <2>8. \A t \in Threads : u \notin participants[t]
    BY <1>3 DEF Conversations!ThreadsOf
  <2>9. ~overlapped' /\ ~died => Existing = {}
    <3>1. SUFFICES ASSUME ~overlapped', ~died, NEW t \in Existing PROVE FALSE
      OBVIOUS
    <3>2. participants[t] # Users
      BY <2>8
    <3>3. \E q \in Requests : requests[q].step = "add"
      BY <3>1, <3>2
    <3> QED
      BY <2>6, <3>1, <3>3, IdleRequest
  <2>10. ~died' => \A t \in Existing' :
          \/ participants'[t] = Users
          \/ \E q \in Requests : requests'[q].step = "add" /\ requests'[q].thread = t
    BY <1>1, <2>5
  <2>11. /\ Existing' = Existing /\ participants' = participants /\ answered' = answered
         /\ creator' = creator /\ died' = died
    BY <1>1, <1>3
  <2>12. ~overlapped' /\ ~died' =>
          /\ \A t, v \in Existing' : t = v
          /\ (\E q \in Requests : requests'[q].step = "create") => Existing' = {}
    BY <2>9, <2>11
  <2>13. Conversations!AnsweredTakePart' /\ \A t \in Threads : participants'[t] # {} => t \in Existing'
    BY <2>11
  <2> QED
    BY <2>3, <2>4, <2>7, <2>10, <2>11, <2>12, <2>13
<1> QED
  BY <1>2, <1>3 DEF Conversations!Look

LEMMA CreateStep ==
    ASSUME OpeningInv, NEW r \in Requests, NEW t \in Threads, Conversations!Create(r, t)
    PROVE  OpeningInv'
<1> USE DEF OpeningInv, RequestOK, Existing, Conversations!AnsweredTakePart
<1>1. /\ requests[r].step = "create" /\ creator[t] = "nobody"
      /\ creator' = [creator EXCEPT ![t] = requests[r].user]
      /\ requests' = [requests EXCEPT ![r].step = "add", ![r].thread = t]
      /\ UNCHANGED <<participants, answered, overlapped, died>>
  BY DEF Conversations!Create
<1>2. requests[r] \in [step : {"create", "add"}, user : Users, thread : Threads \cup {"none"}]
      /\ requests[r].user \in Users /\ requests[r].user # "nobody"
  BY <1>1, IdleRequest, MessagingPartsAssumption DEF RequestRow
<1>3. requests' = [requests EXCEPT ![r] = [requests[r] EXCEPT !.step = "add", !.thread = t]]
  BY ONLY <1>1
<1> DEFINE row == [requests[r] EXCEPT !.step = "add", !.thread = t]
<1>4. row \in RequestRow /\ row.step = "add" /\ row.thread = t /\ row.user \in Users
  BY <1>2 DEF RequestRow
<1> HIDE DEF row
<1>5. /\ requests'[r] = row /\ \A q \in Requests \ {r} : requests'[q] = requests[q]
      /\ requests' \in [Requests -> RequestRow]
  BY <1>3, <1>4 DEF row
<1>6. creator' \in [Threads -> Users \cup {"nobody"}] /\ Existing' = Existing \cup {t}
  BY <1>1, <1>2
<1>7. t \notin Existing /\ participants[t] = {}
  BY <1>1
<1>8. \A q \in Requests : RequestOK(requests[q])'
  BY <1>4, <1>5, <1>6
<1>9. ~died' => \A u \in Existing' :
          \/ participants'[u] = Users
          \/ \E q \in Requests : requests'[q].step = "add" /\ requests'[q].thread = u
  <2>1. SUFFICES ASSUME ~died, NEW u \in Existing, participants[u] # Users
                 PROVE  \E q \in Requests : requests'[q].step = "add" /\ requests'[q].thread = u
    BY <1>1, <1>4, <1>5, <1>6
  <2>2. PICK q \in Requests : requests[q].step = "add" /\ requests[q].thread = u
    BY <2>1
  <2>3. q # r
    BY <1>1, <2>2
  <2> QED
    BY <1>5, <2>2, <2>3
<1>10. requests[r] # Conversations!Idle
  BY <1>1, IdleRequest
<1>11. ASSUME ~overlapped
       PROVE  \A q \in Requests : q # r => requests'[q] = Conversations!Idle
  BY <1>5, <1>10, <1>11
<1>12. ~overlapped' => \A p, q \in Requests :
          requests'[q] # Conversations!Idle /\ requests'[p] # Conversations!Idle => p = q
  BY <1>1, <1>11
<1>13. ~overlapped' /\ ~died' =>
          /\ \A u, v \in Existing' : u = v
          /\ (\E q \in Requests : requests'[q].step = "create") => Existing' = {}
  <2>1. SUFFICES ASSUME ~overlapped, ~died
                 PROVE  /\ \A u, v \in Existing' : u = v
                        /\ ~ \E q \in Requests : requests'[q].step = "create"
    BY <1>1
  <2>2. Existing = {}
    BY <1>1, <2>1
  <2> QED
    BY <1>4, <1>5, <1>6, <1>11, <2>1, <2>2, IdleRequest
<1>14. /\ participants' = participants /\ answered' = answered
       /\ Conversations!AnsweredTakePart'
       /\ \A u \in Threads : participants'[u] # {} => u \in Existing'
  BY <1>1, <1>6
<1> QED
  BY <1>5, <1>6, <1>8, <1>9, <1>12, <1>13, <1>14

LEMMA AddParticipantStep ==
    ASSUME OpeningInv, NEW r \in Requests, NEW p \in Users,
           Conversations!AddParticipant(r, p)
    PROVE  OpeningInv'
<1> USE DEF OpeningInv, RequestOK, Existing, Conversations!AnsweredTakePart
<1> DEFINE t == requests[r].thread
<1>1. /\ requests[r].step = "add"
      /\ participants' = [participants EXCEPT ![t] = @ \cup {p}]
      /\ UNCHANGED <<creator, requests, answered, overlapped, died>>
  BY DEF Conversations!AddParticipant
<1>2. t \in Threads /\ t \in Existing
  BY <1>1, IdleRequest
<1>3. /\ participants' \in [Threads -> SUBSET Users]
      /\ \A u \in Threads : participants[u] \subseteq participants'[u]
      /\ \A u \in Threads \ {t} : participants'[u] = participants[u]
  BY <1>1, <1>2
<1>4. Existing' = Existing /\ \A u \in Threads : participants'[u] # {} => u \in Existing'
  BY <1>1, <1>2, <1>3
<1>5. Conversations!AnsweredTakePart'
  BY <1>1, <1>3
<1>6. ~died' => \A u \in Existing' :
          \/ participants'[u] = Users
          \/ \E q \in Requests : requests'[q].step = "add" /\ requests'[q].thread = u
  <2>1. \A u \in Existing : u # t => participants'[u] = participants[u]
    BY <1>3
  <2> QED
    BY <1>1, <1>4, <2>1
<1> QED
  BY <1>1, <1>3, <1>4, <1>5, <1>6

LEMMA RequestEnds ==
    ASSUME OpeningInv, NEW r \in Requests,
           requests' = [requests EXCEPT ![r] = Conversations!Idle],
           UNCHANGED <<creator, participants, overlapped>>,
           answered' \subseteq Users \X Threads,
           \A a \in answered' : a[1] \in participants[a[2]],
           \/ died'
           \/ died' = died /\ (requests[r].step = "add" =>
                                 participants[requests[r].thread] = Users)
    PROVE  OpeningInv'
<1> USE DEF OpeningInv, RequestOK, Existing, Conversations!AnsweredTakePart
<1>1. /\ requests'[r] = Conversations!Idle
      /\ \A q \in Requests \ {r} : requests'[q] = requests[q]
      /\ requests' \in [Requests -> RequestRow]
  BY DEF RequestRow
<1>2. Existing' = Existing
  OBVIOUS
<1>3. \A q \in Requests : RequestOK(requests[q])'
  BY <1>1, <1>2
<1>4. ASSUME ~died', NEW u \in Existing, participants[u] # Users
      PROVE  \E q \in Requests : requests'[q].step = "add" /\ requests'[q].thread = u
  <2>1. PICK q \in Requests : requests[q].step = "add" /\ requests[q].thread = u
    BY <1>4
  <2>2. q # r
    BY <1>4, <2>1
  <2> QED
    BY <1>1, <2>1, <2>2
<1>5. \A q \in Requests : requests'[q] # Conversations!Idle =>
          q # r /\ requests'[q] = requests[q]
  BY <1>1
<1>6. ~overlapped' => \A p, q \in Requests :
          requests'[q] # Conversations!Idle /\ requests'[p] # Conversations!Idle => p = q
  BY <1>5
<1>7. (\E q \in Requests : requests'[q].step = "create") =>
          \E q \in Requests : requests[q].step = "create"
  BY <1>5, IdleRequest
<1>8. ~overlapped' /\ ~died' =>
          /\ \A u, v \in Existing' : u = v
          /\ (\E q \in Requests : requests'[q].step = "create") => Existing' = {}
  BY <1>2, <1>7
<1> QED
  BY <1>1, <1>2, <1>3, <1>4, <1>6, <1>8

LEMMA OpeningStep ==
    ASSUME OpeningInv, Conversations!Next
    PROVE  OpeningInv'
<1>1. ASSUME NEW r \in Requests, Conversations!Answer(r) PROVE OpeningInv'
  <2>1. /\ requests[r].step = "add" /\ Users \subseteq participants[requests[r].thread]
        /\ answered' = answered \cup {<<requests[r].user, requests[r].thread>>}
        /\ requests' = [requests EXCEPT ![r] = Conversations!Idle]
        /\ UNCHANGED <<creator, participants, overlapped, died>>
    BY <1>1 DEF Conversations!Answer, Conversations!ParticipantsWith
  <2>2. requests[r].thread \in Threads /\ requests[r].user \in Users
    BY <2>1, IdleRequest DEF OpeningInv, RequestOK, Existing
  <2>3. participants[requests[r].thread] = Users
    BY <2>1, <2>2 DEF OpeningInv
  <2>4. answered' \subseteq Users \X Threads /\ \A a \in answered' : a[1] \in participants[a[2]]
    BY <2>1, <2>2, <2>3 DEF OpeningInv, Conversations!AnsweredTakePart
  <2> QED
    BY <2>1, <2>3, <2>4, RequestEnds
<1>2. ASSUME NEW r \in Requests, Conversations!Die(r) PROVE OpeningInv'
  BY <1>2, RequestEnds DEF Conversations!Die, OpeningInv, Conversations!AnsweredTakePart
<1> QED
  BY <1>1, <1>2, LookStep, CreateStep, AddParticipantStep DEF Conversations!Next

LEMMA OpeningStutters ==
    ASSUME OpeningInv, UNCHANGED <<opening, overlapped>>
    PROVE  OpeningInv'
BY DEF OpeningInv, opening, RequestOK, Existing, Conversations!AnsweredTakePart

LEMMA AtMostOne ==
    ASSUME NEW S, \A x, y \in S : x = y
    PROVE  IsFiniteSet(S) /\ Cardinality(S) \in Nat /\ Cardinality(S) <= 1
<1>1. CASE S = {}
  BY <1>1, FS_EmptySet
<1>2. ASSUME NEW x \in S PROVE IsFiniteSet(S) /\ Cardinality(S) = 1
  <2>1. S = {x}
    OBVIOUS
  <2> QED
    BY <2>1, FS_Singleton
<1> QED
  BY <1>1, <1>2

LEMMA SameCount ==
    ASSUME NEW S PROVE Conversations!Cardinality(S) = Cardinality(S)
BY DEF Conversations!Cardinality, Cardinality

LEMMA OpeningAgrees ==
    ASSUME OpeningInv
    PROVE  Conversations!TypeOK /\ Conversations!AnsweredTakePart /\ Conversations!OneConversation
<1>1. Conversations!TypeOK
  BY DEF OpeningInv, Conversations!TypeOK
<1>2. ASSUME ~died, \A r \in Requests : requests[r] = Conversations!Idle
      PROVE  /\ \A t \in Existing : participants[t] = Users
             /\ overlapped \/ Conversations!Cardinality(Existing) <= 1
  <2>1. \A t \in Existing : participants[t] = Users
    BY <1>2, IdleRequest DEF OpeningInv
  <2>2. ~overlapped => \A t, u \in Existing : t = u
    BY <1>2 DEF OpeningInv
  <2> QED
    BY <2>1, <2>2, AtMostOne, SameCount
<1>3. Conversations!OneConversation
  BY <1>2 DEF Conversations!OneConversation, Existing
<1> QED
  BY <1>1, <1>3 DEF OpeningInv
-----------------------------------------------------------------------------
(* The assistant.  What a session h may hold, by the rows r and the sends  *)
(* D that are done: stored turns, an answer once, and a question twice     *)
(* only when its send has added it to the history a second time.           *)

Once(x, h) == \A i, j \in DOMAIN h : h[i] = x /\ h[j] = x => i = j
Twice(x, h) ==
    \A i, j, k \in DOMAIN h :
        h[i] = x /\ h[j] = x /\ h[k] = x => i = j \/ j = k \/ i = k
Holds(h, x) == \E i \in DOMAIN h : h[i] = x

Session(h, r, D) ==
    /\ h \in Seq(Assistant!Turns)
    /\ \A i \in DOMAIN h : Holds(r, h[i])
    /\ \A s \in Calls :
          /\ Once(Assistant!Reply(s), h)
          /\ Twice(Assistant!Question(s), h)
          /\ s \notin D => Once(Assistant!Question(s), h)

(* Without overlap it is in the order of the rows, and an answer in it is  *)
(* followed by the latest of the rows.                                     *)
Ordered(h, r) ==
    \A i, j \in DOMAIN h, a, b \in DOMAIN r :
        i < j /\ r[a] = h[i] /\ r[b] = h[j] => a <= b
Latest(r, b) ==
    /\ b \in DOMAIN r /\ r[b].role = "assistant"
    /\ \A c \in DOMAIN r : r[c].role = "assistant" => c <= b
Fresh(h, r) ==
    \A i \in DOMAIN h : h[i].role = "assistant" =>
        \E j \in DOMAIN h, b \in DOMAIN r : i <= j /\ h[j] = r[b] /\ Latest(r, b)

LEMMA TurnFacts ==
    /\ \A s \in Calls :
          /\ Assistant!Question(s) \in Assistant!Turns
          /\ Assistant!Reply(s) \in Assistant!Turns
          /\ Assistant!Question(s).role = "user"
          /\ Assistant!Reply(s).role = "assistant"
    /\ \A s, t \in Calls :
          /\ Assistant!Question(s) # Assistant!Reply(t)
          /\ Assistant!Question(s) = Assistant!Question(t) => s = t
          /\ Assistant!Reply(s) = Assistant!Reply(t) => s = t
    /\ \A x \in Assistant!Turns :
          \E s \in Calls : x = Assistant!Question(s) \/ x = Assistant!Reply(s)
BY DEF Assistant!Turns, Assistant!Question, Assistant!Reply

LEMMA NothingIsNoSession ==
    ASSUME NEW h \in Seq(Assistant!Turns) PROVE h # Assistant!Nothing
<1> SUFFICES ASSUME h = Assistant!Nothing PROVE FALSE
  OBVIOUS
<1>1. Len(h) = 1 /\ h[1] = [role |-> "none"]
  BY DEF Assistant!Nothing
<1>2. h[1] \in Assistant!Turns
  BY <1>1
<1>3. h[1].role = "none"
  BY <1>1
<1>4. h[1].role \in {"user", "assistant"}
  BY <1>2, TurnFacts
<1> QED
  BY <1>3, <1>4

(* The latest turns are the end of the sequence, as long as a session is.  *)
LEMMA LatestTurnsAreTheEnd ==
    ASSUME NEW T, NEW h \in Seq(T)
    PROVE  \E k \in Nat :
              /\ Assistant!LatestTurns(h) \in Seq(T)
              /\ Len(Assistant!LatestTurns(h)) <= SessionSize
              /\ Len(h) = Len(Assistant!LatestTurns(h)) + k
              /\ \A i \in DOMAIN Assistant!LatestTurns(h) :
                    i + k \in DOMAIN h /\ Assistant!LatestTurns(h)[i] = h[i + k]
<1>1. Len(h) \in Nat /\ SessionSize \in Nat /\ DOMAIN h = 1 .. Len(h)
  BY MessagingPartsAssumption
<1>2. CASE Len(h) > SessionSize
  <2> DEFINE k == Len(h) - SessionSize
  <2>1. k \in Nat /\ Len(h) = SessionSize + k
    BY <1>1, <1>2
  <2>2. Assistant!LatestTurns(h) = SubSeq(h, k + 1, Len(h))
    BY <1>2 DEF Assistant!LatestTurns
  <2> HIDE DEF k
  <2>3. /\ k + 1 \in Int /\ Len(h) \in Int
        /\ Len(h) - (k + 1) + 1 = SessionSize
        /\ (IF k + 1 <= Len(h) THEN Len(h) - (k + 1) + 1 ELSE 0) = SessionSize
    BY <1>1, <2>1
  <2>4. \A i \in k + 1 .. Len(h) : h[i] \in T
    <3>1. \A i \in k + 1 .. Len(h) : i \in DOMAIN h
      BY <1>1, <2>1
    <3> QED
      BY <3>1
  <2> DEFINE g == SubSeq(h, k + 1, Len(h))
  <2>5. /\ g \in Seq(T)
        /\ Len(g) = IF k + 1 <= Len(h) THEN Len(h) - (k + 1) + 1 ELSE 0
        /\ \A i \in 1 .. Len(h) - (k + 1) + 1 : g[i] = h[(k + 1) + i - 1]
    BY <2>3, <2>4, SubSeqProperties
  <2> HIDE DEF g
  <2>6. g \in Seq(T) /\ Len(g) = SessionSize /\ DOMAIN g = 1 .. SessionSize
    BY <2>3, <2>5
  <2>7. \A i \in 1 .. SessionSize :
           (k + 1) + i - 1 = i + k /\ i + k \in DOMAIN h
    BY <1>1, <2>1
  <2>8. \A i \in 1 .. SessionSize : g[i] = h[i + k] /\ i + k \in DOMAIN h
    BY <2>3, <2>5, <2>7
  <2>9. Assistant!LatestTurns(h) = g
    BY <2>2 DEF g
  <2>10. /\ g \in Seq(T) /\ Len(g) <= SessionSize /\ Len(h) = Len(g) + k
         /\ \A i \in DOMAIN g : i + k \in DOMAIN h /\ g[i] = h[i + k]
    BY <1>1, <2>1, <2>6, <2>8
  <2> QED
    BY ONLY <2>1, <2>9, <2>10
<1>3. CASE ~(Len(h) > SessionSize)
  <2>1. Assistant!LatestTurns(h) = SubSeq(h, 1, Len(h))
    BY <1>3 DEF Assistant!LatestTurns
  <2>2. SubSeq(h, 1, Len(h)) = h
    BY <1>1
  <2>3. Assistant!LatestTurns(h) = h
    BY <2>1, <2>2
  <2>4. Len(h) <= SessionSize /\ Len(h) = Len(h) + 0 /\ \A i \in DOMAIN h : i + 0 = i
    BY <1>1, <1>3
  <2> QED
    BY <2>3, <2>4
<1> QED
  BY <1>2, <1>3

LEMMA EndOfSession ==
    ASSUME NEW r \in Seq(Assistant!Turns), NEW D, NEW h, Session(h, r, D)
    PROVE  /\ Session(Assistant!LatestTurns(h), r, D)
           /\ Len(Assistant!LatestTurns(h)) <= SessionSize
           /\ Ordered(h, r) => Ordered(Assistant!LatestTurns(h), r)
           /\ Fresh(h, r) => Fresh(Assistant!LatestTurns(h), r)
<1> DEFINE g == Assistant!LatestTurns(h)
<1>0. h \in Seq(Assistant!Turns)
  BY DEF Session
<1>1. PICK k \in Nat :
         /\ g \in Seq(Assistant!Turns) /\ Len(g) <= SessionSize
         /\ Len(h) = Len(g) + k
         /\ \A i \in DOMAIN g : i + k \in DOMAIN h /\ g[i] = h[i + k]
  BY <1>0, LatestTurnsAreTheEnd
<1> HIDE DEF g
<1>2. DOMAIN g = 1 .. Len(g) /\ DOMAIN h = 1 .. Len(h) /\ Len(g) \in Nat
      /\ DOMAIN r = 1 .. Len(r) /\ Len(r) \in Nat
  BY <1>0, <1>1
<1>3. \A x : (Once(x, h) => Once(x, g)) /\ (Twice(x, h) => Twice(x, g))
  <2>1. ASSUME NEW x, Once(x, h), NEW i \in DOMAIN g, NEW j \in DOMAIN g, g[i] = x, g[j] = x
        PROVE  i = j
    <3>1. i + k = j + k
      BY <1>1, <2>1 DEF Once
    <3> QED
      BY <1>2, <3>1
  <2>2. ASSUME NEW x, Twice(x, h), NEW i \in DOMAIN g, NEW j \in DOMAIN g, NEW l \in DOMAIN g,
               g[i] = x, g[j] = x, g[l] = x
        PROVE  i = j \/ j = l \/ i = l
    <3>1. i + k = j + k \/ j + k = l + k \/ i + k = l + k
      BY <1>1, <2>2 DEF Twice
    <3> QED
      BY <1>2, <3>1
  <2>3. \A x : Once(x, h) => Once(x, g)
    BY <2>1 DEF Once
  <2>4. \A x : Twice(x, h) => Twice(x, g)
    BY <2>2 DEF Twice
  <2> QED
    BY <2>3, <2>4
<1>4. Session(g, r, D)
  BY <1>1, <1>3 DEF Session
<1>5. ASSUME Ordered(h, r) PROVE Ordered(g, r)
  <2> SUFFICES ASSUME NEW i \in DOMAIN g, NEW j \in DOMAIN g,
                      NEW a \in DOMAIN r, NEW b \in DOMAIN r,
                      i < j, r[a] = g[i], r[b] = g[j]
               PROVE  a <= b
    BY DEF Ordered
  <2>1. i + k \in DOMAIN h /\ j + k \in DOMAIN h /\ i + k < j + k
        /\ h[i + k] = g[i] /\ h[j + k] = g[j]
    BY <1>1, <1>2
  <2> QED
    BY <1>5, <2>1 DEF Ordered
<1>6. ASSUME Fresh(h, r) PROVE Fresh(g, r)
  <2> SUFFICES ASSUME NEW i \in DOMAIN g, g[i].role = "assistant"
               PROVE  \E j \in DOMAIN g, b \in DOMAIN r : i <= j /\ g[j] = r[b] /\ Latest(r, b)
    BY DEF Fresh
  <2>1. i + k \in DOMAIN h /\ h[i + k].role = "assistant"
    BY <1>1
  <2>2. PICK j \in DOMAIN h, b \in DOMAIN r : i + k <= j /\ h[j] = r[b] /\ Latest(r, b)
    BY <1>6, <2>1 DEF Fresh
  <2>3. /\ j - k \in DOMAIN g
        /\ i <= j - k /\ (j - k) + k = j
    BY <1>1, <1>2, <2>1, <2>2
  <2>4. g[j - k] = r[b]
    BY <1>1, <2>2, <2>3
  <2>5. PICK l \in DOMAIN g : i <= l /\ g[l] = r[b]
    BY <2>3, <2>4
  <2> QED
    BY <2>2, <2>5
<1> QED
  BY <1>1, <1>4, <1>5, <1>6 DEF g

(* The rows themselves are a session, in order and fresh.                  *)
LEMMA LargestIndex ==
    ASSUME NEW n \in Nat, NEW S, S \subseteq 1 .. n, S # {}
    PROVE  \E m \in S : \A x \in S : x <= m
<1> DEFINE T == {n - x : x \in S}
<1>1. T \subseteq Nat /\ T # {}
  <2>1. \A x \in S : n - x \in Nat
    OBVIOUS
  <2> QED
    BY <2>1
<1> HIDE DEF T
<1>2. PICK d \in T : \A e \in T : <<e, d>> \notin OpToRel(<, Nat)
  BY <1>1, NatLessThanWellFounded, WFMin
<1>3. PICK m \in S : d = n - m
  BY <1>2 DEF T
<1>4. ASSUME NEW x \in S PROVE x <= m
  <2>1. n - x \in T /\ <<n - x, d>> \notin OpToRel(<, Nat)
    BY <1>2 DEF T
  <2>2. ~(n - x < d)
    BY <1>1, <1>2, <2>1 DEF OpToRel
  <2> QED
    BY <1>3, <2>2
<1> QED
  BY <1>4

LEMMA RowsAreASession ==
    ASSUME NEW r \in Seq(Assistant!Turns), \A a, b \in DOMAIN r : r[a] = r[b] => a = b, NEW D
    PROVE  Session(r, r, D) /\ Ordered(r, r) /\ Fresh(r, r)
<1>1. \A x : Once(x, r) /\ Twice(x, r)
  BY DEF Once, Twice
<1>2. Session(r, r, D)
  BY <1>1 DEF Session, Holds
<1>3. Ordered(r, r)
  <2> SUFFICES ASSUME NEW i \in DOMAIN r, NEW j \in DOMAIN r,
                      NEW a \in DOMAIN r, NEW b \in DOMAIN r,
                      i < j, r[a] = r[i], r[b] = r[j]
               PROVE  a <= b
    BY DEF Ordered
  <2>1. a = i /\ b = j
    OBVIOUS
  <2> QED
    BY <2>1
<1>4. Fresh(r, r)
  <2> SUFFICES ASSUME NEW i \in DOMAIN r, r[i].role = "assistant"
               PROVE  \E j \in DOMAIN r, b \in DOMAIN r : i <= j /\ r[j] = r[b] /\ Latest(r, b)
    BY DEF Fresh
  <2> DEFINE S == {c \in DOMAIN r : r[c].role = "assistant"}
  <2>1. Len(r) \in Nat /\ S \subseteq 1 .. Len(r) /\ i \in S
    OBVIOUS
  <2>2. PICK m \in S : \A c \in S : c <= m
    BY <2>1, LargestIndex
  <2>3. Latest(r, m) /\ i <= m
    BY <2>1, <2>2 DEF Latest
  <2> QED
    BY <2>3 DEF Latest
<1> QED
  BY <1>2, <1>3, <1>4
-----------------------------------------------------------------------------
(* The invariant.  Every session, in the cache or in the memory of a send, *)
(* is one of the rows; a send does not know its own answer before it has   *)
(* stored it.  Without overlap the send that works has stored the last     *)
(* rows, and a cached session is fresh but between its answer and the      *)
(* write that adds the answer to the session.                              *)

SendSteps == {"idle", "look", "load", "fill", "call", "unavailable", "save",
              "count", "remember", "done", "dead"}
SendRow == [step : SendSteps, history : Seq(Assistant!Turns),
            rounds : 0 .. MaxRounds, tokens : Nat]

Done == {s \in Calls : sends[s].step = "done"}
Answering == {s \in Calls : sends[s].step \in {"count", "remember"}}
Counted == {s \in Calls : sends[s].step \in {"remember", "done"}}
NobodyDied == \A s \in Calls : sends[s].step # "dead"
Tokens == [s \in Calls |-> sends[s].tokens]

AskTypes ==
    /\ provider \in (Modes \ {"disabled"}) \cup {"none"}
    /\ rows \in Seq(Assistant!Turns)
    /\ \A a, b \in DOMAIN rows : rows[a] = rows[b] => a = b
    /\ sends \in [Calls -> SendRow]
    /\ total \in Nat

RowsInv ==
    \A s \in Calls :
        /\ Holds(rows, Assistant!Question(s)) <=> sends[s].step # "idle"
        /\ Holds(rows, Assistant!Reply(s)) =>
              sends[s].step \in {"count", "remember", "done", "dead"}
        /\ sends[s].step \in {"count", "remember", "done"} =>
              Holds(rows, Assistant!Reply(s))

SessionInv ==
    /\ cached # Assistant!Nothing =>
          Session(cached, rows, Done) /\ Len(cached) <= SessionSize
    /\ \A s \in Calls :
          /\ Session(sends[s].history, rows, Done)
          /\ ~Holds(sends[s].history, Assistant!Reply(s))

WorkerInv ==
    ~overlapped =>
        /\ \A s, t \in Assistant!Working : s = t
        /\ \A s \in Calls :
              /\ sends[s].step \in {"look", "load", "fill", "call", "save"} =>
                    Len(rows) >= 1 /\ rows[Len(rows)] = Assistant!Question(s)
              /\ sends[s].step \in {"count", "remember"} =>
                    /\ Len(rows) >= 2
                    /\ rows[Len(rows) - 1] = Assistant!Question(s)
                    /\ rows[Len(rows)] = Assistant!Reply(s)

OrderInv ==
    ~overlapped =>
        /\ cached # Assistant!Nothing => Ordered(cached, rows)
        /\ \A s \in Calls : Ordered(sends[s].history, rows)

FreshInv ==
    ~overlapped /\ NobodyDied =>
        /\ cached # Assistant!Nothing /\ Answering = {} => Fresh(cached, rows)
        /\ \A s \in Calls : sends[s].step \in {"fill", "call", "save"} =>
              Fresh(sends[s].history, rows)

TokenInv ==
    /\ IsFiniteSet(Counted)
    /\ NobodyDied => total = SumFunctionOnSet(Tokens, Counted)

AskingInv ==
    AskTypes /\ RowsInv /\ SessionInv /\ WorkerInv /\ OrderInv /\ FreshInv /\ TokenInv

-----------------------------------------------------------------------------
(* What a step does to the sends: s moves, the others stay.                *)
Moves(s, from, to, h, n) ==
    /\ sends[s].step \in from
    /\ sends' \in [Calls -> SendRow]
    /\ sends'[s].step = to /\ sends'[s].history = h /\ sends'[s].tokens = n
    /\ \A t \in Calls \ {s} : sends'[t] = sends[t]

LEMMA IdleFacts ==
    /\ Assistant!Idle.step = "idle" /\ Assistant!Idle.history = <<>>
    /\ Assistant!Idle.tokens = 0 /\ Assistant!Idle.rounds = 0
    /\ Assistant!Idle \in SendRow
<1>1. <<>> \in Seq(Assistant!Turns) /\ 0 \in 0 .. MaxRounds
  BY MessagingPartsAssumption
<1> QED
  BY <1>1 DEF Assistant!Idle, SendRow, SendSteps

LEMMA RowMakesMove ==
    ASSUME sends \in [Calls -> SendRow], NEW s \in Calls, NEW row \in SendRow,
           sends' = [sends EXCEPT ![s] = row], NEW from, sends[s].step \in from
    PROVE  Moves(s, from, row.step, row.history, row.tokens)
BY DEF Moves

LEMMA StepMoves ==
    ASSUME sends \in [Calls -> SendRow], NEW s \in Calls, NEW to \in SendSteps,
           sends' = [sends EXCEPT ![s].step = to], NEW from, sends[s].step \in from
    PROVE  Moves(s, from, to, sends[s].history, sends[s].tokens)
<1> DEFINE row == [sends[s] EXCEPT !.step = to]
<1>1. sends[s] \in SendRow /\ sends' = [sends EXCEPT ![s] = row]
  OBVIOUS
<1>2. row \in SendRow /\ row.step = to /\ row.history = sends[s].history
      /\ row.tokens = sends[s].tokens
  BY <1>1 DEF SendRow
<1> HIDE DEF row
<1> QED
  BY <1>1, <1>2, RowMakesMove

LEMMA HistoryMoves ==
    ASSUME sends \in [Calls -> SendRow], NEW s \in Calls, NEW to \in SendSteps,
           NEW h \in Seq(Assistant!Turns),
           \/ sends' = [sends EXCEPT ![s].step = to, ![s].history = h]
           \/ sends' = [sends EXCEPT ![s] = [@ EXCEPT !.step = to, !.history = h]],
           NEW from, sends[s].step \in from
    PROVE  Moves(s, from, to, h, sends[s].tokens)
<1> DEFINE row == [sends[s] EXCEPT !.step = to, !.history = h]
<1>1. sends[s] \in SendRow /\ sends' = [sends EXCEPT ![s] = row]
  OBVIOUS
<1>2. row \in SendRow /\ row.step = to /\ row.history = h
      /\ row.tokens = sends[s].tokens
  BY <1>1 DEF SendRow
<1> HIDE DEF row
<1> QED
  BY <1>1, <1>2, RowMakesMove

(* The step of a send, by what it reads and writes.                        *)
AskFact(s) ==
    /\ Moves(s, {"idle"}, "look", sends[s].history, sends[s].tokens)
    /\ rows' = Append(rows, Assistant!Question(s))
    /\ overlapped' = (overlapped \/ Assistant!Working # {})
    /\ UNCHANGED <<cached, total>>
LookFact(s) ==
    /\ \/ Moves(s, {"look"}, "load", sends[s].history, sends[s].tokens)
       \/ cached # Assistant!Nothing /\ Moves(s, {"look"}, "call", cached, sends[s].tokens)
    /\ UNCHANGED <<rows, overlapped, cached, total>>
LoadFact(s) ==
    /\ Moves(s, {"load"}, "fill", Assistant!LatestTurns(rows), sends[s].tokens)
    /\ UNCHANGED <<rows, overlapped, cached, total>>
FillFact(s) ==
    /\ Moves(s, {"fill"}, "call", sends[s].history, sends[s].tokens)
    /\ cached' = Assistant!LatestTurns(sends[s].history)
    /\ UNCHANGED <<rows, overlapped, total>>
CallFact(s) ==
    /\ \E to \in {"call", "save", "unavailable"}, n \in Nat :
          Moves(s, {"call"}, to, sends[s].history, n)
    /\ UNCHANGED <<rows, overlapped, cached, total>>
SaveFact(s) ==
    /\ Moves(s, {"save"}, "count", sends[s].history, sends[s].tokens)
    /\ rows' = Append(rows, Assistant!Reply(s))
    /\ UNCHANGED <<overlapped, cached, total>>
CountFact(s) ==
    /\ Moves(s, {"count"}, "remember", sends[s].history, sends[s].tokens)
    /\ total' = total + sends[s].tokens
    /\ UNCHANGED <<rows, overlapped, cached>>
RememberFact(s) ==
    /\ Moves(s, {"remember"}, "done", <<>>, sends[s].tokens)
    /\ cached' = Assistant!LatestTurns(sends[s].history
                    \o <<Assistant!Question(s), Assistant!Reply(s)>>)
    /\ UNCHANGED <<rows, overlapped, total>>
DieFact(s) ==
    /\ Moves(s, SendSteps \ Assistant!Ended, "dead", sends[s].history, sends[s].tokens)
    /\ UNCHANGED <<rows, overlapped, cached, total>>
RestFact ==
    /\ cached' \in {cached, Assistant!Nothing}
    /\ UNCHANGED <<rows, overlapped, sends, total>>

LEMMA StepFacts ==
    ASSUME AskingInv, Assistant!Next \/ UNCHANGED <<asking, overlapped>>
    PROVE  /\ provider' \in (Modes \ {"disabled"}) \cup {"none"}
           /\ \/ RestFact
              \/ \E s \in Calls :
                    \/ AskFact(s) \/ LookFact(s) \/ LoadFact(s) \/ FillFact(s)
                    \/ CallFact(s) \/ SaveFact(s) \/ CountFact(s)
                    \/ RememberFact(s) \/ DieFact(s)
<1>0. /\ sends \in [Calls -> SendRow] /\ rows \in Seq(Assistant!Turns)
      /\ provider \in (Modes \ {"disabled"}) \cup {"none"}
      /\ \A s \in Calls : sends[s] \in SendRow
  BY DEF AskingInv, AskTypes
<1>1. ASSUME NEW mode \in Modes, Assistant!Start(mode)
      PROVE  RestFact /\ provider' \in (Modes \ {"disabled"}) \cup {"none"}
  BY <1>1 DEF Assistant!Start, Assistant!Available, RestFact
<1>2. ASSUME NEW s \in Calls, Assistant!Ask(s)
      PROVE  AskFact(s) /\ provider' = provider
  <2>1. sends[s].step \in {"idle"} /\ "look" \in SendSteps
    BY <1>2, IdleFacts DEF Assistant!Ask, SendSteps
  <2> QED
    BY <1>0, <1>2, <2>1, StepMoves DEF Assistant!Ask, AskFact
<1>3. ASSUME NEW s \in Calls, Assistant!LookUp(s)
      PROVE  LookFact(s) /\ provider' = provider
  <2>1. /\ sends[s].step \in {"look"} /\ "load" \in SendSteps /\ "call" \in SendSteps
        /\ UNCHANGED <<provider, rows, cached, total, overlapped>>
    BY <1>3 DEF Assistant!LookUp, SendSteps
  <2>2. CASE cached = Assistant!Nothing
    <3>1. sends' = [sends EXCEPT ![s].step = "load"]
      BY <1>0, <1>3, <2>2 DEF Assistant!LookUp
    <3>2. Moves(s, {"look"}, "load", sends[s].history, sends[s].tokens)
      BY <1>0, <2>1, <3>1, StepMoves
    <3> QED
      BY <2>1, <3>2 DEF LookFact
  <2>3. CASE cached # Assistant!Nothing
    <3>1. sends' = [sends EXCEPT ![s] = [@ EXCEPT !.step = "call", !.history = cached]]
      BY <1>3, <2>3 DEF Assistant!LookUp
    <3>2. cached \in Seq(Assistant!Turns)
      BY <2>3 DEF AskingInv, SessionInv, Session
    <3>3. Moves(s, {"look"}, "call", cached, sends[s].tokens)
      BY <1>0, <2>1, <3>1, <3>2, HistoryMoves
    <3> QED
      BY <2>1, <2>3, <3>3 DEF LookFact
  <2> QED
    BY <2>2, <2>3
<1>4. ASSUME NEW s \in Calls, Assistant!Load(s)
      PROVE  LoadFact(s) /\ provider' = provider
  <2>1. /\ sends[s].step \in {"load"} /\ "fill" \in SendSteps
        /\ sends' = [sends EXCEPT ![s].step = "fill", ![s].history = Assistant!LatestTurns(rows)]
        /\ UNCHANGED <<provider, rows, cached, total, overlapped>>
    BY <1>4 DEF Assistant!Load, SendSteps
  <2>2. Assistant!LatestTurns(rows) \in Seq(Assistant!Turns)
    BY <1>0, LatestTurnsAreTheEnd
  <2> QED
    BY <1>0, <2>1, <2>2, HistoryMoves DEF LoadFact
<1>5. ASSUME NEW s \in Calls, Assistant!Fill(s)
      PROVE  FillFact(s) /\ provider' = provider
  <2>1. sends[s].step \in {"fill"} /\ "call" \in SendSteps
    BY <1>5 DEF Assistant!Fill, SendSteps
  <2> QED
    BY <1>0, <1>5, <2>1, StepMoves DEF Assistant!Fill, FillFact
<1>6. ASSUME NEW s \in Calls, Assistant!Unavailable(s)
      PROVE  CallFact(s) /\ provider' = provider
  <2>1. sends[s].step \in {"call"} /\ "unavailable" \in SendSteps
    BY <1>6 DEF Assistant!Unavailable, SendSteps
  <2>2. Moves(s, {"call"}, "unavailable", sends[s].history, sends[s].tokens)
    BY <1>0, <1>6, <2>1, StepMoves DEF Assistant!Unavailable
  <2>3. sends[s].tokens \in Nat
    BY <1>0 DEF SendRow
  <2> QED
    BY <1>6, <2>2, <2>3 DEF Assistant!Unavailable, CallFact
<1>7. ASSUME NEW s \in Calls, NEW tools \in BOOLEAN, Assistant!Respond(s, tools)
      PROVE  CallFact(s) /\ provider' = provider
  <2> DEFINE used == sends[s].tokens + (IF Assistant!CallsOut THEN 1 ELSE 0)
             more == [sends[s] EXCEPT !.rounds = @ + 1, !.tokens = used]
             last == [sends[s] EXCEPT !.step = "save", !.tokens = used]
  <2>1. used \in Nat /\ sends[s] \in SendRow
    BY <1>0 DEF SendRow
  <2>a. /\ sends[s].step \in {"call"}
        /\ sends' = IF tools /\ sends[s].rounds < MaxRounds
                    THEN [sends EXCEPT ![s].rounds = @ + 1, ![s].tokens = used]
                    ELSE [sends EXCEPT ![s].step = "save", ![s].tokens = used]
        /\ UNCHANGED <<provider, rows, cached, total, overlapped>>
    BY <1>7 DEF Assistant!Respond
  <2> HIDE DEF used
  <2>b. /\ [sends EXCEPT ![s].rounds = @ + 1, ![s].tokens = used] = [sends EXCEPT ![s] = more]
        /\ [sends EXCEPT ![s].step = "save", ![s].tokens = used] = [sends EXCEPT ![s] = last]
    OBVIOUS
  <2> HIDE DEF more, last
  <2>2. /\ sends[s].step \in {"call"}
        /\ \/ sends[s].rounds < MaxRounds /\ sends' = [sends EXCEPT ![s] = more]
           \/ sends' = [sends EXCEPT ![s] = last]
        /\ UNCHANGED <<provider, rows, cached, total, overlapped>>
    BY <2>a, <2>b
  <2> USE DEF more, last
  <2>3. /\ last \in SendRow /\ last.step = "save" /\ last.history = sends[s].history
        /\ last.tokens = used
    BY <2>1 DEF SendRow, SendSteps
  <2>4. sends[s].rounds < MaxRounds => more.rounds \in 0 .. MaxRounds
    BY <2>1, MessagingPartsAssumption DEF SendRow
  <2>5. sends[s].rounds < MaxRounds => more \in SendRow
    BY <2>1, <2>4 DEF SendRow
  <2>6. more.step = "call" /\ more.history = sends[s].history /\ more.tokens = used
    BY <2>1, <2>2 DEF SendRow
  <2> HIDE DEF more, last
  <2>7. \/ Moves(s, {"call"}, "call", sends[s].history, used)
        \/ Moves(s, {"call"}, "save", sends[s].history, used)
    <3>1. CASE sends[s].rounds < MaxRounds /\ sends' = [sends EXCEPT ![s] = more]
      <4>1. Moves(s, {"call"}, more.step, more.history, more.tokens)
        BY <1>0, <2>2, <2>5, <3>1, RowMakesMove
      <4> QED
        BY <2>6, <4>1
    <3>2. CASE sends' = [sends EXCEPT ![s] = last]
      <4>1. Moves(s, {"call"}, last.step, last.history, last.tokens)
        BY <1>0, <2>2, <2>3, <3>2, RowMakesMove
      <4> QED
        BY <2>3, <4>1
    <3> QED
      BY <2>2, <3>1, <3>2
  <2> QED
    BY <2>1, <2>2, <2>7 DEF CallFact
<1>8. ASSUME NEW s \in Calls, Assistant!Save(s)
      PROVE  SaveFact(s) /\ provider' = provider
  <2>1. sends[s].step \in {"save"} /\ "count" \in SendSteps
    BY <1>8 DEF Assistant!Save, SendSteps
  <2> QED
    BY <1>0, <1>8, <2>1, StepMoves DEF Assistant!Save, SaveFact
<1>9. ASSUME NEW s \in Calls, Assistant!Count(s)
      PROVE  CountFact(s) /\ provider' = provider
  <2>1. sends[s].step \in {"count"} /\ "remember" \in SendSteps
    BY <1>9 DEF Assistant!Count, SendSteps
  <2> QED
    BY <1>0, <1>9, <2>1, StepMoves DEF Assistant!Count, CountFact
<1>10. ASSUME NEW s \in Calls, Assistant!Remember(s)
       PROVE  RememberFact(s) /\ provider' = provider
  <2> DEFINE row == [Assistant!Idle EXCEPT !.step = "done", !.tokens = sends[s].tokens]
  <2>1. /\ sends[s].step \in {"remember"} /\ sends' = [sends EXCEPT ![s] = row]
        /\ cached' = Assistant!LatestTurns(sends[s].history
                        \o <<Assistant!Question(s), Assistant!Reply(s)>>)
        /\ UNCHANGED <<provider, rows, total, overlapped>>
    BY <1>10 DEF Assistant!Remember
  <2>2. row \in SendRow /\ row.step = "done" /\ row.history = <<>> /\ row.tokens = sends[s].tokens
    <3>1. sends[s].tokens \in Nat
      BY <1>0 DEF SendRow
    <3>2. row.step = "done" /\ row.history = <<>> /\ row.tokens = sends[s].tokens
      BY IdleFacts DEF SendRow
    <3>3. row \in SendRow
      BY <3>1, IdleFacts DEF SendRow, SendSteps
    <3> QED
      BY <3>2, <3>3
  <2> HIDE DEF row
  <2>3. Moves(s, {"remember"}, row.step, row.history, row.tokens)
    BY <1>0, <2>1, <2>2, RowMakesMove
  <2> QED
    BY <2>1, <2>2, <2>3 DEF RememberFact
<1>11. ASSUME NEW s \in Calls, Assistant!Die(s)
       PROVE  DieFact(s) /\ provider' = provider
  <2>1. sends[s].step \in SendSteps \ Assistant!Ended /\ "dead" \in SendSteps
    BY <1>0, <1>11 DEF Assistant!Die, Assistant!Working, SendSteps, SendRow
  <2> QED
    BY <1>0, <1>11, <2>1, StepMoves DEF Assistant!Die, DieFact
<1>12. Assistant!Expire => RestFact /\ provider' = provider
  BY DEF Assistant!Expire, RestFact
<1>13. UNCHANGED <<asking, overlapped>> => RestFact /\ provider' = provider
  BY DEF asking, RestFact
<1> QED
  BY <1>0, <1>1, <1>2, <1>3, <1>4, <1>5, <1>6, <1>7, <1>8, <1>9, <1>10, <1>11, <1>12, <1>13
     DEF Assistant!Next
-----------------------------------------------------------------------------
(* Rows and sessions grow at their ends.                                   *)
LEMMA AppendNew ==
    ASSUME NEW r \in Seq(Assistant!Turns), \A a, b \in DOMAIN r : r[a] = r[b] => a = b,
           NEW x \in Assistant!Turns, ~Holds(r, x)
    PROVE  /\ Append(r, x) \in Seq(Assistant!Turns)
           /\ \A a, b \in DOMAIN Append(r, x) :
                 Append(r, x)[a] = Append(r, x)[b] => a = b
           /\ Len(Append(r, x)) = Len(r) + 1
           /\ \A a \in DOMAIN r : a \in DOMAIN Append(r, x) /\ Append(r, x)[a] = r[a]
           /\ Append(r, x)[Len(r) + 1] = x
           /\ \A a \in DOMAIN Append(r, x) : a \in DOMAIN r \/ a = Len(r) + 1
           /\ \A y : Holds(Append(r, x), y) <=> Holds(r, y) \/ y = x
<1> DEFINE g == Append(r, x)
<1>1. /\ g \in Seq(Assistant!Turns) /\ Len(g) = Len(r) + 1
      /\ \A a \in DOMAIN r : a \in DOMAIN g /\ g[a] = r[a]
      /\ g[Len(r) + 1] = x /\ Len(r) + 1 \in DOMAIN g
      /\ \A a \in DOMAIN g : a \in DOMAIN r \/ a = Len(r) + 1
  OBVIOUS
<1> HIDE DEF g
<1>2. \A a \in DOMAIN r : g[a] # x
  BY <1>1 DEF Holds
<1>3. \A a, b \in DOMAIN g : g[a] = g[b] => a = b
  BY <1>1, <1>2
<1>4. \A y : Holds(g, y) <=> Holds(r, y) \/ y = x
  BY <1>1 DEF Holds
<1> QED
  BY <1>1, <1>3, <1>4 DEF g

LEMMA SessionGrows ==
    ASSUME NEW h, NEW r, NEW q, NEW D, NEW E, Session(h, r, D), D \subseteq E,
           \A y : Holds(r, y) => Holds(q, y)
    PROVE  Session(h, q, E)
BY DEF Session

LEMMA OrderGrows ==
    ASSUME NEW r \in Seq(Assistant!Turns), \A a, b \in DOMAIN r : r[a] = r[b] => a = b,
           NEW x \in Assistant!Turns, ~Holds(r, x),
           NEW h, \A i \in DOMAIN h : Holds(r, h[i]), Ordered(h, r)
    PROVE  Ordered(h, Append(r, x))
<1> DEFINE g == Append(r, x)
<1>1. /\ \A a \in DOMAIN r : a \in DOMAIN g /\ g[a] = r[a]
      /\ \A a \in DOMAIN g : a \in DOMAIN r \/ g[a] = x
  BY AppendNew
<1> HIDE DEF g
<1>2. \A i \in DOMAIN h : h[i] # x
  BY DEF Holds
<1>3. ASSUME NEW i \in DOMAIN h, NEW j \in DOMAIN h, NEW a \in DOMAIN g, NEW b \in DOMAIN g,
             i < j, g[a] = h[i], g[b] = h[j]
      PROVE  a <= b
  <2>1. a \in DOMAIN r /\ b \in DOMAIN r /\ r[a] = h[i] /\ r[b] = h[j]
    BY <1>1, <1>2, <1>3
  <2> QED
    BY <1>3, <2>1 DEF Ordered
<1>4. Ordered(h, g)
  BY <1>3 DEF Ordered
<1> QED
  BY <1>4 DEF g

LEMMA FreshGrows ==
    ASSUME NEW r \in Seq(Assistant!Turns), \A a, b \in DOMAIN r : r[a] = r[b] => a = b,
           NEW x \in Assistant!Turns, ~Holds(r, x), x.role # "assistant",
           NEW h, Fresh(h, r)
    PROVE  Fresh(h, Append(r, x))
<1> DEFINE g == Append(r, x)
<1>1. /\ \A a \in DOMAIN r : a \in DOMAIN g /\ g[a] = r[a]
      /\ \A a \in DOMAIN g : a \in DOMAIN r \/ g[a] = x
  BY AppendNew
<1> HIDE DEF g
<1>2. \A b : Latest(r, b) => Latest(g, b)
  BY <1>1 DEF Latest
<1>3. Fresh(h, g)
  <2> SUFFICES ASSUME NEW i \in DOMAIN h, h[i].role = "assistant"
               PROVE  \E j \in DOMAIN h, b \in DOMAIN g : i <= j /\ h[j] = g[b] /\ Latest(g, b)
    BY DEF Fresh
  <2>1. PICK j \in DOMAIN h, b \in DOMAIN r : i <= j /\ h[j] = r[b] /\ Latest(r, b)
    BY DEF Fresh
  <2> QED
    BY <1>1, <1>2, <2>1
<1> QED
  BY <1>3 DEF g

LEMMA TwoMore ==
    ASSUME NEW T, NEW h \in Seq(T), NEW q \in T, NEW a \in T
    PROVE  /\ h \o <<q, a>> \in Seq(T) /\ Len(h \o <<q, a>>) = Len(h) + 2
           /\ Len(h) \in Nat
           /\ DOMAIN h = 1 .. Len(h) /\ DOMAIN (h \o <<q, a>>) = 1 .. Len(h) + 2
           /\ \A i \in DOMAIN h : (h \o <<q, a>>)[i] = h[i]
           /\ (h \o <<q, a>>)[Len(h) + 1] = q /\ (h \o <<q, a>>)[Len(h) + 2] = a
<1> DEFINE g == h \o <<q, a>>
<1>1. <<q, a>> \in Seq(T) /\ Len(<<q, a>>) = 2
      /\ <<q, a>>[1] = q /\ <<q, a>>[2] = a
  OBVIOUS
<1>2. Len(h) \in Nat /\ DOMAIN h = 1 .. Len(h)
  OBVIOUS
<1>3. /\ g \in Seq(T) /\ Len(g) = Len(h) + 2
      /\ \A i \in 1 .. Len(h) + 2 : g[i] = IF i <= Len(h) THEN h[i] ELSE <<q, a>>[i - Len(h)]
  BY <1>1, ConcatProperties
<1>4. DOMAIN g = 1 .. Len(h) + 2
  BY <1>3
<1>5. \A i \in DOMAIN h : g[i] = h[i]
  BY <1>2, <1>3
<1>6. g[Len(h) + 1] = q
  <2>1. Len(h) + 1 \in 1 .. Len(h) + 2 /\ ~(Len(h) + 1 <= Len(h)) /\ Len(h) + 1 - Len(h) = 1
    BY <1>2
  <2> QED
    BY <1>1, <1>3, <2>1
<1>7. g[Len(h) + 2] = a
  <2>1. Len(h) + 2 \in 1 .. Len(h) + 2 /\ ~(Len(h) + 2 <= Len(h)) /\ Len(h) + 2 - Len(h) = 2
    BY <1>2
  <2> QED
    BY <1>1, <1>3, <2>1
<1> QED
  BY <1>2, <1>3, <1>4, <1>5, <1>6, <1>7

(* What remember adds to a history.                                        *)
LEMMA LongerSession ==
    ASSUME NEW s \in Calls, NEW r \in Seq(Assistant!Turns), NEW D, NEW E,
           NEW h, Session(h, r, D), s \notin D, E = D \cup {s},
           ~Holds(h, Assistant!Reply(s)),
           Holds(r, Assistant!Question(s)), Holds(r, Assistant!Reply(s))
    PROVE  Session(h \o <<Assistant!Question(s), Assistant!Reply(s)>>, r, E)
<1> DEFINE q == Assistant!Question(s)
           a == Assistant!Reply(s)
           g == h \o <<q, a>>
<1>0. h \in Seq(Assistant!Turns) /\ q \in Assistant!Turns /\ a \in Assistant!Turns
  BY TurnFacts DEF Session
<1> HIDE DEF q, a
<1>1. /\ g \in Seq(Assistant!Turns) /\ Len(g) = Len(h) + 2 /\ Len(h) \in Nat
      /\ DOMAIN h = 1 .. Len(h) /\ DOMAIN g = 1 .. Len(h) + 2
      /\ \A i \in DOMAIN h : g[i] = h[i]
      /\ g[Len(h) + 1] = q /\ g[Len(h) + 2] = a
  BY <1>0, TwoMore
<1> HIDE DEF g
<1>2. \A i \in DOMAIN g : i \in DOMAIN h \/ i = Len(h) + 1 \/ i = Len(h) + 2
  BY <1>1
<1>3. \A i \in DOMAIN g : Holds(r, g[i])
  BY <1>1, <1>2 DEF Session, q, a
<1>4. q # a /\ ~Holds(h, a) /\ Once(q, h)
  BY TurnFacts DEF q, a, Session
<1>5. \A x : x # q /\ x # a => (Once(x, h) => Once(x, g)) /\ (Twice(x, h) => Twice(x, g))
  <2>1. SUFFICES ASSUME NEW x, x # q, x # a
                 PROVE  (Once(x, h) => Once(x, g)) /\ (Twice(x, h) => Twice(x, g))
    OBVIOUS
  <2>2. \A i \in DOMAIN g : g[i] = x => i \in DOMAIN h /\ h[i] = x
    BY <1>1, <1>2, <2>1
  <2>3. Once(x, h) => Once(x, g)
    BY <2>2 DEF Once
  <2>4. Twice(x, h) => Twice(x, g)
    BY <2>2 DEF Twice
  <2> QED
    BY <2>3, <2>4
<1>6. Once(a, g)
  <2>1. \A i \in DOMAIN g : g[i] = a => i = Len(h) + 2
    BY <1>1, <1>2, <1>4 DEF Holds
  <2> QED
    BY <2>1 DEF Once
<1>7. Twice(q, g)
  <2>1. \A i \in DOMAIN g : g[i] = q => (i \in DOMAIN h /\ h[i] = q) \/ i = Len(h) + 1
    BY <1>1, <1>2, <1>4
  <2>2. \A i, j \in DOMAIN h : h[i] = q /\ h[j] = q => i = j
    BY <1>4 DEF Once
  <2> QED
    BY <2>1, <2>2 DEF Twice
<1>8. ASSUME NEW t \in Calls
      PROVE  /\ Once(Assistant!Reply(t), g)
             /\ Twice(Assistant!Question(t), g)
             /\ t \notin E => Once(Assistant!Question(t), g)
  <2>1. CASE t = s
    BY <1>6, <1>7, <2>1 DEF q, a
  <2>2. CASE t # s
    <3>1. /\ Assistant!Reply(t) # q /\ Assistant!Reply(t) # a
          /\ Assistant!Question(t) # q /\ Assistant!Question(t) # a
      BY <2>2, TurnFacts DEF q, a
    <3>2. /\ Once(Assistant!Reply(t), h) /\ Twice(Assistant!Question(t), h)
          /\ t \notin D => Once(Assistant!Question(t), h)
      BY DEF Session
    <3> QED
      BY <1>5, <2>2, <3>1, <3>2
  <2> QED
    BY <2>1, <2>2
<1>9. Session(g, r, E)
  BY <1>1, <1>3, <1>8 DEF Session
<1> QED
  BY <1>9 DEF g, q, a

(* When question and answer are the last two rows.                         *)
LEMMA LongerInOrder ==
    ASSUME NEW s \in Calls, NEW r \in Seq(Assistant!Turns),
           \A a, b \in DOMAIN r : r[a] = r[b] => a = b,
           Len(r) >= 2, r[Len(r) - 1] = Assistant!Question(s), r[Len(r)] = Assistant!Reply(s),
           NEW h \in Seq(Assistant!Turns), ~Holds(h, Assistant!Reply(s)), Ordered(h, r)
    PROVE  /\ Ordered(h \o <<Assistant!Question(s), Assistant!Reply(s)>>, r)
           /\ Fresh(h \o <<Assistant!Question(s), Assistant!Reply(s)>>, r)
<1> DEFINE q == Assistant!Question(s)
           a == Assistant!Reply(s)
           g == h \o <<q, a>>
           n == Len(h)
           m == Len(r)
<1>0. q \in Assistant!Turns /\ a \in Assistant!Turns /\ q # a /\ a.role = "assistant"
  BY TurnFacts
<1>r. /\ r[m - 1] = q /\ r[m] = a /\ m \in Nat /\ m >= 2 /\ DOMAIN r = 1 .. m
      /\ ~Holds(h, a)
  OBVIOUS
<1> HIDE DEF q, a
<1>1. /\ n \in Nat /\ DOMAIN h = 1 .. n /\ DOMAIN g = 1 .. n + 2
      /\ \A i \in DOMAIN h : g[i] = h[i]
      /\ g[n + 1] = q /\ g[n + 2] = a
  BY <1>0, TwoMore
<1>2. Ordered(h, r)
  OBVIOUS
<1>3. \A b, c \in DOMAIN r : r[b] = r[c] => b = c
  OBVIOUS
<1> HIDE DEF g, n, m
<1>4. \A i \in DOMAIN g : i \in DOMAIN h \/ i = n + 1 \/ i = n + 2
  BY <1>1
<1>5. m - 1 \in DOMAIN r /\ m \in DOMAIN r
  BY <1>r
<1>6. Ordered(g, r)
  <2> SUFFICES ASSUME NEW i \in DOMAIN g, NEW j \in DOMAIN g,
                      NEW b \in DOMAIN r, NEW c \in DOMAIN r,
                      i < j, r[b] = g[i], r[c] = g[j]
               PROVE  b <= c
    BY DEF Ordered
  <2>1. CASE j = n + 2
    <3>1. c = m
      BY <1>r, <1>1, <1>3, <1>5, <2>1
    <3> QED
      BY <1>r, <3>1
  <2>2. CASE j = n + 1
    <3>1. c = m - 1
      BY <1>r, <1>1, <1>3, <1>5, <2>2
    <3>2. i \in DOMAIN h /\ g[i] = h[i]
      BY <1>1, <1>4, <2>2
    <3>3. g[i] # a
      BY <1>r, <3>2 DEF Holds
    <3>4. b # m
      BY <1>r, <3>3
    <3> QED
      BY <1>r, <3>1, <3>4
  <2>3. CASE j \in DOMAIN h
    <3>1. i \in DOMAIN h /\ g[i] = h[i] /\ g[j] = h[j]
      BY <1>1, <1>4, <2>3
    <3> QED
      BY <1>2, <2>3, <3>1 DEF Ordered
  <2> QED
    BY <1>4, <2>1, <2>2, <2>3
<1>7. Fresh(g, r)
  <2>1. Latest(r, m)
    BY <1>0, <1>r, <1>5 DEF Latest
  <2>2. n + 2 \in DOMAIN g /\ g[n + 2] = r[m] /\ \A i \in DOMAIN g : i <= n + 2
    BY <1>r, <1>1
  <2> QED
    BY <1>5, <2>1, <2>2 DEF Fresh
<1> QED
  BY <1>6, <1>7 DEF g, q, a
-----------------------------------------------------------------------------
(* Each part of the invariant, for each kind of step.                      *)
SomeStep ==
    \/ RestFact
    \/ \E s \in Calls :
          \/ AskFact(s) \/ LookFact(s) \/ LoadFact(s) \/ FillFact(s)
          \/ CallFact(s) \/ SaveFact(s) \/ CountFact(s)
          \/ RememberFact(s) \/ DieFact(s)

(* A send that writes a row writes one that is not there yet.              *)
LEMMA WrittenRow ==
    ASSUME AskingInv, NEW s \in Calls, AskFact(s) \/ SaveFact(s)
    PROVE  \E x \in Assistant!Turns :
              /\ rows' = Append(rows, x) /\ ~Holds(rows, x)
              /\ AskFact(s) => x = Assistant!Question(s)
              /\ SaveFact(s) => x = Assistant!Reply(s)
<1>1. CASE AskFact(s)
  <2>1. sends[s].step = "idle" /\ rows' = Append(rows, Assistant!Question(s))
    BY <1>1 DEF AskFact, Moves
  <2>2. ~Holds(rows, Assistant!Question(s))
    BY <2>1 DEF AskingInv, RowsInv
  <2>3. ~SaveFact(s)
    BY <2>1 DEF SaveFact, Moves
  <2> QED
    BY <2>1, <2>2, <2>3, TurnFacts
<1>2. CASE SaveFact(s)
  <2>1. sends[s].step = "save" /\ rows' = Append(rows, Assistant!Reply(s))
    BY <1>2 DEF SaveFact, Moves
  <2>2. ~Holds(rows, Assistant!Reply(s))
    BY <2>1 DEF AskingInv, RowsInv
  <2>3. ~AskFact(s)
    BY <2>1 DEF AskFact, Moves
  <2> QED
    BY <2>1, <2>2, <2>3, TurnFacts
<1> QED
  BY <1>1, <1>2

LEMMA RowsGrow ==
    ASSUME AskingInv, SomeStep
    PROVE  /\ rows' \in Seq(Assistant!Turns)
           /\ \A a, b \in DOMAIN rows' : rows'[a] = rows'[b] => a = b
           /\ \A y : Holds(rows, y) => Holds(rows', y)
<1>0. rows \in Seq(Assistant!Turns) /\ \A a, b \in DOMAIN rows : rows[a] = rows[b] => a = b
  BY DEF AskingInv, AskTypes
<1>1. ASSUME NEW s \in Calls, AskFact(s) \/ SaveFact(s)
      PROVE  /\ rows' \in Seq(Assistant!Turns)
             /\ \A a, b \in DOMAIN rows' : rows'[a] = rows'[b] => a = b
             /\ \A y : Holds(rows, y) => Holds(rows', y)
  <2>1. PICK x \in Assistant!Turns : rows' = Append(rows, x) /\ ~Holds(rows, x)
    BY <1>1, WrittenRow
  <2> QED
    BY <1>0, <2>1, AppendNew
<1>2. rows' = rows \/ \E s \in Calls : AskFact(s) \/ SaveFact(s)
  BY DEF SomeStep, RestFact, LookFact, LoadFact, FillFact, CallFact, CountFact,
         RememberFact, DieFact
<1>3. CASE rows' = rows
  BY <1>0, <1>3
<1> QED
  BY <1>1, <1>2, <1>3

LEMMA AskTypesStep ==
    ASSUME AskingInv, SomeStep, provider' \in (Modes \ {"disabled"}) \cup {"none"}
    PROVE  AskTypes'
<1>1. sends \in [Calls -> SendRow] /\ total \in Nat
      /\ \A s \in Calls : sends[s].tokens \in Nat
  BY DEF AskingInv, AskTypes, SendRow
<1>2. sends' \in [Calls -> SendRow]
  BY <1>1 DEF SomeStep, RestFact, AskFact, LookFact, LoadFact, FillFact, CallFact,
              SaveFact, CountFact, RememberFact, DieFact, Moves
<1>3. total' = total \/ \E s \in Calls : total' = total + sends[s].tokens
  BY DEF SomeStep, RestFact, AskFact, LookFact, LoadFact, FillFact, CallFact,
         SaveFact, CountFact, RememberFact, DieFact
<1>4. total' \in Nat
  BY <1>1, <1>3
<1> QED
  BY <1>2, <1>4, RowsGrow DEF AskTypes

(* Rows and steps of the sends.                                            *)
LEMMA RowsInvStep ==
    ASSUME AskingInv, SomeStep
    PROVE  RowsInv'
<1>0. RowsInv /\ rows \in Seq(Assistant!Turns)
      /\ \A a, b \in DOMAIN rows : rows[a] = rows[b] => a = b
  BY DEF AskingInv, AskTypes
<1>1. ASSUME NEW s \in Calls, AskFact(s)
      PROVE  RowsInv'
  <2>1. /\ sends[s].step = "idle" /\ sends'[s].step = "look"
        /\ \A t \in Calls \ {s} : sends'[t] = sends[t]
    BY <1>1 DEF AskFact, Moves
  <2>2. PICK x \in Assistant!Turns :
           rows' = Append(rows, x) /\ ~Holds(rows, x) /\ x = Assistant!Question(s)
    BY <1>1, WrittenRow
  <2>3. \A y : Holds(rows', y) <=> Holds(rows, y) \/ y = Assistant!Question(s)
    BY <1>0, <2>2, AppendNew
  <2>4. \A t \in Calls : /\ Assistant!Reply(t) # Assistant!Question(s)
                         /\ t # s => Assistant!Question(t) # Assistant!Question(s)
    BY TurnFacts
  <2>5. ASSUME NEW t \in Calls
        PROVE  /\ Holds(rows', Assistant!Question(t)) <=> sends'[t].step # "idle"
               /\ Holds(rows', Assistant!Reply(t)) =>
                     sends'[t].step \in {"count", "remember", "done", "dead"}
               /\ sends'[t].step \in {"count", "remember", "done"} =>
                     Holds(rows', Assistant!Reply(t))
    <3>1. CASE t = s
      BY <1>0, <2>1, <2>3, <2>4, <3>1 DEF RowsInv
    <3>2. CASE t # s
      BY <1>0, <2>1, <2>3, <2>4, <3>2 DEF RowsInv
    <3> QED
      BY <3>1, <3>2
  <2> QED
    BY <2>5 DEF RowsInv
<1>2. ASSUME NEW s \in Calls, SaveFact(s)
      PROVE  RowsInv'
  <2>1. /\ sends[s].step = "save" /\ sends'[s].step = "count"
        /\ \A t \in Calls \ {s} : sends'[t] = sends[t]
    BY <1>2 DEF SaveFact, Moves
  <2>2. PICK x \in Assistant!Turns :
           rows' = Append(rows, x) /\ ~Holds(rows, x) /\ x = Assistant!Reply(s)
    BY <1>2, WrittenRow
  <2>3. \A y : Holds(rows', y) <=> Holds(rows, y) \/ y = Assistant!Reply(s)
    BY <1>0, <2>2, AppendNew
  <2>4. \A t \in Calls : /\ Assistant!Question(t) # Assistant!Reply(s)
                         /\ t # s => Assistant!Reply(t) # Assistant!Reply(s)
    BY TurnFacts
  <2>5. ASSUME NEW t \in Calls
        PROVE  /\ Holds(rows', Assistant!Question(t)) <=> sends'[t].step # "idle"
               /\ Holds(rows', Assistant!Reply(t)) =>
                     sends'[t].step \in {"count", "remember", "done", "dead"}
               /\ sends'[t].step \in {"count", "remember", "done"} =>
                     Holds(rows', Assistant!Reply(t))
    <3>1. CASE t = s
      BY <1>0, <2>1, <2>3, <2>4, <3>1 DEF RowsInv
    <3>2. CASE t # s
      BY <1>0, <2>1, <2>3, <2>4, <3>2 DEF RowsInv
    <3> QED
      BY <3>1, <3>2
  <2> QED
    BY <2>5 DEF RowsInv
<1>3. ASSUME NEW s \in Calls, rows' = rows,
             \A t \in Calls \ {s} : sends'[t] = sends[t],
             sends[s].step # "idle", sends'[s].step # "idle",
             \/ /\ sends[s].step \in {"count", "remember"}
                /\ sends'[s].step \in {"remember", "done", "dead"}
             \/ /\ sends[s].step \in {"look", "load", "fill", "call", "save"}
                /\ sends'[s].step \notin {"count", "remember", "done"}
      PROVE  RowsInv'
  <2>1. ASSUME NEW t \in Calls
        PROVE  /\ Holds(rows, Assistant!Question(t)) <=> sends'[t].step # "idle"
               /\ Holds(rows, Assistant!Reply(t)) =>
                     sends'[t].step \in {"count", "remember", "done", "dead"}
               /\ sends'[t].step \in {"count", "remember", "done"} =>
                     Holds(rows, Assistant!Reply(t))
    <3>1. CASE t = s
      BY <1>0, <1>3, <3>1 DEF RowsInv
    <3>2. CASE t # s
      BY <1>0, <1>3, <3>2 DEF RowsInv
    <3> QED
      BY <3>1, <3>2
  <2> QED
    BY <1>3, <2>1 DEF RowsInv
<1>4. ASSUME NEW s \in Calls, LookFact(s) \/ LoadFact(s) \/ FillFact(s) \/ CallFact(s)
                                 \/ CountFact(s) \/ RememberFact(s)
      PROVE  RowsInv'
  BY <1>3, <1>4 DEF LookFact, LoadFact, FillFact, CallFact, CountFact, RememberFact, Moves
<1>5. ASSUME NEW s \in Calls, DieFact(s) PROVE RowsInv'
  <2>1. /\ sends[s].step \in {"look", "load", "fill", "call", "save", "count", "remember"}
        /\ sends'[s].step = "dead" /\ rows' = rows
        /\ \A t \in Calls \ {s} : sends'[t] = sends[t]
    BY <1>5 DEF DieFact, Moves, SendSteps, Assistant!Ended
  <2> QED
    BY <1>3, <2>1
<1>6. RestFact => RowsInv'
  BY <1>0 DEF RestFact, RowsInv
<1> QED
  BY <1>1, <1>2, <1>4, <1>5, <1>6 DEF SomeStep

(* Sessions.                                                               *)
LEMMA SessionsKept ==
    ASSUME AskingInv, SomeStep, NEW s \in Calls, NEW from, NEW to, NEW h, NEW n,
           Moves(s, from, to, h, n), "done" \notin from,
           Session(h, rows, Done'), ~Holds(h, Assistant!Reply(s)),
           cached' # Assistant!Nothing =>
              \/ cached' = cached
              \/ Session(cached', rows, Done') /\ Len(cached') <= SessionSize
    PROVE  SessionInv'
<1>1. SessionInv /\ \A y : Holds(rows, y) => Holds(rows', y)
  BY RowsGrow DEF AskingInv
<1>2. Done \subseteq Done'
  BY DEF Moves, Done
<1>3. cached' # Assistant!Nothing => Session(cached', rows', Done') /\ Len(cached') <= SessionSize
  BY <1>1, <1>2, SessionGrows DEF SessionInv
<1>4. ASSUME NEW t \in Calls
      PROVE  /\ Session(sends'[t].history, rows', Done')
             /\ ~Holds(sends'[t].history, Assistant!Reply(t))
  <2>1. CASE t = s
    <3>1. sends'[t].history = h
      BY <2>1 DEF Moves
    <3> QED
      BY <1>1, <2>1, <3>1, SessionGrows
  <2>2. CASE t # s
    <3>1. sends'[t].history = sends[t].history
      BY <2>2 DEF Moves
    <3> QED
      BY <1>1, <1>2, <3>1, SessionGrows DEF SessionInv
  <2> QED
    BY <2>1, <2>2
<1> QED
  BY <1>3, <1>4 DEF SessionInv

LEMMA SessionStep ==
    ASSUME AskingInv, SomeStep
    PROVE  SessionInv'
<1>0. /\ SessionInv /\ RowsInv /\ rows \in Seq(Assistant!Turns)
      /\ \A a, b \in DOMAIN rows : rows[a] = rows[b] => a = b
  BY DEF AskingInv, AskTypes
<1>1. ASSUME NEW s \in Calls, NEW from, NEW to, NEW n,
             Moves(s, from, to, sends[s].history, n), "done" \notin from
      PROVE  /\ Session(sends[s].history, rows, Done')
             /\ ~Holds(sends[s].history, Assistant!Reply(s))
  <2>1. Done \subseteq Done'
    BY <1>1 DEF Moves, Done
  <2> QED
    BY <1>0, <2>1, SessionGrows DEF SessionInv
<1>2. ASSUME NEW s \in Calls, AskFact(s) \/ SaveFact(s) \/ CountFact(s) \/ CallFact(s)
      PROVE  SessionInv'
  <2>1. PICK from \in {{"idle"}, {"save"}, {"count"}, {"call"}},
             to \in SendSteps, n \in Nat :
           Moves(s, from, to, sends[s].history, n)
    <3>1. sends[s].tokens \in Nat
      BY DEF AskingInv, AskTypes, SendRow
    <3> QED
      BY <1>2, <3>1 DEF AskFact, SaveFact, CountFact, CallFact, SendSteps
  <2>2. "done" \notin from /\ cached' = cached
    BY <1>2, <2>1 DEF AskFact, SaveFact, CountFact, CallFact
  <2> QED
    BY <1>1, <2>1, <2>2, SessionsKept
<1>3. ASSUME NEW s \in Calls, DieFact(s) PROVE SessionInv'
  <2>1. /\ Moves(s, SendSteps \ Assistant!Ended, "dead", sends[s].history, sends[s].tokens)
        /\ "done" \notin SendSteps \ Assistant!Ended /\ cached' = cached
    BY <1>3 DEF DieFact, Assistant!Ended
  <2> QED
    BY <1>1, <2>1, SessionsKept
<1>4. ASSUME NEW s \in Calls, LookFact(s) PROVE SessionInv'
  <2>1. CASE Moves(s, {"look"}, "load", sends[s].history, sends[s].tokens)
    <3>1. "done" \notin {"look"} /\ cached' = cached
      BY <1>4 DEF LookFact
    <3> QED
      BY <1>1, <2>1, <3>1, SessionsKept
  <2>2. CASE cached # Assistant!Nothing /\ Moves(s, {"look"}, "call", cached, sends[s].tokens)
    <3>1. "done" \notin {"look"} /\ cached' = cached /\ sends[s].step = "look"
      BY <1>4, <2>2 DEF LookFact, Moves
    <3>2. Session(cached, rows, Done) /\ Done \subseteq Done'
      BY <1>0, <2>2 DEF SessionInv, Moves, Done
    <3>3. ~Holds(rows, Assistant!Reply(s))
      BY <1>0, <3>1 DEF RowsInv
    <3>4. ~Holds(cached, Assistant!Reply(s))
      BY <3>2, <3>3 DEF Session, Holds
    <3>5. Session(cached, rows, Done')
      BY <3>2, SessionGrows
    <3> QED
      BY <2>2, <3>1, <3>4, <3>5, SessionsKept
  <2> QED
    BY <1>4, <2>1, <2>2 DEF LookFact
<1>5. ASSUME NEW s \in Calls, LoadFact(s) PROVE SessionInv'
  <2> DEFINE h == Assistant!LatestTurns(rows)
  <2>1. Moves(s, {"load"}, "fill", h, sends[s].tokens) /\ cached' = cached
        /\ sends[s].step = "load" /\ "done" \notin {"load"}
    BY <1>5 DEF LoadFact, Moves
  <2>2. Session(h, rows, Done')
    BY <1>0, RowsAreASession, EndOfSession
  <2>3. ~Holds(rows, Assistant!Reply(s))
    BY <1>0, <2>1 DEF RowsInv
  <2> HIDE DEF h
  <2>4. ~Holds(h, Assistant!Reply(s))
    BY <2>2, <2>3 DEF Session, Holds
  <2> QED
    BY <2>1, <2>2, <2>4, SessionsKept
<1>6. ASSUME NEW s \in Calls, FillFact(s) PROVE SessionInv'
  <2>1. /\ Moves(s, {"fill"}, "call", sends[s].history, sends[s].tokens)
        /\ cached' = Assistant!LatestTurns(sends[s].history) /\ "done" \notin {"fill"}
    BY <1>6 DEF FillFact
  <2>2. Session(sends[s].history, rows, Done') /\ ~Holds(sends[s].history, Assistant!Reply(s))
    BY <1>1, <2>1
  <2>3. Session(cached', rows, Done') /\ Len(cached') <= SessionSize
    BY <1>0, <2>1, <2>2, EndOfSession
  <2> QED
    BY <2>1, <2>2, <2>3, SessionsKept
<1>7. ASSUME NEW s \in Calls, RememberFact(s) PROVE SessionInv'
  <2> DEFINE h == sends[s].history \o <<Assistant!Question(s), Assistant!Reply(s)>>
  <2>1. /\ Moves(s, {"remember"}, "done", <<>>, sends[s].tokens)
        /\ cached' = Assistant!LatestTurns(h) /\ "done" \notin {"remember"}
        /\ sends[s].step = "remember"
    BY <1>7 DEF RememberFact, Moves
  <2>2. s \notin Done /\ Done' = Done \cup {s}
    BY <2>1 DEF Done, Moves
  <2>3. Holds(rows, Assistant!Question(s)) /\ Holds(rows, Assistant!Reply(s))
    BY <1>0, <2>1 DEF RowsInv
  <2>4. Session(sends[s].history, rows, Done) /\ ~Holds(sends[s].history, Assistant!Reply(s))
    BY <1>0 DEF SessionInv
  <2>5. Session(h, rows, Done')
    BY <1>0, <2>2, <2>3, <2>4, LongerSession
  <2> HIDE DEF h
  <2>6. Session(cached', rows, Done') /\ Len(cached') <= SessionSize
    BY <1>0, <2>1, <2>5, EndOfSession
  <2>7. Session(<<>>, rows, Done') /\ ~Holds(<<>>, Assistant!Reply(s))
    BY DEF Session, Holds, Once, Twice
  <2> QED
    BY <2>1, <2>6, <2>7, SessionsKept
<1>8. RestFact => SessionInv'
  BY <1>0 DEF RestFact, SessionInv, Done
<1> QED
  BY <1>2, <1>3, <1>4, <1>5, <1>6, <1>7, <1>8 DEF SomeStep
(* Without overlap one send works at a time.                               *)
LEMMA WorkingFacts ==
    \A s \in Calls : s \in Assistant!Working <=>
        sends[s].step \notin {"idle", "done", "unavailable", "dead"}
BY DEF Assistant!Working, Assistant!Ended

LEMMA StepsOfSends ==
    ASSUME AskingInv, NEW s \in Calls
    PROVE  sends[s].step \in SendSteps /\ sends[s].history \in Seq(Assistant!Turns)
BY DEF AskingInv, AskTypes, SendRow

(* The send that moves is the only one that works.                         *)
LEMMA OnlyWorker ==
    ASSUME AskingInv, ~overlapped, NEW s \in Assistant!Working, NEW from, NEW to, NEW h, NEW n,
           Moves(s, from, to, h, n)
    PROVE  \A t \in Calls : t # s =>
              /\ sends[t].step \in {"idle", "done", "unavailable", "dead"}
              /\ sends'[t] = sends[t]
<1>1. s \in Calls
  BY DEF Assistant!Working
<1> QED
  BY <1>1, WorkingFacts DEF AskingInv, WorkerInv, Moves

LEMMA WorkerMoves ==
    ASSUME AskingInv, ~overlapped, NEW s \in Calls, NEW from, NEW to, NEW h, NEW n,
           Moves(s, from, to, h, n), rows' = rows,
           \/ /\ from \subseteq {"look", "load", "fill", "call"}
              /\ to \in {"load", "fill", "call", "save", "unavailable"}
           \/ /\ from \subseteq {"count", "remember"}
              /\ to \in {"remember", "done"}
           \/ from \subseteq SendSteps \ Assistant!Ended /\ to = "dead"
    PROVE  WorkerInv'
<1>1. s \in Assistant!Working
  BY WorkingFacts, StepsOfSends DEF Moves, Assistant!Ended
<1>2. \A t \in Calls : t # s =>
         /\ sends[t].step \in {"idle", "done", "unavailable", "dead"}
         /\ sends'[t] = sends[t]
  BY <1>1, OnlyWorker
<1>3. \A t \in Assistant!Working' : t = s
  BY <1>2 DEF Assistant!Working, Assistant!Ended
<1>4. /\ sends[s].step \in {"look", "load", "fill", "call", "save"} =>
            Len(rows) >= 1 /\ rows[Len(rows)] = Assistant!Question(s)
      /\ sends[s].step \in {"count", "remember"} =>
            /\ Len(rows) >= 2
            /\ rows[Len(rows) - 1] = Assistant!Question(s)
            /\ rows[Len(rows)] = Assistant!Reply(s)
  BY DEF AskingInv, WorkerInv
<1>5. sends[s].step \in from /\ sends'[s].step = to
  BY DEF Moves
<1>6. ASSUME NEW t \in Calls
      PROVE  /\ sends'[t].step \in {"look", "load", "fill", "call", "save"} =>
                    Len(rows) >= 1 /\ rows[Len(rows)] = Assistant!Question(t)
             /\ sends'[t].step \in {"count", "remember"} =>
                    /\ Len(rows) >= 2
                    /\ rows[Len(rows) - 1] = Assistant!Question(t)
                    /\ rows[Len(rows)] = Assistant!Reply(t)
  <2>1. CASE t = s
    BY <1>4, <1>5, <2>1
  <2>2. CASE t # s
    BY <1>2, <2>2
  <2> QED
    BY <2>1, <2>2
<1> QED
  BY <1>3, <1>6 DEF WorkerInv

LEMMA WorkerStep ==
    ASSUME AskingInv, SomeStep
    PROVE  WorkerInv'
<1> SUFFICES ASSUME ~overlapped' PROVE WorkerInv'
  BY DEF WorkerInv
<1>0. /\ WorkerInv /\ rows \in Seq(Assistant!Turns)
      /\ \A a, b \in DOMAIN rows : rows[a] = rows[b] => a = b
  BY DEF AskingInv, AskTypes
<1>1. ASSUME NEW s \in Calls, AskFact(s) PROVE WorkerInv'
  <2>1. ~overlapped /\ Assistant!Working = {}
    BY <1>1 DEF AskFact
  <2>2. /\ sends'[s].step = "look" /\ \A t \in Calls \ {s} : sends'[t] = sends[t]
        /\ rows' = Append(rows, Assistant!Question(s))
    BY <1>1 DEF AskFact, Moves
  <2>3. \A t \in Calls : sends[t].step \in {"idle", "done", "unavailable", "dead"}
    BY <2>1, WorkingFacts
  <2>4. \A t \in Calls : t # s => sends'[t].step \in {"idle", "done", "unavailable", "dead"}
    BY <2>2, <2>3
  <2>5. Len(rows') >= 1 /\ rows'[Len(rows')] = Assistant!Question(s)
    BY <1>0, <2>2, TurnFacts
  <2>6. \A t \in Assistant!Working' : t = s
    BY <2>4 DEF Assistant!Working, Assistant!Ended
  <2> QED
    BY <2>2, <2>4, <2>5, <2>6 DEF WorkerInv
<1>2. ASSUME NEW s \in Calls, SaveFact(s) PROVE WorkerInv'
  <2>1. /\ ~overlapped /\ Moves(s, {"save"}, "count", sends[s].history, sends[s].tokens)
        /\ rows' = Append(rows, Assistant!Reply(s)) /\ sends[s].step = "save"
        /\ sends'[s].step = "count"
    BY <1>2 DEF SaveFact, Moves
  <2>2. s \in Assistant!Working
    BY <2>1, WorkingFacts
  <2>3. \A t \in Calls : t # s => sends'[t].step \in {"idle", "done", "unavailable", "dead"}
    BY <2>1, <2>2, OnlyWorker
  <2>4. Len(rows) >= 1 /\ rows[Len(rows)] = Assistant!Question(s)
    BY <1>0, <2>1 DEF WorkerInv
  <2>5. Len(rows') >= 2 /\ rows'[Len(rows')] = Assistant!Reply(s)
        /\ rows'[Len(rows') - 1] = Assistant!Question(s)
    BY <1>0, <2>1, <2>4, TurnFacts
  <2>6. \A t \in Assistant!Working' : t = s
    BY <2>3 DEF Assistant!Working, Assistant!Ended
  <2> QED
    BY <2>1, <2>3, <2>5, <2>6 DEF WorkerInv
<1>3. ASSUME NEW s \in Calls, LookFact(s) PROVE WorkerInv'
  <2>1. ~overlapped /\ rows' = rows
    BY <1>3 DEF LookFact
  <2>2. CASE Moves(s, {"look"}, "load", sends[s].history, sends[s].tokens)
    BY <2>1, <2>2, WorkerMoves
  <2>3. CASE Moves(s, {"look"}, "call", cached, sends[s].tokens)
    BY <2>1, <2>3, WorkerMoves
  <2> QED
    BY <1>3, <2>2, <2>3 DEF LookFact
<1>4. ASSUME NEW s \in Calls, LoadFact(s) PROVE WorkerInv'
  BY <1>4, WorkerMoves DEF LoadFact
<1>5. ASSUME NEW s \in Calls, FillFact(s) PROVE WorkerInv'
  BY <1>5, WorkerMoves DEF FillFact
<1>6. ASSUME NEW s \in Calls, CallFact(s) PROVE WorkerInv'
  <2>1. ~overlapped /\ rows' = rows
    BY <1>6 DEF CallFact
  <2>2. PICK to \in {"call", "save", "unavailable"}, n \in Nat :
           Moves(s, {"call"}, to, sends[s].history, n)
    BY <1>6 DEF CallFact
  <2> QED
    BY <2>1, <2>2, WorkerMoves
<1>7. ASSUME NEW s \in Calls, CountFact(s) PROVE WorkerInv'
  BY <1>7, WorkerMoves DEF CountFact
<1>8. ASSUME NEW s \in Calls, RememberFact(s) PROVE WorkerInv'
  BY <1>8, WorkerMoves DEF RememberFact
<1>9. ASSUME NEW s \in Calls, DieFact(s) PROVE WorkerInv'
  BY <1>9, WorkerMoves DEF DieFact
<1>10. RestFact => WorkerInv'
  BY <1>0 DEF RestFact, WorkerInv, Assistant!Working
<1> QED
  BY <1>1, <1>2, <1>3, <1>4, <1>5, <1>6, <1>7, <1>8, <1>9, <1>10 DEF SomeStep

-----------------------------------------------------------------------------
(* Sessions keep the order of the rows.                                    *)
LEMMA SessionsInRows ==
    ASSUME AskingInv
    PROVE  /\ cached # Assistant!Nothing =>
                 Session(cached, rows, Done) /\ \A i \in DOMAIN cached : Holds(rows, cached[i])
           /\ \A s \in Calls :
                 /\ Session(sends[s].history, rows, Done)
                 /\ sends[s].history \in Seq(Assistant!Turns)
                 /\ \A i \in DOMAIN sends[s].history : Holds(rows, sends[s].history[i])
BY DEF AskingInv, SessionInv, Session

LEMMA OrderKept ==
    ASSUME AskingInv, SomeStep, ~overlapped, NEW h, Ordered(h, rows),
           \A i \in DOMAIN h : Holds(rows, h[i])
    PROVE  Ordered(h, rows')
<1>0. /\ rows \in Seq(Assistant!Turns)
      /\ \A a, b \in DOMAIN rows : rows[a] = rows[b] => a = b
  BY DEF AskingInv, AskTypes
<1>1. ASSUME NEW s \in Calls, AskFact(s) \/ SaveFact(s)
      PROVE  Ordered(h, rows')
  <2>1. PICK x \in Assistant!Turns : rows' = Append(rows, x) /\ ~Holds(rows, x)
    BY <1>1, WrittenRow
  <2> QED
    BY <1>0, <2>1, OrderGrows
<1>2. rows' = rows \/ \E s \in Calls : AskFact(s) \/ SaveFact(s)
  BY DEF SomeStep, RestFact, LookFact, LoadFact, FillFact, CallFact, CountFact,
         RememberFact, DieFact
<1> QED
  BY <1>1, <1>2

LEMMA OrderMoves ==
    ASSUME AskingInv, SomeStep, ~overlapped, NEW s \in Calls, NEW from, NEW to, NEW h, NEW n,
           Moves(s, from, to, h, n), Ordered(h, rows), \A i \in DOMAIN h : Holds(rows, h[i]),
           cached' # Assistant!Nothing =>
              cached' = cached \/ (Ordered(cached', rows) /\ \A i \in DOMAIN cached' : Holds(rows, cached'[i]))
    PROVE  OrderInv'
<1>1. /\ cached # Assistant!Nothing => Ordered(cached, rows)
      /\ \A t \in Calls : Ordered(sends[t].history, rows)
  BY DEF AskingInv, OrderInv
<1>2. cached' # Assistant!Nothing => Ordered(cached', rows')
  BY <1>1, OrderKept, SessionsInRows
<1>3. \A t \in Calls : Ordered(sends'[t].history, rows')
  BY <1>1, OrderKept, SessionsInRows DEF Moves
<1> QED
  BY <1>2, <1>3 DEF OrderInv

LEMMA OrderStep ==
    ASSUME AskingInv, SomeStep
    PROVE  OrderInv'
<1> SUFFICES ASSUME ~overlapped' PROVE OrderInv'
  BY DEF OrderInv
<1>0. /\ WorkerInv /\ SessionInv /\ OrderInv /\ rows \in Seq(Assistant!Turns)
      /\ \A a, b \in DOMAIN rows : rows[a] = rows[b] => a = b
  BY DEF AskingInv, AskTypes
<1>a. ~overlapped
  BY DEF SomeStep, RestFact, AskFact, LookFact, LoadFact, FillFact, CallFact, SaveFact,
         CountFact, RememberFact, DieFact
<1>1. ASSUME NEW s \in Calls, NEW from, NEW to, NEW n,
             Moves(s, from, to, sends[s].history, n), cached' = cached
      PROVE  OrderInv'
  <2>1. Ordered(sends[s].history, rows) /\ \A i \in DOMAIN sends[s].history : Holds(rows, sends[s].history[i])
    BY <1>0, <1>a, SessionsInRows DEF OrderInv
  <2> QED
    BY <1>1, <1>a, <2>1, OrderMoves
<1>2. ASSUME NEW s \in Calls, AskFact(s) \/ SaveFact(s) \/ CountFact(s) \/ CallFact(s) \/ DieFact(s)
      PROVE  OrderInv'
  <2>1. \E from, to, n : Moves(s, from, to, sends[s].history, n)
    BY <1>2 DEF AskFact, SaveFact, CountFact, CallFact, DieFact
  <2>2. cached' = cached
    BY <1>2 DEF AskFact, SaveFact, CountFact, CallFact, DieFact
  <2> QED
    BY <1>1, <2>1, <2>2
<1>3. ASSUME NEW s \in Calls, LookFact(s) PROVE OrderInv'
  <2>1. CASE Moves(s, {"look"}, "load", sends[s].history, sends[s].tokens)
    BY <1>1, <1>3, <2>1 DEF LookFact
  <2>2. CASE cached # Assistant!Nothing /\ Moves(s, {"look"}, "call", cached, sends[s].tokens)
    <3>1. Ordered(cached, rows) /\ (\A i \in DOMAIN cached : Holds(rows, cached[i])) /\ cached' = cached
      BY <1>0, <1>3, <1>a, <2>2, SessionsInRows DEF OrderInv, LookFact
    <3> QED
      BY <1>a, <2>2, <3>1, OrderMoves
  <2> QED
    BY <1>3, <2>1, <2>2 DEF LookFact
<1>4. ASSUME NEW s \in Calls, LoadFact(s) PROVE OrderInv'
  <2> DEFINE h == Assistant!LatestTurns(rows)
  <2>1. Moves(s, {"load"}, "fill", h, sends[s].tokens) /\ cached' = cached
    BY <1>4 DEF LoadFact
  <2>2. Session(h, rows, Done) /\ Ordered(h, rows)
    BY <1>0, RowsAreASession, EndOfSession
  <2> HIDE DEF h
  <2>3. \A i \in DOMAIN h : Holds(rows, h[i])
    BY <2>2 DEF Session
  <2> QED
    BY <1>a, <2>1, <2>2, <2>3, OrderMoves
<1>5. ASSUME NEW s \in Calls, FillFact(s) PROVE OrderInv'
  <2>1. /\ Moves(s, {"fill"}, "call", sends[s].history, sends[s].tokens)
        /\ cached' = Assistant!LatestTurns(sends[s].history)
    BY <1>5 DEF FillFact
  <2>2. /\ Session(sends[s].history, rows, Done) /\ Ordered(sends[s].history, rows)
        /\ \A i \in DOMAIN sends[s].history : Holds(rows, sends[s].history[i])
    BY <1>0, <1>a, SessionsInRows DEF OrderInv
  <2>3. Session(cached', rows, Done) /\ Ordered(cached', rows)
    BY <1>0, <2>1, <2>2, EndOfSession
  <2>4. \A i \in DOMAIN cached' : Holds(rows, cached'[i])
    BY <2>3 DEF Session
  <2> QED
    BY <1>a, <2>1, <2>2, <2>3, <2>4, OrderMoves
<1>6. ASSUME NEW s \in Calls, RememberFact(s) PROVE OrderInv'
  <2> DEFINE h == sends[s].history \o <<Assistant!Question(s), Assistant!Reply(s)>>
  <2>1. /\ Moves(s, {"remember"}, "done", <<>>, sends[s].tokens)
        /\ cached' = Assistant!LatestTurns(h) /\ sends[s].step = "remember"
    BY <1>6 DEF RememberFact, Moves
  <2>2. /\ Session(sends[s].history, rows, Done) /\ ~Holds(sends[s].history, Assistant!Reply(s))
        /\ s \notin Done /\ Ordered(sends[s].history, rows)
        /\ sends[s].history \in Seq(Assistant!Turns)
    BY <1>0, <1>a, <2>1, SessionsInRows DEF SessionInv, OrderInv, Done
  <2>3. /\ Len(rows) >= 2
        /\ rows[Len(rows) - 1] = Assistant!Question(s) /\ rows[Len(rows)] = Assistant!Reply(s)
    BY <1>0, <1>a, <2>1 DEF WorkerInv
  <2>4. Holds(rows, Assistant!Question(s)) /\ Holds(rows, Assistant!Reply(s))
    <3>1. Len(rows) \in DOMAIN rows /\ Len(rows) - 1 \in DOMAIN rows
      BY <1>0, <2>3
    <3> QED
      BY <2>3, <3>1 DEF Holds
  <2>5. Session(h, rows, Done \cup {s})
    BY <1>0, <2>2, <2>4, LongerSession
  <2>6. Ordered(h, rows)
    BY <1>0, <2>2, <2>3, LongerInOrder
  <2> HIDE DEF h
  <2>7. Session(cached', rows, Done \cup {s}) /\ Ordered(cached', rows)
    BY <1>0, <2>1, <2>5, <2>6, EndOfSession
  <2>8. \A i \in DOMAIN cached' : Holds(rows, cached'[i])
    BY <2>7 DEF Session
  <2>9. Ordered(<<>>, rows) /\ \A i \in DOMAIN <<>> : Holds(rows, <<>>[i])
    BY DEF Ordered
  <2> QED
    BY <1>a, <2>1, <2>7, <2>8, <2>9, OrderMoves
<1>7. RestFact => OrderInv'
  BY <1>0, <1>a DEF RestFact, OrderInv
<1> QED
  BY <1>2, <1>3, <1>4, <1>5, <1>6, <1>7 DEF SomeStep

-----------------------------------------------------------------------------
(* Between two sends a session knows the latest answer.                    *)
LEMMA FreshMoves ==
    ASSUME AskingInv, ~overlapped, NEW s \in Calls, NEW from, NEW to, NEW h, NEW n,
           s \in Assistant!Working, Moves(s, from, to, h, n), rows' = rows,
           cached' # Assistant!Nothing /\ to \notin {"count", "remember"} => Fresh(cached', rows),
           to \in {"fill", "call", "save"} => Fresh(h, rows)
    PROVE  FreshInv'
<1>1. /\ sends'[s].step = to /\ sends'[s].history = h
      /\ \A t \in Calls : t # s =>
            sends'[t].step \in {"idle", "done", "unavailable", "dead"}
  BY OnlyWorker DEF Moves
<1>2. Answering' = {} => to \notin {"count", "remember"}
  BY <1>1 DEF Answering
<1>3. ASSUME NEW t \in Calls, sends'[t].step \in {"fill", "call", "save"}
      PROVE  Fresh(sends'[t].history, rows)
  <2>1. t = s
    BY <1>1, <1>3
  <2> QED
    BY <1>1, <1>3, <2>1
<1> QED
  BY <1>2, <1>3 DEF FreshInv

LEMMA FreshStep ==
    ASSUME AskingInv, SomeStep
    PROVE  FreshInv'
<1> SUFFICES ASSUME ~overlapped', NobodyDied' PROVE FreshInv'
  BY DEF FreshInv
<1>0. /\ WorkerInv /\ SessionInv /\ OrderInv /\ rows \in Seq(Assistant!Turns)
      /\ \A a, b \in DOMAIN rows : rows[a] = rows[b] => a = b
  BY DEF AskingInv, AskTypes
<1>a. ~overlapped
  BY DEF SomeStep, RestFact, AskFact, LookFact, LoadFact, FillFact, CallFact, SaveFact,
         CountFact, RememberFact, DieFact
<1>b. ASSUME NEW s \in Calls, NEW from, NEW to, NEW h, NEW n,
             Moves(s, from, to, h, n), from \subseteq SendSteps \ Assistant!Ended \/ from = {"idle"}
      PROVE  /\ NobodyDied
             /\ from \subseteq SendSteps \ Assistant!Ended => s \in Assistant!Working
  <2>1. sends[s].step # "dead" /\ \A t \in Calls \ {s} : sends'[t] = sends[t]
    BY <1>b DEF Moves, Assistant!Ended
  <2>2. NobodyDied
    BY <2>1 DEF NobodyDied
  <2>3. from \subseteq SendSteps \ Assistant!Ended => s \in Assistant!Working
    BY <1>b DEF Moves, Assistant!Working
  <2> QED
    BY <2>2, <2>3
<1>c. /\ NobodyDied /\ cached # Assistant!Nothing /\ Answering = {} => Fresh(cached, rows)
      /\ NobodyDied => \A s \in Calls : sends[s].step \in {"fill", "call", "save"} =>
              Fresh(sends[s].history, rows)
  BY <1>a DEF AskingInv, FreshInv
<1>d. ASSUME NEW s \in Assistant!Working, sends[s].step \notin {"count", "remember"}
      PROVE  Answering = {}
  <2>1. \A t \in Calls : t \in Answering => t \in Assistant!Working
    BY WorkingFacts DEF Answering
  <2> QED
    BY <1>0, <1>a, <1>d, <2>1 DEF WorkerInv, Answering
<1>e. /\ {"look"} \subseteq SendSteps \ Assistant!Ended /\ {"load"} \subseteq SendSteps \ Assistant!Ended
      /\ {"fill"} \subseteq SendSteps \ Assistant!Ended /\ {"call"} \subseteq SendSteps \ Assistant!Ended
      /\ {"save"} \subseteq SendSteps \ Assistant!Ended /\ {"count"} \subseteq SendSteps \ Assistant!Ended
      /\ {"remember"} \subseteq SendSteps \ Assistant!Ended
  BY DEF SendSteps, Assistant!Ended
<1>f. ASSUME NEW s \in Calls, NEW from, NEW to, NEW h, NEW n, Moves(s, from, to, h, n),
             from \in {{"look"}, {"load"}, {"fill"}, {"call"}, {"save"}}
      PROVE  /\ NobodyDied /\ s \in Assistant!Working /\ Answering = {}
             /\ cached # Assistant!Nothing => Fresh(cached, rows)
  <2>1. NobodyDied /\ s \in Assistant!Working
    BY <1>b, <1>e, <1>f
  <2>2. sends[s].step \notin {"count", "remember"}
    BY <1>f DEF Moves
  <2>3. Answering = {}
    BY <1>d, <2>1, <2>2
  <2> QED
    BY <1>c, <2>1, <2>3
<1>1. ASSUME NEW s \in Calls, AskFact(s) PROVE FreshInv'
  <2>1. /\ Moves(s, {"idle"}, "look", sends[s].history, sends[s].tokens)
        /\ Assistant!Working = {} /\ cached' = cached
    BY <1>1 DEF AskFact
  <2>2. NobodyDied
    BY <1>b, <2>1
  <2>3. \A t \in Calls : sends[t].step \in {"idle", "done", "unavailable", "dead"}
    BY <2>1, WorkingFacts
  <2>4. Answering = {}
    BY <2>3 DEF Answering
  <2>5. PICK x \in Assistant!Turns :
           rows' = Append(rows, x) /\ ~Holds(rows, x) /\ x = Assistant!Question(s)
    BY <1>1, WrittenRow
  <2>6. x.role # "assistant"
    BY <2>5, TurnFacts
  <2>7. cached' # Assistant!Nothing => Fresh(cached', rows')
    BY <1>0, <1>c, <2>1, <2>2, <2>4, <2>5, <2>6, FreshGrows
  <2>8. \A t \in Calls : sends'[t].step \notin {"fill", "call", "save"}
    BY <2>1, <2>3 DEF Moves
  <2> QED
    BY <2>7, <2>8 DEF FreshInv
<1>2. ASSUME NEW s \in Calls, SaveFact(s) PROVE FreshInv'
  <2>1. Moves(s, {"save"}, "count", sends[s].history, sends[s].tokens)
    BY <1>2 DEF SaveFact
  <2>2. s \in Assistant!Working
    BY <1>b, <1>e, <2>1
  <2>3. \A t \in Calls : t # s => sends'[t].step \in {"idle", "done", "unavailable", "dead"}
    BY <1>a, <2>1, <2>2, OnlyWorker
  <2>4. sends'[s].step = "count"
    BY <2>1 DEF Moves
  <2>5. Answering' # {}
    BY <2>4 DEF Answering
  <2>6. \A t \in Calls : sends'[t].step \notin {"fill", "call", "save"}
    BY <2>3, <2>4
  <2> QED
    BY <2>5, <2>6 DEF FreshInv
<1>3. ASSUME NEW s \in Calls, LookFact(s) PROVE FreshInv'
  <2>1. rows' = rows /\ cached' = cached
    BY <1>3 DEF LookFact
  <2>2. CASE Moves(s, {"look"}, "load", sends[s].history, sends[s].tokens)
    <3>1. s \in Assistant!Working /\ (cached' # Assistant!Nothing => Fresh(cached', rows))
      BY <1>f, <2>1, <2>2
    <3> QED
      BY <1>a, <2>1, <2>2, <3>1, FreshMoves
  <2>3. CASE cached # Assistant!Nothing /\ Moves(s, {"look"}, "call", cached, sends[s].tokens)
    <3>1. s \in Assistant!Working /\ Fresh(cached, rows)
      BY <1>f, <2>1, <2>3
    <3> QED
      BY <1>a, <2>1, <2>3, <3>1, FreshMoves
  <2> QED
    BY <1>3, <2>2, <2>3 DEF LookFact
<1>4. ASSUME NEW s \in Calls, LoadFact(s) PROVE FreshInv'
  <2> DEFINE h == Assistant!LatestTurns(rows)
  <2>1. Moves(s, {"load"}, "fill", h, sends[s].tokens) /\ cached' = cached /\ rows' = rows
    BY <1>4 DEF LoadFact
  <2>2. Session(rows, rows, Done) /\ Fresh(rows, rows)
    BY <1>0, RowsAreASession
  <2>3. Fresh(h, rows)
    BY <1>0, <2>2, EndOfSession
  <2> HIDE DEF h
  <2>4. s \in Assistant!Working /\ (cached' # Assistant!Nothing => Fresh(cached', rows))
    BY <1>f, <2>1
  <2> QED
    BY <1>a, <2>1, <2>3, <2>4, FreshMoves
<1>5. ASSUME NEW s \in Calls, FillFact(s) PROVE FreshInv'
  <2>1. /\ Moves(s, {"fill"}, "call", sends[s].history, sends[s].tokens)
        /\ cached' = Assistant!LatestTurns(sends[s].history) /\ rows' = rows
    BY <1>5 DEF FillFact
  <2>2. NobodyDied /\ s \in Assistant!Working /\ sends[s].step = "fill"
    BY <1>f, <2>1 DEF Moves
  <2>3. Session(sends[s].history, rows, Done) /\ Fresh(sends[s].history, rows)
    BY <1>0, <1>c, <2>2 DEF SessionInv
  <2>4. Fresh(cached', rows)
    BY <1>0, <2>1, <2>3, EndOfSession
  <2> QED
    BY <1>a, <2>1, <2>2, <2>3, <2>4, FreshMoves
<1>6. ASSUME NEW s \in Calls, CallFact(s) PROVE FreshInv'
  <2>1. PICK to \in {"call", "save", "unavailable"}, n \in Nat :
           Moves(s, {"call"}, to, sends[s].history, n)
    BY <1>6 DEF CallFact
  <2>2. /\ NobodyDied /\ s \in Assistant!Working /\ sends[s].step = "call"
        /\ cached # Assistant!Nothing => Fresh(cached, rows)
    BY <1>f, <2>1 DEF Moves
  <2>3. Fresh(sends[s].history, rows)
    BY <1>c, <2>2
  <2>4. rows' = rows /\ cached' = cached
    BY <1>6 DEF CallFact
  <2> QED
    BY <1>a, <2>1, <2>2, <2>3, <2>4, FreshMoves
<1>7. ASSUME NEW s \in Calls, CountFact(s) PROVE FreshInv'
  <2>1. Moves(s, {"count"}, "remember", sends[s].history, sends[s].tokens) /\ rows' = rows
    BY <1>7 DEF CountFact
  <2>2. s \in Assistant!Working
    BY <1>b, <1>e, <2>1
  <2> QED
    BY <1>a, <2>1, <2>2, FreshMoves
<1>8. ASSUME NEW s \in Calls, RememberFact(s) PROVE FreshInv'
  <2> DEFINE h == sends[s].history \o <<Assistant!Question(s), Assistant!Reply(s)>>
  <2>1. /\ Moves(s, {"remember"}, "done", <<>>, sends[s].tokens)
        /\ cached' = Assistant!LatestTurns(h) /\ sends[s].step = "remember" /\ rows' = rows
    BY <1>8 DEF RememberFact, Moves
  <2>2. s \in Assistant!Working
    BY <1>b, <1>e, <2>1
  <2>3. /\ Session(sends[s].history, rows, Done) /\ ~Holds(sends[s].history, Assistant!Reply(s))
        /\ s \notin Done /\ Ordered(sends[s].history, rows)
        /\ sends[s].history \in Seq(Assistant!Turns)
    BY <1>0, <1>a, <2>1, SessionsInRows DEF SessionInv, OrderInv, Done
  <2>4. /\ Len(rows) >= 2
        /\ rows[Len(rows) - 1] = Assistant!Question(s) /\ rows[Len(rows)] = Assistant!Reply(s)
    BY <1>0, <1>a, <2>1 DEF WorkerInv
  <2>5. Holds(rows, Assistant!Question(s)) /\ Holds(rows, Assistant!Reply(s))
    <3>1. Len(rows) \in DOMAIN rows /\ Len(rows) - 1 \in DOMAIN rows
      BY <1>0, <2>4
    <3> QED
      BY <2>4, <3>1 DEF Holds
  <2>6. Session(h, rows, Done \cup {s})
    BY <1>0, <2>3, <2>5, LongerSession
  <2>7. Fresh(h, rows)
    BY <1>0, <2>3, <2>4, LongerInOrder
  <2> HIDE DEF h
  <2>8. Fresh(cached', rows)
    BY <1>0, <2>1, <2>6, <2>7, EndOfSession
  <2> QED
    BY <1>a, <2>1, <2>2, <2>8, FreshMoves
<1>9. ASSUME NEW s \in Calls, DieFact(s) PROVE FreshInv'
  BY <1>9 DEF DieFact, Moves, NobodyDied
<1>10. ASSUME RestFact PROVE FreshInv'
  <2>1. sends' = sends /\ rows' = rows /\ (cached' = cached \/ cached' = Assistant!Nothing)
    BY <1>10 DEF RestFact
  <2>2. NobodyDied
    BY <2>1 DEF NobodyDied
  <2> QED
    BY <1>c, <2>1, <2>2 DEF FreshInv, Answering
<1> QED
  BY <1>1, <1>2, <1>3, <1>4, <1>5, <1>6, <1>7, <1>8, <1>9, <1>10 DEF SomeStep

-----------------------------------------------------------------------------
(* The total is the sum of the counted tokens.                             *)
LEMMA TokensStay ==
    ASSUME AskingInv, Counted' = Counted, total' = total, NobodyDied' => NobodyDied,
           \A t \in Counted : sends'[t].tokens = sends[t].tokens
    PROVE  TokenInv'
<1>1. TokenInv
  BY DEF AskingInv
<1>2. \A t \in Counted : Tokens'[t] = Tokens[t]
  BY DEF Counted, Tokens
<1>3. SumFunctionOnSet(Tokens', Counted) = SumFunctionOnSet(Tokens, Counted)
  BY <1>1, <1>2, SumSame DEF TokenInv
<1> QED
  BY <1>1, <1>3 DEF TokenInv

LEMMA TokenStep ==
    ASSUME AskingInv, SomeStep
    PROVE  TokenInv'
<1>0. TokenInv /\ \A t \in Calls : sends[t].tokens \in Nat
  BY DEF AskingInv, AskTypes, SendRow
<1>1. ASSUME NEW s \in Calls, NEW from, NEW to, NEW h, NEW n, Moves(s, from, to, h, n),
             from \cap {"remember", "done", "dead"} = {}, to \notin {"remember", "done"},
             total' = total
      PROVE  TokenInv'
  <2>1. /\ sends[s].step \in from /\ sends'[s].step = to
        /\ \A t \in Calls \ {s} : sends'[t] = sends[t]
    BY <1>1 DEF Moves
  <2>2. Counted' = Counted /\ s \notin Counted
    BY <1>1, <2>1 DEF Counted
  <2>3. \A t \in Counted : sends'[t].tokens = sends[t].tokens
    BY <2>1, <2>2 DEF Counted
  <2>4. NobodyDied' => NobodyDied
    BY <1>1, <2>1 DEF NobodyDied
  <2> QED
    BY <1>1, <2>2, <2>3, <2>4, TokensStay
<1>2. ASSUME NEW s \in Calls, AskFact(s) \/ LoadFact(s) \/ FillFact(s) \/ SaveFact(s)
      PROVE  TokenInv'
  BY <1>1, <1>2 DEF AskFact, LoadFact, FillFact, SaveFact
<1>3. ASSUME NEW s \in Calls, LookFact(s) PROVE TokenInv'
  <2>1. CASE Moves(s, {"look"}, "load", sends[s].history, sends[s].tokens)
    BY <1>1, <1>3, <2>1 DEF LookFact
  <2>2. CASE Moves(s, {"look"}, "call", cached, sends[s].tokens)
    BY <1>1, <1>3, <2>2 DEF LookFact
  <2> QED
    BY <1>3, <2>1, <2>2 DEF LookFact
<1>4. ASSUME NEW s \in Calls, CallFact(s) PROVE TokenInv'
  <2>1. PICK to \in {"call", "save", "unavailable"}, n \in Nat :
           Moves(s, {"call"}, to, sends[s].history, n)
    BY <1>4 DEF CallFact
  <2>2. total' = total
    BY <1>4 DEF CallFact
  <2> QED
    BY <1>1, <2>1, <2>2
<1>5. ASSUME NEW s \in Calls, CountFact(s) PROVE TokenInv'
  <2>1. /\ sends[s].step = "count" /\ sends'[s].step = "remember"
        /\ sends'[s].tokens = sends[s].tokens
        /\ \A t \in Calls \ {s} : sends'[t] = sends[t]
        /\ total' = total + sends[s].tokens
    BY <1>5 DEF CountFact, Moves
  <2>2. Counted' = Counted \cup {s} /\ s \notin Counted
    BY <2>1 DEF Counted
  <2>3. IsFiniteSet(Counted) /\ IsFiniteSet(Counted')
    BY <1>0, <2>2, FS_AddElement DEF TokenInv
  <2>4. NobodyDied' => NobodyDied
    BY <2>1 DEF NobodyDied
  <2>5. /\ \A t \in Counted : Tokens'[t] = Tokens[t]
        /\ Tokens'[s] = sends[s].tokens
        /\ \A t \in Counted \cup {s} : Tokens'[t] \in Int
    BY <1>0, <2>1, <2>2 DEF Counted, Tokens
  <2>6. SumFunctionOnSet(Tokens', Counted) = SumFunctionOnSet(Tokens, Counted)
    BY <2>3, <2>5, SumSame
  <2>7. SumFunctionOnSet(Tokens', Counted \cup {s})
           = Tokens'[s] + SumFunctionOnSet(Tokens', Counted)
    BY <2>2, <2>3, <2>5, SumAdds
  <2>8. NobodyDied' => total' = SumFunctionOnSet(Tokens', Counted')
    <3>1. SUFFICES ASSUME NobodyDied'
                   PROVE  total' = SumFunctionOnSet(Tokens', Counted')
      OBVIOUS
    <3>2. total = SumFunctionOnSet(Tokens, Counted)
      BY <1>0, <2>4, <3>1 DEF TokenInv
    <3>3. total \in Int /\ sends[s].tokens \in Int
      BY <1>0 DEF AskingInv, AskTypes
    <3>4. total' = sends[s].tokens + SumFunctionOnSet(Tokens, Counted)
      BY <2>1, <3>2, <3>3
    <3> QED
      BY <2>2, <2>5, <2>6, <2>7, <3>4
  <2> QED
    BY <2>3, <2>8 DEF TokenInv
<1>6. ASSUME NEW s \in Calls, RememberFact(s) PROVE TokenInv'
  <2>1. /\ sends[s].step = "remember" /\ sends'[s].step = "done"
        /\ sends'[s].tokens = sends[s].tokens /\ total' = total
        /\ \A t \in Calls \ {s} : sends'[t] = sends[t]
    BY <1>6 DEF RememberFact, Moves
  <2>2. Counted' = Counted
    BY <2>1 DEF Counted
  <2>3. \A t \in Counted : sends'[t].tokens = sends[t].tokens
    BY <2>1 DEF Counted
  <2>4. NobodyDied' => NobodyDied
    BY <2>1 DEF NobodyDied
  <2> QED
    BY <2>1, <2>2, <2>3, <2>4, TokensStay
<1>7. ASSUME NEW s \in Calls, DieFact(s) PROVE TokenInv'
  <2>1. /\ sends'[s].step = "dead" /\ \A t \in Calls \ {s} : sends'[t] = sends[t]
    BY <1>7 DEF DieFact, Moves
  <2>2. Counted' \subseteq Counted
    BY <2>1 DEF Counted
  <2>3. ~NobodyDied'
    BY <2>1 DEF NobodyDied
  <2>4. IsFiniteSet(Counted')
    BY <1>0, <2>2, FS_Subset DEF TokenInv
  <2> QED
    BY <2>3, <2>4 DEF TokenInv
<1>8. ASSUME RestFact PROVE TokenInv'
  <2>1. sends' = sends /\ total' = total
    BY <1>8 DEF RestFact
  <2> QED
    BY <1>0, <2>1 DEF TokenInv, Counted, NobodyDied, Tokens
<1> QED
  BY <1>2, <1>3, <1>4, <1>5, <1>6, <1>7, <1>8 DEF SomeStep

-----------------------------------------------------------------------------
(* Together.                                                               *)
LEMMA AskingInit == Assistant!Init => AskingInv
<1> SUFFICES ASSUME Assistant!Init PROVE AskingInv
  OBVIOUS
<1>1. /\ provider = "none" /\ rows = <<>> /\ cached = Assistant!Nothing
      /\ \A s \in Calls : sends[s] = Assistant!Idle
      /\ sends \in [Calls -> SendRow] /\ total = 0
  BY IdleFacts DEF Assistant!Init
<1>2. AskTypes
  BY <1>1 DEF AskTypes
<1>3. RowsInv
  BY <1>1, IdleFacts DEF RowsInv, Holds
<1>4. SessionInv
  <2>1. Session(<<>>, rows, Done)
    BY DEF Session, Once, Twice
  <2>2. \A x : ~Holds(<<>>, x)
    BY DEF Holds
  <2> QED
    BY <1>1, <2>1, <2>2, IdleFacts DEF SessionInv
<1>5. WorkerInv
  BY <1>1, IdleFacts DEF WorkerInv, Assistant!Working, Assistant!Ended
<1>6. OrderInv
  <2>1. Ordered(<<>>, rows)
    BY DEF Ordered
  <2> QED
    BY <1>1, <2>1, IdleFacts DEF OrderInv
<1>7. FreshInv
  BY <1>1, IdleFacts DEF FreshInv
<1>8. TokenInv
  <2>1. Counted = {}
    BY <1>1, IdleFacts DEF Counted
  <2> QED
    BY <1>1, <2>1, SumOverNothing, FS_EmptySet DEF TokenInv
<1> QED
  BY <1>2, <1>3, <1>4, <1>5, <1>6, <1>7, <1>8 DEF AskingInv

LEMMA AskingStep ==
    ASSUME AskingInv, Assistant!Next \/ UNCHANGED <<asking, overlapped>>
    PROVE  AskingInv'
<1>1. SomeStep /\ provider' \in (Modes \ {"disabled"}) \cup {"none"}
  BY StepFacts DEF SomeStep
<1>2. AskTypes' /\ RowsInv' /\ SessionInv' /\ WorkerInv' /\ OrderInv' /\ FreshInv' /\ TokenInv'
  BY <1>1, AskTypesStep, RowsInvStep, SessionStep, WorkerStep, OrderStep, FreshStep, TokenStep
<1> QED
  BY <1>2 DEF AskingInv

(* What the properties count and look for.                                 *)
LEMMA HowOften ==
    ASSUME NEW h \in Seq(Assistant!Turns), NEW x
    PROVE  /\ Once(x, h) => Assistant!Times(x, h) <= 1
           /\ Twice(x, h) => Assistant!Times(x, h) <= 2
<1> DEFINE S == {i \in DOMAIN h : h[i] = x}
<1>1. Assistant!Times(x, h) = Cardinality(S)
  BY DEF Assistant!Times, Assistant!Cardinality, Cardinality
<1>2. Cardinality({}) = 0 /\ \A i : Cardinality({i}) = 1 /\ IsFiniteSet({i})
  BY FS_EmptySet, FS_Singleton
<1>3. ASSUME NEW i, NEW j, NEW T, T = {i} PROVE Cardinality(T \cup {j}) \in {1, 2}
  <2> DEFINE n == Cardinality(T)
             m == Cardinality(T \cup {j})
  <2>1. IsFiniteSet(T) /\ n = 1
    BY <1>2, <1>3
  <2>2. m = IF j \in T THEN n ELSE n + 1
    BY <2>1, FS_AddElement
  <2> HIDE DEF n, m
  <2>3. m \in {1, 2}
    BY <2>1, <2>2
  <2> QED
    BY ONLY <2>3 DEF m
<1>4. Once(x, h) => S = {} \/ \E i : S = {i}
  <2>1. SUFFICES ASSUME Once(x, h), NEW i \in S PROVE S = {i}
    OBVIOUS
  <2>2. \A j \in S : j = i
    BY <2>1 DEF Once
  <2> QED
    BY <2>2
<1>5. Twice(x, h) => S = {} \/ \E i, j : S = {i} \cup {j}
  <2>1. SUFFICES ASSUME Twice(x, h), S # {} PROVE \E i, j : S = {i} \cup {j}
    OBVIOUS
  <2>2. PICK i \in S : TRUE
    BY <2>1
  <2>3. CASE \A j \in S : j = i
    <3>1. S = {i} \cup {i}
      BY <2>2, <2>3
    <3> QED
      BY <3>1
  <2>4. CASE \E j \in S : j # i
    <3>1. PICK j \in S : j # i
      BY <2>4
    <3>2. \A k \in S : k = i \/ k = j
      BY <2>1, <2>2, <3>1 DEF Twice
    <3>3. S = {i} \cup {j}
      BY <2>2, <3>1, <3>2
    <3> QED
      BY <3>3
  <2> QED
    BY <2>3, <2>4
<1> HIDE DEF S
<1>6. Once(x, h) => Cardinality(S) \in {0, 1}
  <2>1. CASE S = {}
    BY <1>2, <2>1
  <2>2. ASSUME NEW i, S = {i} PROVE Cardinality(S) = 1
    BY <1>2, <2>2
  <2> QED
    BY <1>4, <2>1, <2>2
<1>7. Twice(x, h) => Cardinality(S) \in {0, 1, 2}
  <2>1. CASE S = {}
    BY <1>2, <2>1
  <2>2. ASSUME NEW i, NEW j, S = {i} \cup {j} PROVE Cardinality(S) \in {1, 2}
    <3>1. PICK T : T = {i}
      OBVIOUS
    <3>2. S = T \cup {j}
      BY ONLY <2>2, <3>1
    <3> QED
      BY ONLY <1>3, <3>1, <3>2
  <2> QED
    BY <1>5, <2>1, <2>2
<1> QED
  BY <1>1, <1>6, <1>7

LEMMA WherePlaced ==
    ASSUME NEW x, Holds(rows, x)
    PROVE  Assistant!Place(x) \in DOMAIN rows /\ rows[Assistant!Place(x)] = x
BY DEF Holds, Assistant!Place

LEMMA LastOfAnswers ==
    ASSUME NEW h, NEW m \in DOMAIN h, h[m].role = "assistant", DOMAIN h \subseteq Nat,
           \A i \in DOMAIN h : h[i].role = "assistant" => i <= m
    PROVE  Assistant!LastAnswer(h) = h[m]
<1> DEFINE A == Assistant!Answers(h)
<1>1. m \in A /\ A \subseteq Nat /\ \A i \in A : m >= i
  BY DEF Assistant!Answers
<1> HIDE DEF A
<1>2. \A n \in A : (\A i \in A : n >= i) => n = m
  BY <1>1
<1>3. Assistant!Max(A) = CHOOSE n \in A : \A i \in A : n >= i
  BY DEF Assistant!Max
<1>4. Assistant!Max(A) = m
  BY <1>1, <1>2, <1>3
<1> QED
  BY <1>4 DEF A, Assistant!LastAnswer

LEMMA AskingAgrees ==
    ASSUME AskingInv
    PROVE  /\ Assistant!TypeOK /\ Assistant!SessionIsOfRows
           /\ Assistant!SessionIsCurrent /\ Assistant!TokensAreCounted
<1>1. /\ AskTypes /\ SessionInv /\ OrderInv /\ FreshInv /\ TokenInv
      /\ cached # Assistant!Nothing =>
            /\ Session(cached, rows, Done) /\ Len(cached) <= SessionSize
            /\ cached \in Seq(Assistant!Turns)
            /\ \A i \in DOMAIN cached : Holds(rows, cached[i])
  BY DEF AskingInv, SessionInv, Session
<1>2. Assistant!TypeOK
  BY <1>1 DEF Assistant!TypeOK, AskTypes, SendRow, Assistant!IsInjective
<1>3. Assistant!SessionIsOfRows
  <2> SUFFICES ASSUME cached # Assistant!Nothing, NEW i \in DOMAIN cached
               PROVE  /\ cached[i] \in Assistant!ToSet(rows)
                      /\ Assistant!Times(cached[i], cached)
                            <= IF cached[i].role = "user" THEN 2 ELSE 1
    BY DEF Assistant!SessionIsOfRows
  <2>1. cached[i] \in Assistant!ToSet(rows)
    BY <1>1 DEF Holds, Assistant!ToSet
  <2>2. cached[i] \in Assistant!Turns
    BY <1>1
  <2>3. PICK s \in Calls : cached[i] = Assistant!Question(s) \/ cached[i] = Assistant!Reply(s)
    BY <2>2, TurnFacts
  <2>4. CASE cached[i] = Assistant!Question(s)
    <3>1. Twice(cached[i], cached) /\ cached[i].role = "user"
      BY <1>1, <2>4, TurnFacts DEF Session
    <3> QED
      BY <1>1, <2>1, <3>1, HowOften
  <2>5. CASE cached[i] = Assistant!Reply(s)
    <3>1. Once(cached[i], cached) /\ cached[i].role = "assistant"
      BY <1>1, <2>5, TurnFacts DEF Session
    <3> QED
      BY <1>1, <2>1, <3>1, HowOften
  <2> QED
    BY <2>3, <2>4, <2>5
<1>4. Assistant!SessionIsCurrent
  <2> SUFFICES ASSUME ~overlapped, cached # Assistant!Nothing
               PROVE  /\ \A i, j \in DOMAIN cached :
                            i < j => Assistant!Place(cached[i]) <= Assistant!Place(cached[j])
                      /\ ( /\ Assistant!Working = {} /\ (\A s \in Calls : sends[s].step # "dead")
                           /\ Assistant!Answers(cached) # {}) =>
                            Assistant!LastAnswer(cached) = Assistant!LastAnswer(rows)
    BY DEF Assistant!SessionIsCurrent
  <2>1. ASSUME NEW i \in DOMAIN cached, NEW j \in DOMAIN cached, i < j
        PROVE  Assistant!Place(cached[i]) <= Assistant!Place(cached[j])
    <3>1. /\ Assistant!Place(cached[i]) \in DOMAIN rows
          /\ rows[Assistant!Place(cached[i])] = cached[i]
          /\ Assistant!Place(cached[j]) \in DOMAIN rows
          /\ rows[Assistant!Place(cached[j])] = cached[j]
      BY <1>1, WherePlaced
    <3>2. Ordered(cached, rows)
      BY <1>1 DEF OrderInv
    <3> QED
      BY <2>1, <3>1, <3>2 DEF Ordered
  <2>2. ASSUME Assistant!Working = {}, \A s \in Calls : sends[s].step # "dead",
               Assistant!Answers(cached) # {}
        PROVE  Assistant!LastAnswer(cached) = Assistant!LastAnswer(rows)
    <3>1. NobodyDied /\ Answering = {}
      BY <2>2, WorkingFacts DEF NobodyDied, Answering
    <3>2. Fresh(cached, rows)
      BY <1>1, <3>1 DEF FreshInv
    <3>3. /\ Len(cached) \in Nat /\ DOMAIN cached = 1 .. Len(cached)
          /\ DOMAIN rows \subseteq Nat /\ DOMAIN cached \subseteq Nat
      BY <1>1 DEF AskTypes
    <3>4. Assistant!Answers(cached) \subseteq 1 .. Len(cached)
      BY <3>3 DEF Assistant!Answers
    <3>5. PICK m \in Assistant!Answers(cached) : \A i \in Assistant!Answers(cached) : i <= m
      BY <2>2, <3>3, <3>4, LargestIndex
    <3>6. /\ m \in DOMAIN cached /\ cached[m].role = "assistant"
          /\ \A i \in DOMAIN cached : cached[i].role = "assistant" => i <= m
      BY <3>5 DEF Assistant!Answers
    <3>7. PICK j \in DOMAIN cached, b \in DOMAIN rows :
             m <= j /\ cached[j] = rows[b] /\ Latest(rows, b)
      BY <3>2, <3>6 DEF Fresh
    <3>8. j = m
      BY <3>3, <3>6, <3>7 DEF Latest
    <3>9. Assistant!LastAnswer(cached) = cached[m]
      BY <3>3, <3>6, LastOfAnswers
    <3>10. Assistant!LastAnswer(rows) = rows[b]
      BY <3>3, <3>7, LastOfAnswers DEF Latest
    <3> QED
      BY <3>7, <3>8, <3>9, <3>10
  <2> QED
    BY <2>1, <2>2
<1>5. Assistant!TokensAreCounted
  <2>1. NobodyDied => total = SumFunctionOnSet(Tokens, Counted)
    BY <1>1 DEF TokenInv
  <2>2. \A F, S : Assistant!SumFunctionOnSet(F, S) = SumFunctionOnSet(F, S)
    BY DEF Assistant!SumFunctionOnSet, SumFunctionOnSet,
           Assistant!FoldFunctionOnSet, FoldFunctionOnSet,
           Assistant!MapThenFoldSet, MapThenFoldSet
  <2> QED
    BY <2>1, <2>2 DEF Assistant!TokensAreCounted, NobodyDied, Tokens, Counted
<1> QED
  BY <1>2, <1>3, <1>4, <1>5

-----------------------------------------------------------------------------
(* All parts.  A behaviour of the parts moves the thread as its own        *)
(* specification does, or not at all.                                      *)
THEOREM PartsAreThreads == PartsSpec => Spec
<1>1. PartsInit => Init
  BY DEF PartsInit
<1>2. [PartsNext]_<<part, vars, opening, asking, overlapped>> => [Next]_vars
  BY DEF PartsNext
<1> QED
  BY <1>1, <1>2, PTL DEF PartsSpec, Spec

OthersInv ==
    /\ part = "opening" => OpeningInv
    /\ part = "asking" => AskingInv

(* Requests to open a thread and sends to the assistant keep their         *)
(* invariants, however many there are and however they overlap or die.     *)
THEOREM PartsInvariant == PartsSpec => [](IInv /\ StampInv /\ OthersInv)
<1>1. PartsInit => OthersInv
  BY OpeningInit, AskingInit DEF PartsInit, OthersInv
<1>2. OthersInv /\ [PartsNext]_<<part, vars, opening, asking, overlapped>> => OthersInv'
  <2> SUFFICES ASSUME OthersInv, [PartsNext]_<<part, vars, opening, asking, overlapped>>
               PROVE  OthersInv'
    OBVIOUS
  <2>1. CASE part = "thread" /\ Next /\ UNCHANGED <<part, opening, asking, overlapped>>
    BY <2>1 DEF OthersInv
  <2>2. CASE part = "opening" /\ Conversations!Next /\ UNCHANGED <<part, vars, asking>>
    BY <2>2, OpeningStep DEF OthersInv
  <2>3. CASE part = "asking" /\ Assistant!Next /\ UNCHANGED <<part, vars, opening>>
    BY <2>3, AskingStep DEF OthersInv
  <2>4. CASE UNCHANGED <<part, vars, opening, asking, overlapped>>
    <3>1. part = "opening" => OpeningInv'
      BY <2>4, OpeningStutters DEF OthersInv
    <3>2. part = "asking" => AskingInv'
      BY <2>4, AskingStep DEF OthersInv
    <3> QED
      BY <2>4, <3>1, <3>2 DEF OthersInv
  <2> QED
    BY <2>1, <2>2, <2>3, <2>4 DEF PartsNext
<1> QED
  BY <1>1, <1>2, PartsAreThreads, StampInvariance, PTL DEF PartsSpec

(* Every part keeps its types.                                             *)
THEOREM PartsTypeCorrect == PartsSpec => []PartsTypeOK
<1>1. IInv /\ StampInv /\ OthersInv => PartsTypeOK
  BY OpeningAgrees, AskingAgrees DEF IInv, OthersInv, PartsTypeOK
<1> QED
  BY <1>1, PartsInvariant, PTL

(* Whoever was given a thread takes part in it, and without overlap there  *)
(* is one; the assistant's session is of its rows, without overlap in      *)
(* their order and up to date, and its total is what the answers used.     *)
THEOREM ConversationsStayTrue == PartsSpec => []ConversationsAgree
<1>1. IInv /\ StampInv /\ OthersInv => ConversationsAgree
  BY OpeningAgrees, AskingAgrees DEF OthersInv, ConversationsAgree
<1> QED
  BY <1>1, PartsInvariant, PTL
=============================================================================
