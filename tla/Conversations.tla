---------------------------- MODULE Conversations ----------------------------
(***************************************************************************)
(* The threads about one inquiry, viewing or application                   *)
(* (apps/notifications): who wants to talk gets the thread that the user   *)
(* already takes part in, or a new one, whose participants are inserted    *)
(* one by one afterwards without a transaction.                            *)
(*                                                                         *)
(* A definition marked "fault" is a variant of the one after it with a     *)
(* plausible mistake, to show that a property notices it.                  *)
(***************************************************************************)
EXTENDS Naturals, FiniteSets

CONSTANTS
    Requests,  \* requests that can be in progress at the same time
    People,    \* the two sides of the inquiry, viewing or application
    Threads,   \* ConversationThread rows
    Failures   \* whether the process of a request can die

VARIABLES
    creator,      \* created_by of each thread that exists
    participants, \* ConversationParticipant rows of each thread
    requests,     \* where each request is
    answered,     \* history: which thread each user was given
    overlapped,   \* history: two requests overlapped
    died          \* history: a request ended half way

vars == <<creator, participants, requests, answered, overlapped, died>>

Idle == [step |-> "idle", user |-> "nobody", thread |-> "none"]

Init ==
    /\ creator = [t \in Threads |-> "nobody"]
    /\ participants = [t \in Threads |-> {}]
    /\ requests = [r \in Requests |-> Idle]
    /\ answered = {}
    /\ overlapped = FALSE /\ died = FALSE

(* _existing_thread_for_context                                            *)
ThreadsCreatedBy(u) == {t \in Threads : creator[t] = u}          \* fault
ThreadsOf(u) == {t \in Threads : u \in participants[t]}

Look(r, u) ==
    /\ requests[r] = Idle
    /\ overlapped' = (overlapped \/ \E q \in Requests : requests[q] # Idle)
    /\ \/ \E t \in ThreadsOf(u) :
             /\ answered' = answered \cup {<<u, t>>}
             /\ UNCHANGED requests
       \/ /\ ThreadsOf(u) = {}
          /\ requests' = [requests EXCEPT ![r] =
                [step |-> "create", user |-> u, thread |-> "none"]]
          /\ UNCHANGED answered
    /\ UNCHANGED <<creator, participants, died>>

Create(r, t) ==
    /\ requests[r].step = "create" /\ creator[t] = "nobody"
    /\ creator' = [creator EXCEPT ![t] = requests[r].user]
    /\ requests' = [requests EXCEPT ![r].step = "add", ![r].thread = t]
    /\ UNCHANGED <<participants, answered, overlapped, died>>

(* _participant_ids_for_thread, and the user; a set, whose order is any.   *)
ParticipantsOnly(u) == People \ {u}                              \* fault
ParticipantsWith(u) == People

AddParticipant(r, p) ==
    LET t == requests[r].thread
    IN  /\ requests[r].step = "add"
        /\ p \in ParticipantsWith(requests[r].user) \ participants[t]
        /\ participants' = [participants EXCEPT ![t] = @ \cup {p}]
        /\ UNCHANGED <<creator, requests, answered, overlapped, died>>

Answer(r) ==
    LET u == requests[r].user
        t == requests[r].thread
    IN  /\ requests[r].step = "add"
        /\ ParticipantsWith(u) \subseteq participants[t]
        /\ answered' = answered \cup {<<u, t>>}
        /\ requests' = [requests EXCEPT ![r] = Idle]
        /\ UNCHANGED <<creator, participants, overlapped, died>>

Die(r) ==
    /\ Failures /\ requests[r] # Idle
    /\ requests' = [requests EXCEPT ![r] = Idle]
    /\ died' = TRUE
    /\ UNCHANGED <<creator, participants, answered, overlapped>>

Next ==
    \E r \in Requests :
        \/ \E u \in People : Look(r, u)
        \/ \E t \in Threads : Create(r, t)
        \/ \E p \in People : AddParticipant(r, p)
        \/ Answer(r) \/ Die(r)

Spec == Init /\ [][Next]_vars

-----------------------------------------------------------------------------
(* Properties *)

(* Threads and answers are of the people that there are.                   *)
TypeOK ==
    /\ \A t \in Threads : creator[t] \in People \cup {"nobody"} /\ participants[t] \subseteq People
    /\ answered \subseteq People \X Threads

(* However requests overlap or die, a user who was given a thread can see  *)
(* it: the queryset of every later request asks for the participation.     *)
AnsweredTakePart == \A a \in answered : a[1] \in participants[a[2]]

(* As long as no request dies, every thread has both sides in the end; and *)
(* without overlap there is one thread.                                    *)
OneConversation ==
    ~died /\ (\A r \in Requests : requests[r] = Idle) =>
        LET existing == {t \in Threads : creator[t] # "nobody"}
        IN  /\ \A t \in existing : participants[t] = People
            /\ overlapped \/ Cardinality(existing) <= 1
=============================================================================
