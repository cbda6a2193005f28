---------------------------- MODULE MCMessaging ----------------------------
(* Instances of Messaging, Conversations and Assistant for TLC: a          *)
(* behaviour opens threads, moves one that is open or talks with the       *)
(* assistant.                                                              *)
EXTENDS Messaging, TLC

CONSTANTS Requests, Threads, Failures        \* of Conversations
CONSTANTS Modes, SessionSize, MaxRounds      \* of Assistant

ASSUME MessagingPartsAssumption ==
    /\ "nobody" \notin Users
    /\ SessionSize \in Nat /\ MaxRounds \in Nat

VARIABLES
    part,                                    \* the part that moves
    creator, participants, requests,         \* Conversations
    answered, overlapped, died,
    provider, rows, cached, sends, total     \* Assistant, and overlapped

opening == <<creator, participants, requests, answered, died>>
asking == <<provider, rows, cached, sends, total>>

Conversations == INSTANCE Conversations WITH People <- Users
Assistant == INSTANCE Assistant WITH Sends <- Calls, Crashes <- Failures

Unused == "unused"

OpeningUnused ==
    creator = Unused /\ participants = Unused /\ requests = Unused /\ answered = Unused /\ died = Unused

AskingUnused ==
    provider = Unused /\ rows = Unused /\ cached = Unused /\ sends = Unused /\ total = Unused

(* One of the initial states of the part that stays as it is.              *)
Alike == \A c, d \in Calls : calls[c] = calls[d]

PartsInit ==
    /\ Init
    /\ \/ part = "thread" /\ OpeningUnused /\ AskingUnused /\ overlapped = FALSE
       \/ part = "opening" /\ Conversations!Init /\ AskingUnused /\ Alike
       \/ part = "asking" /\ Assistant!Init /\ OpeningUnused /\ Alike

PartsNext ==
    \/ part = "thread" /\ Next /\ UNCHANGED <<part, opening, asking, overlapped>>
    \/ part = "opening" /\ Conversations!Next /\ UNCHANGED <<part, vars, asking>>
    \/ part = "asking" /\ Assistant!Next /\ UNCHANGED <<part, vars, opening>>

PartsSpec == PartsInit /\ [][PartsNext]_<<part, vars, opening, asking, overlapped>>

(* At most two sends to the assistant overlap, and a third one is explored *)
(* with overlap or with a death but not with both.                         *)
TwoAtATime ==
    part = "asking" /\ overlapped =>
        /\ Cardinality(Assistant!Working) <= 2
        /\ (\E c \in Calls : sends[c].step = "dead") =>
              \E c \in Calls : sends[c] = Assistant!Idle

Symmetry == Permutations(Calls) \cup Permutations(Users)

(* The types of the parts.                                                 *)
PartsTypeOK ==
    /\ part = "thread" => TypeOK
    /\ part = "opening" => Conversations!TypeOK
    /\ part = "asking" => Assistant!TypeOK

(* Who was given a thread takes part in it, and without overlap there is   *)
(* one: see Conversations.  The assistant's session agrees with its rows,  *)
(* and its total with the tokens used: see Assistant.                      *)
ConversationsAgree ==
    /\ part = "opening" => Conversations!AnsweredTakePart /\ Conversations!OneConversation
    /\ part = "asking" =>
          Assistant!SessionIsOfRows /\ Assistant!SessionIsCurrent /\ Assistant!TokensAreCounted
=============================================================================
