------------------------------ MODULE Assistant ------------------------------
(***************************************************************************)
(* One conversation with the AI assistant (apps/assistant).  A send stores *)
(* the question, takes the session's history from the cache or, when the   *)
(* cache has none, from the last rows, calls the provider with at most     *)
(* MaxRounds rounds of tools, stores the answer, adds the tokens and puts  *)
(* the longer history back; nothing of it is in a transaction, and sends   *)
(* of one conversation may overlap.                                        *)
(*                                                                         *)
(* A definition marked "fault" is a variant of the one after it with a     *)
(* plausible mistake, to show that a property notices it.                  *)
(***************************************************************************)
EXTENDS Naturals, Sequences, FiniteSetsExt, SequencesExt

CONSTANTS
    Sends,        \* posts to the conversation, each made once
    Modes,        \* values of AI_PROVIDER_MODE, "disabled" among them
    SessionSize,  \* SESSION_CACHE_MAX_MESSAGES
    MaxRounds,    \* MAX_TOOL_ROUNDS
    Crashes       \* whether the process of a send can die

VARIABLES
    provider,   \* of the AIConversation, "none" while there is none
    rows,       \* its AIMessage rows by created_at
    cached,     \* the session in the cache
    sends,      \* where each send is
    total,      \* total_output_tokens; the input tokens are counted alike
    overlapped  \* history: two sends overlapped

vars == <<provider, rows, cached, sends, total, overlapped>>

Nothing == <<[role |-> "none"]>>    \* no session in the cache
Question(s) == [role |-> "user", send |-> s]
Reply(s) == [role |-> "assistant", send |-> s]
Idle == [step |-> "idle", history |-> <<>>, rounds |-> 0, tokens |-> 0]
Ended == {"idle", "done", "unavailable", "dead"}
Working == {s \in Sends : sends[s].step \notin Ended}

Init ==
    /\ provider = "none" /\ rows = <<>> /\ cached = Nothing
    /\ sends = [s \in Sends |-> Idle]
    /\ total = 0 /\ overlapped = FALSE

(* get_active_provider_mode; without it create answers 503.                *)
Available(mode) == mode # "disabled"

(* AIConversationViewSet.perform_create                                    *)
Start(mode) ==
    /\ provider = "none" /\ Available(mode)
    /\ provider' = mode
    /\ UNCHANGED <<rows, cached, sends, total, overlapped>>

Ask(s) ==
    /\ provider # "none" /\ sends[s] = Idle
    /\ rows' = Append(rows, Question(s))
    /\ sends' = [sends EXCEPT ![s].step = "look"]
    /\ overlapped' = (overlapped \/ Working # {})
    /\ UNCHANGED <<provider, cached, total>>

(* history[-SESSION_CACHE_MAX_MESSAGES:]                                   *)
OldestTurns(turns) == SubSeq(turns, 1, Min({SessionSize, Len(turns)}))  \* fault
LatestTurns(turns) ==
    SubSeq(turns, IF Len(turns) > SessionSize THEN Len(turns) - SessionSize + 1 ELSE 1, Len(turns))

(* _get_session_history: the cache, or the rows, which then fill it.  The  *)
(* rows hold the question of this send already, which is added once more.  *)
LookUp(s) ==
    /\ sends[s].step = "look"
    /\ sends' = [sends EXCEPT ![s] =
          IF cached = Nothing
          THEN [@ EXCEPT !.step = "load"]
          ELSE [@ EXCEPT !.step = "call", !.history = cached]]
    /\ UNCHANGED <<provider, rows, cached, total, overlapped>>

LoadNewestFirst(s) ==                                            \* fault
    /\ sends[s].step = "load"
    /\ sends' = [sends EXCEPT ![s].step = "fill", ![s].history = Reverse(LatestTurns(rows))]
    /\ UNCHANGED <<provider, rows, cached, total, overlapped>>

Load(s) ==
    /\ sends[s].step = "load"
    /\ sends' = [sends EXCEPT ![s].step = "fill", ![s].history = LatestTurns(rows)]
    /\ UNCHANGED <<provider, rows, cached, total, overlapped>>

Fill(s) ==
    /\ sends[s].step = "fill"
    /\ cached' = LatestTurns(sends[s].history)
    /\ sends' = [sends EXCEPT ![s].step = "call"]
    /\ UNCHANGED <<provider, rows, total, overlapped>>

(* What the provider is asked: the demo answers at once, calls no tool and *)
(* reports no usage; Anthropic may fail, call tools and count tokens.      *)
CallsOut == provider = "anthropic"

(* No key, or an APIError of any of the calls: 503, the question stays.    *)
Unavailable(s) ==
    /\ sends[s].step = "call" /\ CallsOut
    /\ sends' = [sends EXCEPT ![s].step = "unavailable"]
    /\ UNCHANGED <<provider, rows, cached, total, overlapped>>

(* An answer of the provider; a tool that fails is an answer to it.        *)
Respond(s, tools) ==
    LET used == sends[s].tokens + (IF CallsOut THEN 1 ELSE 0)
        again == tools /\ sends[s].rounds < MaxRounds
    IN  /\ sends[s].step = "call" /\ (tools => CallsOut)
        /\ sends' = IF again
                    THEN [sends EXCEPT ![s].rounds = @ + 1, ![s].tokens = used]
                    ELSE [sends EXCEPT ![s].step = "save", ![s].tokens = used]
        /\ UNCHANGED <<provider, rows, cached, total, overlapped>>

Save(s) ==
    /\ sends[s].step = "save"
    /\ rows' = Append(rows, Reply(s))
    /\ sends' = [sends EXCEPT ![s].step = "count"]
    /\ UNCHANGED <<provider, cached, total, overlapped>>

CountOwn(s) ==                                                   \* fault
    /\ sends[s].step = "count"
    /\ total' = sends[s].tokens
    /\ sends' = [sends EXCEPT ![s].step = "remember"]
    /\ UNCHANGED <<provider, rows, cached, overlapped>>

Count(s) ==
    /\ sends[s].step = "count"
    /\ total' = total + sends[s].tokens
    /\ sends' = [sends EXCEPT ![s].step = "remember"]
    /\ UNCHANGED <<provider, rows, cached, overlapped>>

Remember(s) ==
    /\ sends[s].step = "remember"
    /\ cached' = LatestTurns(sends[s].history \o <<Question(s), Reply(s)>>)
    /\ sends' = [sends EXCEPT ![s] = [Idle EXCEPT !.step = "done", !.tokens = sends[s].tokens]]
    /\ UNCHANGED <<provider, rows, total, overlapped>>

(* SESSION_CACHE_TTL_SECONDS have passed, or the cache was emptied.        *)
Expire ==
    /\ cached # Nothing
    /\ cached' = Nothing
    /\ UNCHANGED <<provider, rows, sends, total, overlapped>>

Die(s) ==
    /\ Crashes /\ s \in Working
    /\ sends' = [sends EXCEPT ![s].step = "dead"]
    /\ UNCHANGED <<provider, rows, cached, total, overlapped>>

Next ==
    \/ \E mode \in Modes : Start(mode)
    \/ \E s \in Sends :
          \/ Ask(s) \/ LookUp(s) \/ Load(s) \/ Fill(s) \/ Unavailable(s)
          \/ \E tools \in BOOLEAN : Respond(s, tools)
          \/ Save(s) \/ Count(s) \/ Remember(s) \/ Die(s)
    \/ Expire

Spec == Init /\ [][Next]_vars

-----------------------------------------------------------------------------
(* Properties *)

Turns == {Question(s) : s \in Sends} \cup {Reply(s) : s \in Sends}
Times(turn, turns) == Cardinality({i \in DOMAIN turns : turns[i] = turn})
Answers(turns) == {i \in DOMAIN turns : turns[i].role = "assistant"}
LastAnswer(turns) == turns[Max(Answers(turns))]
Place(turn) == CHOOSE i \in DOMAIN rows : rows[i] = turn

(* Rows, sessions and sends are made of turns of this conversation.        *)
TypeOK ==
    /\ provider \in (Modes \ {"disabled"}) \cup {"none"}
    /\ rows \in Seq(Turns) /\ IsInjective(rows)
    /\ cached = Nothing \/ (cached \in Seq(Turns) /\ Len(cached) <= SessionSize)
    /\ \A s \in Sends : sends[s].rounds \in 0 .. MaxRounds
    /\ total \in Nat

(* However sends overlap, fail or lose the cache in between, a session is  *)
(* made of stored turns, the question of a send is in it at most twice     *)
(* (once from the rows, once from the send) and an answer at most once.    *)
SessionIsOfRows ==
    cached # Nothing =>
        \A i \in DOMAIN cached :
            /\ cached[i] \in ToSet(rows)
            /\ Times(cached[i], cached) <= IF cached[i].role = "user" THEN 2 ELSE 1

(* Sends that do not overlap leave the session in the order of the rows,   *)
(* and between two of them it ends with the latest answer that there is.   *)
SessionIsCurrent ==
    ~overlapped /\ cached # Nothing =>
        /\ \A i, j \in DOMAIN cached : i < j => Place(cached[i]) <= Place(cached[j])
        /\ (Working = {} /\ (\A s \in Sends : sends[s].step # "dead") /\ Answers(cached) # {}) =>
              LastAnswer(cached) = LastAnswer(rows)

(* The conversation's total is what its counted answers have used: no send *)
(* takes the tokens of another away.                                       *)
TokensAreCounted ==
    (\A s \in Sends : sends[s].step # "dead") =>
        total = SumFunctionOnSet([s \in Sends |-> sends[s].tokens],
                                 {s \in Sends : sends[s].step \in {"remember", "done"}})
=============================================================================
