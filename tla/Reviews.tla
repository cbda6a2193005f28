------------------------------- MODULE Reviews -------------------------------
(***************************************************************************)
(* Bookings of one provider, the customers' reviews of them, what users    *)
(* flag and administrators decide, and the rating summary that the         *)
(* provider's row keeps of the published reviews (apps/services).  Averages*)
(* and counts are functions of the set of reviews that were counted, so    *)
(* the summary is that set.                                                *)
(*                                                                         *)
(* A definition marked "fault" is a variant of the one after it with a     *)
(* plausible mistake, to show that a property notices it.                  *)
(***************************************************************************)
EXTENDS Naturals, FiniteSets

CONSTANTS
    Calls,     \* requests that can be in progress at the same time
    Bookings,  \* bookings, each with at most one review
    NoBooking, \* none of them
    Users,     \* users who flag reviews
    Failures   \* whether the process of a call can die

VARIABLES
    bookings,  \* ServiceBooking.status
    reviews,   \* ServiceReview.status, published_at, provider_response
    flags,     \* who flagged the review of each booking
    summary,   \* the reviews and bookings counted in the provider's row
    calls,     \* what each call has loaded and has still to save
    admitted,  \* history: the flags when the review was last published
    twice,     \* history: the reviews that were answered twice
    disturbed, \* history: two calls overlapped, or one died
    died       \* history: a call died

vars == <<bookings, reviews, flags, summary, calls, admitted, twice, disturbed, died>>

BookingStatus == {"pending", "confirmed", "completed", "cancelled"}

ReviewStatus == {"absent", "pending", "published", "flagged", "hidden",
                 "disputed", "removed"}

NoReview == [status |-> "absent", published |-> FALSE, answered |-> FALSE]

Idle == [step |-> "idle", booking |-> NoBooking, loaded |-> NoReview,
         grave |-> FALSE, user |-> NoBooking, counted |-> {}, jobs |-> {}]

Init ==
    /\ bookings = [b \in Bookings |-> "pending"]
    /\ reviews = [b \in Bookings |-> NoReview]
    /\ flags = [b \in Bookings |-> {}]
    /\ summary = [counted |-> {}, jobs |-> {}]
    /\ calls = [c \in Calls |-> Idle]
    /\ admitted = [b \in Bookings |-> {}]
    /\ twice = {}
    /\ disturbed = FALSE /\ died = FALSE

Reviewed(b) == reviews[b].status # "absent"

Published == {b \in Bookings : reviews[b].status = "published"}

Completed == {b \in Bookings : bookings[b] = "completed"}

-----------------------------------------------------------------------------
(* confirm, complete and cancel of a booking.  No endpoint calls them:     *)
(* operators keep bookings up to date in the admin site.                   *)
Booked(b, from, to) ==
    /\ bookings[b] \in from
    /\ bookings' = [bookings EXCEPT ![b] = to]
    /\ UNCHANGED <<reviews, flags, summary, calls, admitted, twice, disturbed, died>>

ConfirmBooking(b) == Booked(b, {"pending"}, "confirmed")
CompleteBooking(b) == Booked(b, {"pending", "confirmed"}, "completed")

CancelAnyBooking(b) == Booked(b, BookingStatus, "cancelled")     \* fault
CancelBooking(b) == Booked(b, BookingStatus \ {"completed"}, "cancelled")

Begin(c, loaded) ==
    /\ calls[c] = Idle
    /\ calls' = [calls EXCEPT ![c] = loaded]
    /\ disturbed' = (disturbed \/ \E d \in Calls : calls[d] # Idle)
    /\ UNCHANGED <<bookings, reviews, flags, summary, admitted, twice, died>>

Load(c, step, b) == Begin(c, [Idle EXCEPT !.step = step, !.booking = b])

Go(c, state) == calls' = [calls EXCEPT ![c] = state]
End(c) == Go(c, Idle)

(* A call saves the review that it works on, and goes on.  No other column *)
(* of the database changes.                                                *)
SaveReview(c, step, row, next) ==
    /\ calls[c].step = step
    /\ reviews' = [reviews EXCEPT ![calls[c].booking] = row]
    /\ Go(c, next)
    /\ UNCHANGED <<bookings, flags, summary, disturbed, died>>

Row(c) == reviews[calls[c].booking]

-----------------------------------------------------------------------------
(* A customer reviews a completed booking.  The check that there is no     *)
(* review yet is repeated by the one-to-one column.                        *)
ReviewEligible(b) == bookings[b] = "completed"

CreateReview(b) ==
    /\ ReviewEligible(b)
    /\ ~Reviewed(b)
    /\ reviews' = [reviews EXCEPT ![b] = [NoReview EXCEPT !.status = "pending"]]
    /\ UNCHANGED <<bookings, flags, summary, calls, admitted, twice, disturbed, died>>

(* While it is pending, for two days, the customer may edit it; the save   *)
(* writes every column as it was loaded.                                   *)
BeginEdit(c, b) ==
    /\ reviews[b].status = "pending"
    /\ Begin(c, [Idle EXCEPT !.step = "edit", !.booking = b, !.loaded = reviews[b]])

SaveEdit(c) ==
    /\ SaveReview(c, "edit", calls[c].loaded, Idle)
    /\ UNCHANGED <<admitted, twice>>

(* The provider responds once; a suspended provider does not.              *)
MayRespondAgain(b) == reviews[b].status = "published"            \* fault
MayRespond(b) == reviews[b].status = "published" /\ ~reviews[b].answered

BeginRespond(c, b) == MayRespond(b) /\ Load(c, "respond", b)

Respond(c) ==
    /\ SaveReview(c, "respond", [Row(c) EXCEPT !.answered = TRUE], Idle)
    /\ twice' = twice \cup (IF Row(c).answered THEN {calls[c].booking} ELSE {})
    /\ UNCHANGED admitted

-----------------------------------------------------------------------------
(* Moderation.  An administrator publishes, restores, hides, disputes or   *)
(* removes a review, whatever its status.  Afterwards the summary is       *)
(* computed again.                                                         *)
Recount(c) == [Idle EXCEPT !.step = "count"]

Verdicts == {"published", "hidden", "disputed", "removed"}

BeginDecision(c, b) == Reviewed(b) /\ Load(c, "decide", b)

SaveDecision(c) ==
    \E verdict \in Verdicts :
        /\ SaveReview(c, "decide",
              [Row(c) EXCEPT !.status = verdict,
                             !.published = @ \/ verdict = "published"],
              Recount(c))
        /\ admitted' = IF verdict = "published"
                       THEN [admitted EXCEPT ![calls[c].booking] = flags[calls[c].booking]]
                       ELSE admitted
        /\ UNCHANGED twice

(* publish of a review that is published saves nothing but the summary.    *)
PublishAgain(c, b) ==
    /\ reviews[b].status = "published"
    /\ Begin(c, Recount(c))

(* A user flags a review, once.  The flags are counted after the insertion;*)
(* a grave reason needs no other flag.                                     *)
Flaggable == {"published", "disputed", "flagged"}

BeginFlag(c, b, u, grave) ==
    /\ reviews[b].status \in Flaggable
    /\ Begin(c, [Idle EXCEPT !.step = "flag", !.booking = b, !.user = u, !.grave = grave])

Heeded == 3

CountedBefore(c) == Cardinality(flags[calls[c].booking]) >= Heeded  \* fault
EnoughFlags(c) == Cardinality(flags[calls[c].booking] \cup {calls[c].user}) >= Heeded

AddFlag(c) ==
    /\ calls[c].step = "flag"
    /\ flags' = [flags EXCEPT ![calls[c].booking] = @ \cup {calls[c].user}]
    /\ IF /\ calls[c].user \notin flags[calls[c].booking]
          /\ EnoughFlags(c) \/ calls[c].grave
       THEN Go(c, [Idle EXCEPT !.step = "withdraw", !.booking = calls[c].booking])
       ELSE End(c)
    /\ UNCHANGED <<bookings, reviews, summary, admitted, twice, disturbed, died>>

Withdraw(c) ==
    /\ SaveReview(c, "withdraw", [Row(c) EXCEPT !.status = "flagged"], Recount(c))
    /\ UNCHANGED <<admitted, twice>>

-----------------------------------------------------------------------------
(* recalculate_provider_rating: one query counts the published reviews,    *)
(* another the completed bookings, and a save writes what they returned.   *)
CountReviews(c) ==
    /\ calls[c].step = "count"
    /\ Go(c, [calls[c] EXCEPT !.step = "jobs", !.counted = Published])
    /\ UNCHANGED <<bookings, reviews, flags, summary, admitted, twice, disturbed, died>>

CountJobs(c) ==
    /\ calls[c].step = "jobs"
    /\ Go(c, [calls[c] EXCEPT !.step = "summarise", !.jobs = Completed])
    /\ UNCHANGED <<bookings, reviews, flags, summary, admitted, twice, disturbed, died>>

SummariseMore(c) ==                                              \* fault
    /\ calls[c].step = "summarise"
    /\ summary' = [counted |-> summary.counted \cup calls[c].counted,
                   jobs |-> calls[c].jobs]
    /\ End(c)
    /\ UNCHANGED <<bookings, reviews, flags, admitted, twice, disturbed, died>>

SaveSummary(c) ==
    /\ calls[c].step = "summarise"
    /\ summary' = [counted |-> calls[c].counted, jobs |-> calls[c].jobs]
    /\ End(c)
    /\ UNCHANGED <<bookings, reviews, flags, admitted, twice, disturbed, died>>

(* An edit of the provider's profile saves every column of the row as it   *)
(* was loaded, the summary included.  The columns of Providers are not in  *)
(* this module.                                                            *)
BeginProfile(c) ==
    Begin(c, [Idle EXCEPT !.step = "profile", !.counted = summary.counted,
                          !.jobs = summary.jobs])

SaveProfile(c) ==
    /\ calls[c].step = "profile"
    /\ summary' = [counted |-> calls[c].counted, jobs |-> calls[c].jobs]
    /\ End(c)
    /\ UNCHANGED <<bookings, reviews, flags, admitted, twice, disturbed, died>>

(* The process of a call ends: what it saved stays saved. *)
Die(c) ==
    /\ Failures
    /\ calls[c] # Idle
    /\ End(c)
    /\ disturbed' = TRUE /\ died' = TRUE
    /\ UNCHANGED <<bookings, reviews, flags, summary, admitted, twice>>

Working == \E b \in Bookings : ConfirmBooking(b) \/ CompleteBooking(b) \/ CancelBooking(b)

Reviewing ==
    \E b \in Bookings :
        \/ CreateReview(b)
        \/ \E c \in Calls : \/ BeginEdit(c, b)
                            \/ BeginRespond(c, b)
                            \/ BeginDecision(c, b)
                            \/ PublishAgain(c, b)
                            \/ \E u \in Users, grave \in BOOLEAN : BeginFlag(c, b, u, grave)

Saving ==
    \E c \in Calls :
        \/ SaveEdit(c)
        \/ Respond(c)
        \/ SaveDecision(c)
        \/ AddFlag(c)
        \/ Withdraw(c)
        \/ CountReviews(c)
        \/ CountJobs(c)
        \/ SaveSummary(c)

ProfileEdited == \E c \in Calls : BeginProfile(c) \/ SaveProfile(c)

Next == Working \/ Reviewing \/ Saving \/ ProfileEdited \/ \E c \in Calls : Die(c)

Spec == Init /\ [][Next]_vars

-----------------------------------------------------------------------------
(* Properties *)

(* Bookings, reviews and flags keep their types; the summary counts        *)
(* bookings of this provider.                                              *)
TypeOK ==
    /\ bookings \in [Bookings -> BookingStatus]
    /\ reviews \in [Bookings -> [status : ReviewStatus, published : BOOLEAN,
                                 answered : BOOLEAN]]
    /\ flags \in [Bookings -> SUBSET Users]
    /\ summary \in [counted : SUBSET Bookings, jobs : SUBSET Bookings]

Quiet == \A c \in Calls : calls[c] = Idle

(* Without overlap the rating that the public sees is that of the          *)
(* published reviews, all of them and no others, and counts no job that    *)
(* was not completed.                                                      *)
RatingAgrees ==
    ~disturbed /\ Quiet =>
        /\ summary.counted = Published
        /\ summary.jobs \subseteq Completed

(* However calls overlap, as long as none dies: a review that three users  *)
(* flagged is withdrawn, unless an administrator published it after the    *)
(* last of the flags.                                                      *)
FlagsAreHeeded ==
    ~died /\ Quiet =>
        \A b \in Published : Cardinality(flags[b]) >= Heeded => admitted[b] = flags[b]

(* Whatever calls overlap or die: what is reviewed was completed, a        *)
(* published review shows when it was published; and without overlap a     *)
(* review is answered once, as the reviews report says.                    *)
ReviewsAreEarned ==
    \A b \in Bookings :
        /\ Reviewed(b) => bookings[b] = "completed"
        /\ reviews[b].status = "published" => reviews[b].published
        /\ ~disturbed => b \notin twice
=============================================================================
