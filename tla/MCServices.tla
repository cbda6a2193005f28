------------------------------ MODULE MCServices ------------------------------
(* Instances of the services marketplace for TLC.  No part writes a column *)
(* that another part models (the rating summary, which an edit of the      *)
(* profile saves again, is left to Reviews), so one run checks them side   *)
(* by side: a behaviour chooses a part and moves its variables alone.      *)
EXTENDS Providers, FiniteSets, TLC

CONSTANTS
    Items, NoItem, MaxCount,    \* of Showcase
    Bookings, NoBooking, Users  \* of Reviews

ASSUME ServicesAssumption ==
    /\ MaxCount \in Nat
    /\ IsFiniteSet(Calls) /\ Calls # {}

VARIABLES
    part,                                                      \* the part that moves
    work, overlapped,                                          \* calls of the other parts
    rows, unset,                                               \* Showcase
    bookings, reviews, flags, summary, admitted, twice, died,  \* Reviews
    quote, complaint                                           \* ServiceDesk

Parts == {"profile", "images", "trades", "reviews", "desk"}

lists == <<rows, unset>>
ratings == <<bookings, reviews, flags, summary, admitted, twice, died>>
desk == <<quote, complaint>>
others == <<work, overlapped, lists, ratings, desk>>

List(portfolio) == INSTANCE Showcase WITH Portfolio <- portfolio,
                       calls <- work, disturbed <- overlapped
Reviews == INSTANCE Reviews WITH calls <- work, disturbed <- overlapped
Desk == INSTANCE ServiceDesk WITH calls <- work

Unused == "unused"
NoWork == work = Unused /\ overlapped = Unused
NoLists == rows = Unused /\ unset = Unused
NoReviews == /\ bookings = Unused /\ reviews = Unused /\ flags = Unused
             /\ summary = Unused /\ admitted = Unused /\ twice = Unused /\ died = Unused
NoDesk == quote = Unused /\ complaint = Unused

PartsInit ==
    /\ Init
    /\ \/ part = "profile" /\ NoWork /\ NoLists /\ NoReviews /\ NoDesk
       \/ part = "images" /\ List(TRUE)!Init /\ NoReviews /\ NoDesk
       \/ part = "trades" /\ List(FALSE)!Init /\ NoReviews /\ NoDesk
       \/ part = "reviews" /\ NoLists /\ Reviews!Init /\ NoDesk
       \/ part = "desk" /\ NoLists /\ NoReviews /\ Desk!Init /\ overlapped = Unused

PartsNext ==
    \/ part = "profile" /\ Next /\ UNCHANGED <<part, others>>
    \/ part = "images" /\ List(TRUE)!Next /\ UNCHANGED <<part, vars, ratings, desk>>
    \/ part = "trades" /\ List(FALSE)!Next /\ UNCHANGED <<part, vars, ratings, desk>>
    \/ part = "reviews" /\ Reviews!Next /\ UNCHANGED <<part, vars, lists, desk>>
    \/ part = "desk" /\ Desk!Next /\ UNCHANGED <<part, vars, lists, ratings, overlapped>>

PartsSpec == PartsInit /\ [][PartsNext]_<<part, vars, others>>

(* Appeals are explored without overlap, and overlap without appeals; two  *)
(* bookings without overlap or flags, and those with one booking.          *)
Bounded ==
    /\ disturbed => appeals = <<>>
    /\ part = "reviews" /\ Cardinality({b \in Bookings : bookings[b] # "pending"}) > 1 =>
          ~overlapped /\ \A b \in Bookings : flags[b] = {}

Symmetry == Permutations(Calls) \cup Permutations(Users)

(* The properties of the parts. *)
PartsTypeOK ==
    /\ part = "profile" => TypeOK
    /\ part = "images" => List(TRUE)!TypeOK
    /\ part = "trades" => List(FALSE)!TypeOK
    /\ part = "reviews" => Reviews!TypeOK

(* A list has at most one flagged item, the portfolio keeps its limit, and *)
(* without overlap the flagged item is replaced when it goes: see Showcase.*)
ListsAreKept ==
    /\ part = "images" => List(TRUE)!ListWithinBounds /\ List(TRUE)!FlagIsKept
    /\ part = "trades" => List(FALSE)!ListWithinBounds /\ List(FALSE)!FlagIsKept

(* What a profile says of appeals and warnings is backed by them: see      *)
(* Providers.                                                              *)
ProfileAgrees == SanctionsAreBacked /\ GovernanceAgrees

(* Whatever calls overlap, reviews, quote requests and complaints show     *)
(* nothing that did not happen, and three flags withdraw a review; without *)
(* overlap the rating counts the published reviews: see Reviews and        *)
(* ServiceDesk.                                                            *)
RecordsAreTrue ==
    /\ part = "reviews" => /\ Reviews!RatingAgrees
                           /\ Reviews!FlagsAreHeeded
                           /\ Reviews!ReviewsAreEarned
    /\ part = "desk" => Desk!StampsFollowStatus

(* A closed quote request is opened again by older calls alone: see        *)
(* ServiceDesk.                                                            *)
QuoteMovesForward == [][part = "desk" => Desk!ForwardUnlessOlder]_<<desk, work>>
=============================================================================
