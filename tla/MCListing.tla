------------------------------ MODULE MCListing ------------------------------
(* Instances for TLC of what is kept about a listing: a                    *)
(* behaviour moves the listing and its verification, what one user wants   *)
(* of it, the listing's images, or its walkthrough videos.                 *)
EXTENDS ListingVerification, FiniteSets, TLC

CONSTANTS
    Viewings, NoViewing, MaxFollowUps,                 \* of Leads
    Pictures, MaxImages,                               \* of Images
    Videos, MaxVideos, Moves                           \* of Walkthroughs

ASSUME ListingPartsAssumption ==
    /\ MaxImages \in Nat /\ MaxVideos \in Nat
    /\ Moves \subseteq {"draft", "pending_review", "approved", "rejected", "hidden",
                        "archived"}

VARIABLES
    part,                                              \* the part that moves
    inquiry, viewings, applications, followUps,        \* Leads
    grant, verified, entitled, older,
    images, covers, deleted, declined,                 \* Images
    videos, approved, chosen, revived,                 \* Walkthroughs
    work, overlapped                                   \* of all but the listing

lead == <<inquiry, viewings, applications, followUps, grant, verified, entitled, older>>
album == <<images, covers, deleted, declined>>
films == <<videos, approved, chosen, revived>>
others == <<lead, album, films, work, overlapped>>

Lead == INSTANCE Leads WITH Applications <- Rows, calls <- work, disturbed <- overlapped

Album == INSTANCE Images WITH calls <- work, disturbed <- overlapped
Films == INSTANCE Walkthroughs WITH calls <- work, disturbed <- overlapped

Unused == "unused"
NoLead == /\ inquiry = Unused /\ viewings = Unused /\ applications = Unused
          /\ followUps = Unused /\ grant = Unused /\ verified = Unused /\ entitled = Unused
          /\ older = Unused
NoAlbum == images = Unused /\ covers = Unused /\ deleted = Unused /\ declined = Unused
NoFilms == videos = Unused /\ approved = Unused /\ chosen = Unused /\ revived = Unused

PartsInit ==
    /\ Init
    /\ \/ /\ part = "listing" /\ NoLead /\ NoAlbum /\ NoFilms
          /\ work = Unused /\ overlapped = Unused
       \/ part = "lead" /\ Lead!Init /\ NoAlbum /\ NoFilms
       \/ part = "images" /\ Album!Init /\ NoLead /\ NoFilms
       \/ part = "videos" /\ Films!Init /\ NoLead /\ NoAlbum

PartsNext ==
    \/ part = "listing" /\ Next /\ UNCHANGED <<part, others>>
    \/ part = "lead" /\ Lead!Next /\ UNCHANGED <<part, vars, album, films>>
    \/ part = "images" /\ Album!Next /\ UNCHANGED <<part, vars, lead, films>>
    \/ part = "videos" /\ Films!Next /\ UNCHANGED <<part, vars, lead, album>>

PartsSpec == PartsInit /\ [][PartsNext]_<<part, vars, others>>

Symmetry == Permutations(Calls) \cup Permutations(Rows)

(* A listing that does not move can have any content.                      *)
OneListing == listing.content = CHOOSE content \in Content : TRUE

(* Changes of the agent's assignment are explored before anything else is  *)
(* done with the lead, stages and follow-ups before there are rows and a   *)
(* new status, overlap while an application can still be submitted, and    *)
(* an inquiry that is contacted or ended before there are applications.    *)
NoRows ==
    /\ \A v \in Viewings : viewings[v] = Lead!Absent
    /\ \A a \in Rows : applications[a] = Lead!NoApplication
Untouched == NoRows /\ inquiry.status = "new"

BoundedLead ==
    /\ \/ grant.status = "absent" /\ verified
       \/ Untouched /\ inquiry.stage = "new" /\ followUps = 0
    /\ inquiry.stage # "new" => Untouched /\ followUps = 0
    /\ followUps > 0 => Untouched
    /\ overlapped => \E a \in Rows : applications[a] = Lead!NoApplication
    /\ \/ \A a \in Rows : applications[a] = Lead!NoApplication
       \/ inquiry.status \in {"new", "viewing_scheduled"}

(* Videos are inserted in the order of their names, which are numbers.     *)
(* Three videos, and two with overlap, are explored apart from videos that *)
(* left the archive.                                                       *)
BoundedFilms ==
    /\ Films!Existing = 1..Cardinality(Films!Existing)
    /\ overlapped => Cardinality(Films!Existing) <= 2
    /\ revived # {} => Cardinality(Films!Existing) <= IF overlapped THEN 1 ELSE 2

Bounded ==
    /\ part # "listing" => OneListing
    /\ part = "lead" => BoundedLead
    /\ part = "videos" => BoundedFilms

(* The types of the parts.                                                 *)
PartsTypeOK ==
    /\ part = "listing" => TypeOK
    /\ part = "lead" => Lead!TypeOK
    /\ part = "images" => Album!TypeOK
    /\ part = "videos" => Films!TypeOK

(* What a user asked for, was shown and applied for agrees with what the   *)
(* owner's people see of it: see Leads.                                    *)
LeadsAgree ==
    part = "lead" =>
        /\ Lead!OneActiveApplication
        /\ Lead!LinkedViewingStands
        /\ Lead!FollowUpsAgree
        /\ Lead!AssigneeWasEntitled

(* A listing shows one cover that somebody chose or was chosen for them,   *)
(* and videos that were reviewed, one of them featured: see Images and     *)
(* Walkthroughs.                                                           *)
MediaAgrees ==
    /\ part = "images" => Album!OneCover /\ Album!CoverStands
    /\ part = "videos" => Films!FeaturedIsChosen /\ Films!PublicIsReviewed

(* Only calls older than what they decided by move an inquiry, a viewing   *)
(* or an application as nobody declared: see Leads.                        *)
LeadsMoveAsDeclared == [][part = "lead" => Lead!DeclaredUnlessOlder]_<<lead, work>>
=============================================================================
