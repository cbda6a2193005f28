----------------------------- MODULE Walkthroughs -----------------------------
(***************************************************************************)
(* The walkthrough videos of one property (apps/inspections): uploads up   *)
(* to a limit, moderation that looks at no status, and one video that is   *)
(* featured, kept apart by a constraint of the database.                   *)
(*                                                                         *)
(* A definition marked "fault" is a variant of the one after it with a     *)
(* plausible mistake, to show that a property notices it.                  *)
(***************************************************************************)
EXTENDS Naturals, FiniteSets

CONSTANTS
    Calls,     \* requests that can be in progress at the same time
    Videos,    \* PropertyWalkthrough rows
    MaxVideos, \* WALKTHROUGH_MAX_VIDEOS_PER_PROPERTY
    Moves,     \* the statuses that are set, of WalkthroughStatus
    Failures   \* whether the process of a call can die

VARIABLES
    videos,    \* status and is_featured of each row
    calls,     \* what each call has loaded and has still to save
    approved,  \* history: videos that an administrator approved at some time
    chosen,    \* history: the videos that should be featured
    revived,   \* history: videos that left the archive
    disturbed  \* history: two calls overlapped, or one died

vars == <<videos, calls, approved, chosen, revived, disturbed>>
history == <<approved, chosen, revived>>

Absent == [status |-> "absent", featured |-> FALSE]

WalkthroughStatus == {"draft", "pending_review", "approved", "rejected", "hidden", "archived"}

Idle == [step |-> "idle", video |-> "none", row |-> Absent]

Init ==
    /\ videos = [v \in Videos |-> Absent]
    /\ calls = [c \in Calls |-> Idle]
    /\ approved = {} /\ chosen = {} /\ revived = {}
    /\ disturbed = FALSE

Existing == {v \in Videos : videos[v] # Absent}
Featured == {v \in Videos : videos[v].featured}

Begin(c, loaded) ==
    /\ calls[c] = Idle
    /\ calls' = [calls EXCEPT ![c] = loaded]
    /\ disturbed' = (disturbed \/ \E d \in Calls : calls[d] # Idle)
    /\ UNCHANGED <<videos, history>>

End(c, from) ==
    /\ calls[c].step = from
    /\ calls' = [calls EXCEPT ![c] = Idle]
    /\ UNCHANGED disturbed

(* unique_featured_walkthrough_per_property; what does not fit fails.      *)
Fits(v, row) == row.featured => Featured \subseteq {v}

Save(v, row) ==
    IF Fits(v, row)
    THEN /\ videos' = [videos EXCEPT ![v] = row]
         /\ chosen' = IF row.featured THEN {v} ELSE chosen \ {v}
    ELSE UNCHANGED <<videos, chosen>>

-----------------------------------------------------------------------------
(* Archived videos do not count.                                           *)
Shown == {v \in Existing : videos[v].status # "archived"}

HasRoomBeside == Cardinality(Shown) <= MaxVideos                 \* fault
HasRoom == Cardinality(Shown) < MaxVideos

BeginUpload(c, featured) ==
    /\ HasRoom
    /\ Begin(c, [step |-> "upload", video |-> "none",
                 row |-> [status |-> "draft", featured |-> featured]])

Upload(c, v) ==
    /\ v \notin Existing
    /\ End(c, "upload") /\ Save(v, calls[c].row)
    /\ UNCHANGED <<approved, revived>>

(* An edit saves all columns of the row that was loaded.                   *)
BeginUpdate(c, v, featured) ==
    /\ v \in Existing
    /\ Begin(c, [step |-> "update", video |-> v,
                 row |-> [videos[v] EXCEPT !.featured = featured]])

Update(c) ==
    /\ End(c, "update") /\ Save(calls[c].video, calls[c].row)
    /\ UNCHANGED <<approved, revived>>

(* submit, approve, reject, hide, restore and destroy save the status and  *)
(* look at none.                                                           *)
SetStatus(v, status) ==
    /\ v \in Existing
    /\ videos' = [videos EXCEPT ![v].status = status]
    /\ approved' = IF status = "approved" THEN approved \cup {v} ELSE approved
    /\ revived' = IF videos[v].status = "archived" /\ status # "archived"
                  THEN revived \cup {v} ELSE revived
    /\ disturbed' = (disturbed \/ \E c \in Calls : calls[c] # Idle)
    /\ UNCHANGED <<calls, chosen>>

(* set_featured clears the others and then marks one, each in a            *)
(* transaction of its own.                                                 *)
BeginFeature(c, v) ==
    /\ v \in Existing
    /\ Begin(c, [step |-> "clear", video |-> v, row |-> Absent])

ClearFew(v) == {w \in Featured \ {v} : videos[w].status = "approved"}  \* fault
Cleared(v) == Featured \ {v}

ClearFeatured(c) ==
    /\ calls[c].step = "clear"
    /\ videos' = [v \in Videos |-> IF v \in Cleared(calls[c].video)
                                   THEN [videos[v] EXCEPT !.featured = FALSE] ELSE videos[v]]
    /\ calls' = [calls EXCEPT ![c].step = "feature"]
    /\ UNCHANGED <<history, disturbed>>

SetFeatured(c) ==
    LET v == calls[c].video
        row == [videos[v] EXCEPT !.featured = TRUE]
    IN  /\ End(c, "feature")
        /\ videos' = IF Fits(v, row) THEN [videos EXCEPT ![v] = row] ELSE videos
        /\ chosen' = {v}
        /\ UNCHANGED <<approved, revived>>

Die(c) ==
    /\ Failures /\ calls[c] # Idle
    /\ calls' = [calls EXCEPT ![c] = Idle]
    /\ disturbed' = TRUE
    /\ UNCHANGED <<videos, history>>

Next ==
    \/ \E v \in Videos, status \in Moves \ {"draft"} : SetStatus(v, status)
    \/ \E c \in Calls :
          \/ \E featured \in BOOLEAN : BeginUpload(c, featured)
          \/ \E v \in Videos :
                \/ Upload(c, v) \/ BeginFeature(c, v)
                \/ \E featured \in BOOLEAN : BeginUpdate(c, v, featured)
          \/ Update(c) \/ ClearFeatured(c) \/ SetFeatured(c) \/ Die(c)

Spec == Init /\ [][Next]_vars

-----------------------------------------------------------------------------
(* Properties *)

(* Rows keep their types.                                                  *)
TypeOK == \A v \in Videos : videos[v].status \in WalkthroughStatus \cup {"absent"}

(* Without overlap the featured video is the one that was last chosen,     *)
(* though archived videos keep their mark until then.                      *)
FeaturedIsChosen ==
    ~disturbed /\ (\A c \in Calls : calls[c] = Idle) => Featured = chosen

(* Without overlap there are no more videos than the limit, apart from     *)
(* those that left the archive; and however calls overlap, what the public *)
(* sees was approved at some time.                                         *)
PublicIsReviewed ==
    /\ ~disturbed => Cardinality(Shown \ revived) <= MaxVideos
    /\ \A v \in Videos : videos[v].status = "approved" => v \in approved
=============================================================================
