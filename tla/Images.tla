-------------------------------- MODULE Images --------------------------------
(***************************************************************************)
(* The images of one property and its cover (apps/properties).  Every save *)
(* of an image that is marked as the cover takes the mark from all others  *)
(* first, in one transaction.  An edit saves all columns of the image that *)
(* was loaded, and inserts the row again if it is gone.                    *)
(*                                                                         *)
(* A definition marked "fault" is a variant of the one after it with a     *)
(* plausible mistake, to show that a property notices it.                  *)
(***************************************************************************)
EXTENDS Naturals, FiniteSets

CONSTANTS
    Calls,     \* requests that can be in progress at the same time
    Pictures,  \* PropertyImage rows
    MaxImages, \* PROPERTY_IMAGE_MAX_COUNT
    Failures   \* whether the process of a call can die

VARIABLES
    images,    \* the rows that exist
    covers,    \* the rows with is_cover
    calls,     \* what each call has loaded and has still to do
    deleted,   \* history: rows that were deleted
    declined,  \* history: the cover lost its mark by an edit
    disturbed  \* history: two calls overlapped, or one died

vars == <<images, covers, calls, deleted, declined, disturbed>>

Idle == [step |-> "idle", cover |-> FALSE, image |-> "none"]

Init ==
    /\ images = {} /\ covers = {} /\ deleted = {}
    /\ calls = [c \in Calls |-> Idle]
    /\ declined = FALSE /\ disturbed = FALSE

Begin(c, loaded) ==
    /\ calls[c] = Idle
    /\ calls' = [calls EXCEPT ![c] = loaded]
    /\ disturbed' = (disturbed \/ \E d \in Calls : calls[d] # Idle)
    /\ UNCHANGED <<images, covers, deleted, declined>>

End(c, from) ==
    /\ calls[c].step = from
    /\ calls' = [calls EXCEPT ![c] = Idle]
    /\ UNCHANGED disturbed

(* PropertyImage.save; an image that is not the cover leaves the others    *)
(* alone.                                                                  *)
SaveOnly(i, cover) ==                                            \* fault
    /\ images' = images \cup {i}
    /\ covers' = IF cover THEN covers \cup {i} ELSE covers \ {i}
Save(i, cover) ==
    /\ images' = images \cup {i}
    /\ covers' = IF cover THEN {i} ELSE covers \ {i}

-----------------------------------------------------------------------------
(* An upload counts the images, then looks whether there is one.           *)
HasRoom == Cardinality(images) < MaxImages

BeginUpload(c, cover) ==
    HasRoom /\ Begin(c, [Idle EXCEPT !.step = "upload", !.cover = cover])

LookForFirst(c) ==
    /\ calls[c].step = "upload"
    /\ calls' = [calls EXCEPT ![c].step = "insert",
                              ![c].cover = @ \/ images = {}]
    /\ UNCHANGED <<images, covers, deleted, declined, disturbed>>

Upload(c, i) ==
    /\ i \notin images \cup deleted
    /\ End(c, "insert")
    /\ Save(i, calls[c].cover)
    /\ declined' = (declined /\ ~calls[c].cover)
    /\ UNCHANGED deleted

(* An edit of the metadata names the mark or keeps what was loaded.        *)
BeginEdit(c, i, cover) ==
    /\ i \in images
    /\ Begin(c, [step |-> "edit", cover |-> cover, image |-> i])

SaveEdit(c) ==
    LET i == calls[c].image
    IN  /\ End(c, "edit")
        /\ Save(i, calls[c].cover)
        /\ declined' = ((declined \/ i \in covers) /\ ~calls[c].cover)
        /\ UNCHANGED deleted

(* set_as_cover updates the one column, and fails if the row is gone.      *)
BeginCover(c, i) ==
    /\ i \in images
    /\ Begin(c, [step |-> "cover", cover |-> TRUE, image |-> i])

SetAsCover(c) ==
    /\ End(c, "cover")
    /\ IF calls[c].image \in images
       THEN Save(calls[c].image, TRUE) /\ declined' = FALSE
       ELSE UNCHANGED <<images, covers, declined>>
    /\ UNCHANGED deleted

(* Deleting an image chooses another cover if there is none.               *)
KeepCover == {}                                                  \* fault
Replacements == IF covers = {} THEN images ELSE {}

BeginDelete(c, i) ==
    /\ i \in images
    /\ Begin(c, [step |-> "delete", cover |-> FALSE, image |-> i])

Delete(c) ==
    LET i == calls[c].image
    IN  /\ calls[c].step = "delete"
        /\ images' = images \ {i} /\ covers' = covers \ {i}
        /\ deleted' = deleted \cup {i}
        /\ calls' = [calls EXCEPT ![c].step = "replace"]
        /\ UNCHANGED <<declined, disturbed>>

ChooseReplacement(c) ==
    /\ calls[c].step = "replace"
    /\ \/ \E i \in Replacements :
             calls' = [calls EXCEPT ![c] = [step |-> "cover", cover |-> TRUE, image |-> i]]
       \/ Replacements = {} /\ calls' = [calls EXCEPT ![c] = Idle]
    /\ UNCHANGED <<images, covers, deleted, declined, disturbed>>

Die(c) ==
    /\ Failures /\ calls[c] # Idle
    /\ calls' = [calls EXCEPT ![c] = Idle]
    /\ disturbed' = TRUE
    /\ UNCHANGED <<images, covers, deleted, declined>>

Next ==
    \E c \in Calls :
        \/ \E cover \in BOOLEAN : BeginUpload(c, cover)
        \/ LookForFirst(c)
        \/ \E i \in Pictures :
              \/ Upload(c, i) \/ BeginCover(c, i) \/ BeginDelete(c, i)
              \/ \E cover \in BOOLEAN : BeginEdit(c, i, cover)
        \/ SaveEdit(c) \/ SetAsCover(c) \/ Delete(c) \/ ChooseReplacement(c)
        \/ Die(c)

Spec == Init /\ [][Next]_vars

-----------------------------------------------------------------------------
(* Properties *)

(* The marks are of images that exist.                                     *)
TypeOK ==
    /\ images \subseteq Pictures /\ covers \subseteq images
    /\ deleted \subseteq Pictures

(* However calls overlap or die, a property has at most one cover.         *)
OneCover == Cardinality(covers) <= 1

(* Without overlap a property with images has a cover, through any uploads *)
(* and deletions, unless an edit took the mark away; there are no more     *)
(* images than the limit; and no deleted image is back.                    *)
CoverStands ==
    ~disturbed =>
        /\ (\A c \in Calls : calls[c] = Idle) /\ images # {} /\ ~declined => covers # {}
        /\ Cardinality(images) <= MaxImages
        /\ images \cap deleted = {}
=============================================================================
