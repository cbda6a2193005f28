---------------------------- MODULE ServicesProofs ----------------------------
(***************************************************************************)
(* The services marketplace, for any number of overlapping calls, appeals, *)
(* items, bookings and users.                                              *)
(***************************************************************************)
EXTENDS MCServices, TLAPS, FiniteSetTheorems, SequenceTheorems

-----------------------------------------------------------------------------
(* The profile of a provider.  A call of the owner that loaded a profile   *)
(* before it was suspended is remembered as older; no other call of his    *)
(* finds the profile suspended.                                            *)

CarriesProfile(c) ==
    /\ calls[c].loaded.warnings <= issued
    /\ calls[c].step = "patch" => calls[c].loaded.status # "suspended"
    /\ calls[c].step \in {"patch", "submit", "deactivate"} /\ ~calls[c].older =>
          profile.status # "suspended"
    /\ calls[c].step = "decide" => calls[c].row \in Rows /\ calls[c].verdict # "submitted"
    /\ calls[c].step = "file" => calls[c].verdict = "submitted"

(* The appeal that the profile shows is the one that was touched last.     *)
Shows == profile.appeal # "none" =>
             touched \in Rows /\ profile.appeal = appeals[touched].status

OneCall ==
    /\ \A c, d \in Calls : calls[c].step # "idle" /\ calls[d].step # "idle" => c = d
    /\ \A c \in Calls : calls[c].step = "idle" => calls[c] = Idle

OneWaits ==
    \A a, b \in Rows :
        /\ appeals[a].status = "submitted" /\ appeals[b].status = "submitted"
        /\ appeals[a].type = appeals[b].type
        => a = b

StillShown(c) ==
    /\ calls[c].step = "patch" => calls[c].loaded = profile
    /\ calls[c].step = "warn" => calls[c].loaded.warnings = profile.warnings
    /\ calls[c].step = "file" => NoOpenAppeal(calls[c].type)
    /\ calls[c].step = "copy" =>
          touched = calls[c].row /\ touched \in Rows /\ appeals[touched].status = calls[c].verdict

ProfileUndisturbed ==
    ~disturbed =>
        /\ OneCall
        /\ profile.warnings = issued
        /\ OneWaits
        /\ \A c \in Calls : StillShown(c)
        /\ (\A c \in Calls : calls[c].step # "copy") => Shows

ProfileInv ==
    /\ TypeOK
    /\ SanctionsAreBacked
    /\ \A c \in Calls : CarriesProfile(c)
    /\ ProfileUndisturbed

LEMMA NewProfileIsAProfile ==
    /\ NewProfile \in Columns
    /\ Idle.step = "idle" /\ Idle.loaded = NewProfile /\ ~Idle.older
    /\ NewProfile.warnings = 0 /\ NewProfile.status = "draft" /\ NewProfile.appeal = "none"
BY DEF NewProfile, Columns, Idle, ProviderStatus

CallRow == [step : {"idle", "patch", "submit", "deactivate", "file", "decide", "copy"}
                   \cup AdminSteps,
            loaded : Columns, row : Nat, type : AppealType, verdict : AppealStatus,
            older : BOOLEAN]

LEMMA IdleRow == Idle \in CallRow
BY NewProfileIsAProfile DEF Idle, CallRow, AppealType, AppealStatus

LEMMA ProfileInit == Init => ProfileInv
<1> SUFFICES ASSUME Init PROVE ProfileInv
  OBVIOUS
<1>1. TypeOK
  <2>1. calls \in [Calls -> CallRow]
    BY IdleRow DEF Init
  <2>2. appeals \in Seq([type : AppealType, status : AppealStatus])
    BY DEF Init
  <2> QED
    BY <2>1, <2>2, NewProfileIsAProfile DEF Init, TypeOK, CallRow
<1>2. SanctionsAreBacked /\ \A c \in Calls : CarriesProfile(c)
  BY NewProfileIsAProfile DEF Init, SanctionsAreBacked, CarriesProfile
<1>3. ProfileUndisturbed
  <2>1. OneCall /\ profile.warnings = issued /\ Shows
    BY NewProfileIsAProfile DEF Init, OneCall, Shows
  <2>2. OneWaits /\ \A c \in Calls : StillShown(c)
    BY NewProfileIsAProfile DEF Init, OneWaits, StillShown, Rows
  <2> QED
    BY <2>1, <2>2 DEF ProfileUndisturbed
<1> QED
  BY <1>1, <1>2, <1>3 DEF ProfileInv

LEMMA ProfileBegin ==
    ASSUME ProfileInv, NEW c \in Calls, NEW loaded \in CallRow, Begin(c, loaded),
           loaded.step \notin {"idle", "copy"},
           loaded.loaded.warnings <= issued,
           loaded.step = "patch" => loaded.loaded = profile,
           loaded.step \in {"patch", "submit", "deactivate"} => profile.status # "suspended",
           loaded.step = "warn" => loaded.loaded.warnings = profile.warnings,
           loaded.step = "file" => NoOpenAppeal(loaded.type) /\ loaded.verdict = "submitted",
           loaded.step = "decide" => loaded.row \in Rows /\ loaded.verdict # "submitted"
    PROVE  ProfileInv'
<1>1. /\ calls' = [calls EXCEPT ![c] = loaded]
      /\ UNCHANGED <<profile, appeals, issued, touched>>
      /\ disturbed' = (disturbed \/ \E d \in Calls : calls[d] # Idle)
      /\ calls[c] = Idle
  BY DEF Begin
<1>2. TypeOK'
  BY <1>1 DEF ProfileInv, TypeOK, CallRow
<1>3. \A d \in Calls : calls'[d] = IF d = c THEN loaded ELSE calls[d]
  BY <1>1 DEF ProfileInv, TypeOK
<1>4. SanctionsAreBacked'
  BY <1>1 DEF ProfileInv, SanctionsAreBacked
<1>5. \A d \in Calls : CarriesProfile(d)'
  BY <1>1, <1>3 DEF ProfileInv, CarriesProfile, Rows
<1>6. ASSUME ~disturbed' PROVE ProfileUndisturbed'
  <2>1. ~disturbed /\ \A d \in Calls : calls[d] = Idle
    BY <1>1, <1>6
  <2>2. OneCall' /\ profile'.warnings = issued' /\ OneWaits'
    BY <1>1, <1>3, <2>1, NewProfileIsAProfile
    DEF ProfileInv, ProfileUndisturbed, OneCall, OneWaits, Rows
  <2>3. \A d \in Calls : StillShown(d)'
    BY <1>1, <1>3, <2>1, NewProfileIsAProfile DEF StillShown, NoOpenAppeal, Rows
  <2>4. Shows'
    BY <1>1, <2>1, NewProfileIsAProfile DEF ProfileInv, ProfileUndisturbed, Shows, Rows
  <2> QED
    BY <2>2, <2>3, <2>4 DEF ProfileUndisturbed
<1> QED
  BY <1>2, <1>4, <1>5, <1>6 DEF ProfileInv, ProfileUndisturbed

(* A call goes on or ends.                                                 *)
LEMMA ProfileGo ==
    ASSUME ProfileInv, NEW c \in Calls, NEW state \in CallRow, Go(c, state),
           state = Idle \/ state.step # "idle", calls[c].step # "idle", disturbed' = disturbed
    PROVE  /\ calls' \in [Calls -> CallRow]
           /\ calls'[c] = state
           /\ \A d \in Calls \ {c} : calls'[d] = calls[d]
           /\ ~disturbed' => OneCall' /\ \A d \in Calls \ {c} : calls'[d] = Idle
<1>1. /\ calls \in [Calls -> CallRow]
      /\ calls' = [calls EXCEPT ![c] = state]
  BY DEF ProfileInv, TypeOK, CallRow, Go
<1>2. ~disturbed => OneCall /\ \A d \in Calls \ {c} : calls[d] = Idle
  BY DEF ProfileInv, ProfileUndisturbed, OneCall
<1> QED
  BY <1>1, <1>2, NewProfileIsAProfile DEF OneCall

(* What is left to show when a call ends.                                  *)
LEMMA ProfileEnds ==
    ASSUME ProfileInv, NEW c \in Calls, End(c), calls[c].step # "idle",
           UNCHANGED <<appeals, touched, disturbed>>, profile' \in Columns,
           issued' \in Nat, issued <= issued', SanctionsAreBacked',
           profile'.status = "suspended" =>
               profile.status = "suspended"
               \/ \A d \in Calls \ {c} : calls[d].step \in {"patch", "submit", "deactivate"}
                                           => calls[d].older,
           ~disturbed => profile'.warnings = issued' /\ Shows'
    PROVE  ProfileInv'
<1>1. /\ calls' \in [Calls -> CallRow]
      /\ calls'[c] = Idle
      /\ \A d \in Calls \ {c} : calls'[d] = calls[d]
      /\ ~disturbed' => OneCall' /\ \A d \in Calls \ {c} : calls'[d] = Idle
  BY ProfileGo, IdleRow DEF End
<1>2. TypeOK'
  BY <1>1 DEF ProfileInv, TypeOK, CallRow
<1>3. \A d \in Calls : CarriesProfile(d)'
  <2>1. CarriesProfile(c)'
    BY <1>1, NewProfileIsAProfile DEF CarriesProfile
  <2>2. ASSUME NEW d \in Calls \ {c} PROVE CarriesProfile(d)'
    <3>1. calls[d].loaded.warnings \in Nat /\ issued \in Nat
      BY DEF ProfileInv, TypeOK, Columns
    <3> QED
      BY <1>1, <3>1 DEF ProfileInv, CarriesProfile, Rows
  <2> QED
    BY <2>1, <2>2
<1>4. ASSUME ~disturbed' PROVE ProfileUndisturbed'
  <2>1. OneCall' /\ \A d \in Calls : calls'[d] = Idle
    BY <1>1, <1>4
  <2>2. OneWaits'
    BY <1>4 DEF ProfileInv, ProfileUndisturbed, OneWaits, Rows
  <2>3. \A d \in Calls : StillShown(d)'
    BY <2>1, NewProfileIsAProfile DEF StillShown
  <2> QED
    BY <1>4, <2>1, <2>2, <2>3 DEF ProfileUndisturbed
<1> QED
  BY <1>2, <1>3, <1>4 DEF ProfileInv, ProfileUndisturbed

LEMMA ProfileSaves ==
    ASSUME ProfileInv, NEW c \in Calls,
           SavePatch(c) \/ SaveStatus(c) \/ Warn(c) \/ Reactivate(c)
    PROVE  ProfileInv'
<1>0. /\ profile \in Columns /\ issued \in Nat
      /\ calls[c].loaded \in Columns /\ calls[c].loaded.warnings <= issued
      /\ profile.warnings <= issued
      /\ profile.status = "suspended" => profile.term # "none"
      /\ ~disturbed /\ calls[c].step # "copy" /\ calls[c].step # "idle" =>
            Shows /\ profile.warnings = issued
  <2>1. ~disturbed /\ calls[c].step # "copy" /\ calls[c].step # "idle" =>
           \A d \in Calls : calls[d].step # "copy"
    BY DEF ProfileInv, ProfileUndisturbed, OneCall
  <2> QED
    BY <2>1 DEF ProfileInv, TypeOK, CarriesProfile, SanctionsAreBacked, ProfileUndisturbed
<1>1. CASE SavePatch(c)
  <2>1. /\ profile' = calls[c].loaded /\ issued' = issued
        /\ calls[c].step = "patch" /\ calls[c].loaded.status # "suspended"
        /\ ~disturbed => profile' = profile
    BY <1>1 DEF SavePatch, Saves, ProfileInv, CarriesProfile, ProfileUndisturbed, StillShown
  <2>2. UNCHANGED <<appeals, touched, disturbed>> /\ End(c)
    BY <1>1 DEF SavePatch, Saves
  <2> QED
    BY <1>0, <2>1, <2>2, ProfileEnds DEF SanctionsAreBacked, Shows, Rows
<1>2. CASE SaveStatus(c)
  <2>1. PICK step \in DOMAIN StatusAfter :
           Saves(c, step, [profile EXCEPT !.status = StatusAfter[step]]) /\ issued' = issued
    BY <1>2 DEF SaveStatus
  <2>2. /\ profile' \in Columns
        /\ profile'.status # "suspended"
        /\ profile'.warnings = profile.warnings /\ profile'.appeal = profile.appeal
    BY <1>0, <2>1 DEF Saves, Columns, StatusAfter, ProviderStatus
  <2>3. /\ UNCHANGED <<appeals, touched, disturbed>> /\ End(c)
        /\ calls[c].step \notin {"copy", "idle"}
    BY <2>1 DEF Saves, StatusAfter
  <2> QED
    BY <1>0, <2>1, <2>2, <2>3, ProfileEnds DEF SanctionsAreBacked, Shows, Rows
<1>3. CASE Warn(c)
  <2>1. /\ profile' = [profile EXCEPT !.warnings = calls[c].loaded.warnings + 1]
        /\ issued' = issued + 1
        /\ calls[c].step = "warn"
        /\ ~disturbed => calls[c].loaded.warnings = profile.warnings
    BY <1>3 DEF Warn, Saves, ProfileInv, ProfileUndisturbed, StillShown
  <2>2. /\ profile' \in Columns
        /\ profile'.status = profile.status /\ profile'.term = profile.term
        /\ profile'.warnings = calls[c].loaded.warnings + 1
        /\ profile'.appeal = profile.appeal
    BY <1>0, <2>1 DEF Columns
  <2>3. calls[c].loaded.warnings \in Nat
    BY <1>0 DEF Columns
  <2>4. UNCHANGED <<appeals, touched, disturbed>> /\ End(c)
    BY <1>3 DEF Warn, Saves
  <2> QED
    BY <1>0, <2>1, <2>2, <2>3, <2>4, ProfileEnds DEF SanctionsAreBacked, Shows, Rows
<1>4. CASE Reactivate(c)
  <2>1. /\ profile' = [profile EXCEPT !.status = "active", !.term = "none", !.appeal = "none"]
        /\ issued' = issued /\ calls[c].step = "reactivate"
    BY <1>4 DEF Reactivate, Saves, Reactivated
  <2>2. /\ profile' \in Columns
        /\ profile'.status = "active"
        /\ profile'.warnings = profile.warnings /\ profile'.appeal = "none"
    BY <1>0, <2>1 DEF Columns, ProviderStatus
  <2>3. UNCHANGED <<appeals, touched, disturbed>> /\ End(c)
    BY <1>4 DEF Reactivate, Saves
  <2> QED
    BY <1>0, <2>1, <2>2, <2>3, ProfileEnds DEF SanctionsAreBacked, Shows, Rows
<1> QED
  BY <1>1, <1>2, <1>3, <1>4

LEMMA SuspendStep ==
    ASSUME ProfileInv, NEW c \in Calls, Suspend(c)
    PROVE  ProfileInv'
<1>1. PICK term \in Terms :
        /\ profile' = [profile EXCEPT !.status = "suspended", !.term = term]
        /\ calls' = [d \in Calls |-> IF d = c \/ calls[d] = Idle THEN Idle
                                     ELSE [calls[d] EXCEPT !.older = TRUE]]
        /\ UNCHANGED <<appeals, issued, touched, disturbed>>
        /\ calls[c].step = "suspend"
  BY DEF Suspend, Suspended
<1>2. /\ profile' \in Columns
      /\ profile'.status = "suspended" /\ profile'.term # "none"
      /\ profile'.warnings = profile.warnings /\ profile'.appeal = profile.appeal
  BY <1>1, ProvidersAssumption DEF ProfileInv, TypeOK, Columns, ProviderStatus
<1>3. \A d \in Calls :
        /\ calls'[d] \in CallRow
        /\ calls'[d] = Idle
           \/ /\ calls'[d].older
              /\ calls'[d].step = calls[d].step /\ calls'[d].loaded = calls[d].loaded
              /\ calls'[d].row = calls[d].row /\ calls'[d].verdict = calls[d].verdict
        /\ d = c \/ calls[d] = Idle => calls'[d] = Idle
  BY <1>1, IdleRow DEF ProfileInv, TypeOK, CallRow
<1>4. TypeOK'
  <2>1. calls' \in [Calls -> CallRow]
    BY <1>1, <1>3
  <2> QED
    BY <1>1, <1>2, <2>1 DEF ProfileInv, TypeOK, CallRow
<1>5. SanctionsAreBacked'
  BY <1>1, <1>2 DEF ProfileInv, SanctionsAreBacked
<1>6. ASSUME NEW d \in Calls PROVE CarriesProfile(d)'
  <2>1. CASE calls'[d] = Idle
    BY <1>1, <2>1, NewProfileIsAProfile DEF ProfileInv, TypeOK, CarriesProfile
  <2>2. CASE calls'[d] # Idle
    BY <1>1, <1>3, <2>2 DEF ProfileInv, CarriesProfile, Rows
  <2> QED
    BY <2>1, <2>2
<1>7. ASSUME ~disturbed' PROVE ProfileUndisturbed'
  <2>1. ~disturbed /\ \A d \in Calls : calls'[d] = Idle
    BY <1>1, <1>3, <1>7 DEF ProfileInv, ProfileUndisturbed, OneCall
  <2>2. OneCall' /\ \A d \in Calls : StillShown(d)'
    BY <2>1, NewProfileIsAProfile DEF OneCall, StillShown
  <2>3. OneWaits' /\ profile'.warnings = issued'
    BY <1>1, <1>2, <2>1 DEF ProfileInv, ProfileUndisturbed, OneWaits, Rows
  <2>4. \A d \in Calls : calls[d].step # "copy"
    BY <1>1, <2>1 DEF ProfileInv, ProfileUndisturbed, OneCall
  <2>5. Shows'
    BY <1>1, <1>2, <2>1, <2>4 DEF ProfileInv, ProfileUndisturbed, Shows, Rows
  <2> QED
    BY <2>2, <2>3, <2>5 DEF ProfileUndisturbed
<1> QED
  BY <1>4, <1>5, <1>6, <1>7 DEF ProfileInv, ProfileUndisturbed

(* An appeal is filed or decided; the copy of its status has still to be   *)
(* saved.                                                                  *)
LEMMA AppealStep ==
    ASSUME ProfileInv, NEW c \in Calls, FileAppeal(c) \/ Decide(c)
    PROVE  ProfileInv'
<1> DEFINE Row == [type : AppealType, status : AppealStatus]
<1>0. /\ profile \in Columns /\ issued \in Nat /\ disturbed \in BOOLEAN
      /\ appeals \in Seq(Row) /\ Len(appeals) \in Nat /\ Rows = 1..Len(appeals)
      /\ calls[c] \in CallRow
  BY DEF ProfileInv, TypeOK, CallRow, Rows
<1>1. ASSUME NEW state \in CallRow, Go(c, state), state.step = "copy",
             state.loaded = calls[c].loaded, calls[c].step # "idle",
             UNCHANGED <<profile, issued, disturbed>>,
             appeals' \in Seq(Row), Rows \subseteq Rows',
             touched' \in Rows', touched' = state.row, touched' \in Nat,
             appeals'[touched'].status = state.verdict,
             ~disturbed => OneWaits'
      PROVE  ProfileInv'
  <2>1. /\ calls' \in [Calls -> CallRow]
        /\ calls'[c] = state
        /\ \A d \in Calls \ {c} : calls'[d] = calls[d]
        /\ ~disturbed' => OneCall' /\ \A d \in Calls \ {c} : calls'[d] = Idle
    BY <1>1, ProfileGo
  <2>2. TypeOK'
    BY <1>1, <2>1 DEF ProfileInv, TypeOK, CallRow
  <2>3. SanctionsAreBacked'
    BY <1>1 DEF ProfileInv, SanctionsAreBacked
  <2>4. \A d \in Calls : CarriesProfile(d)'
    BY <1>1, <2>1 DEF ProfileInv, CarriesProfile
  <2>5. ASSUME ~disturbed' PROVE ProfileUndisturbed'
    <3>1. \A d \in Calls : StillShown(d)'
      BY <1>1, <2>1, <2>5, NewProfileIsAProfile DEF StillShown
    <3>2. profile'.warnings = issued'
      BY <1>1, <2>5 DEF ProfileInv, ProfileUndisturbed
    <3> QED
      BY <1>1, <2>1, <2>5, <3>1, <3>2 DEF ProfileUndisturbed
  <2> QED
    BY <2>2, <2>3, <2>4, <2>5 DEF ProfileInv, ProfileUndisturbed
<1>2. CASE FileAppeal(c)
  <2> DEFINE n == Len(appeals) + 1
             new == [type |-> calls[c].type, status |-> "submitted"]
             state == [calls[c] EXCEPT !.step = "copy", !.row = n]
  <2>0. /\ calls[c].verdict = "submitted" /\ calls[c].type \in AppealType
        /\ n \in Nat /\ "submitted" \in AppealStatus
    BY <1>0, <1>2 DEF FileAppeal, CallRow, AppealStatus, ProfileInv, CarriesProfile
  <2>1. /\ new \in Row /\ new.type = calls[c].type /\ new.status = "submitted"
        /\ state \in CallRow
    <3>1. state \in CallRow
      BY <1>0, <2>0 DEF CallRow
    <3> QED
      BY <2>0, <3>1
  <2>2. /\ calls[c].step = "file"
        /\ appeals' = Append(appeals, new) /\ touched' = n /\ Go(c, state)
        /\ UNCHANGED <<profile, issued, disturbed>>
    BY <1>2 DEF FileAppeal
  <2> HIDE DEF new
  <2>3. /\ appeals' \in Seq(Row) /\ n \in Nat /\ Rows' = 1..n
        /\ appeals'[n] = new
        /\ \A a \in Rows : appeals'[a] = appeals[a]
    BY <1>0, <2>1, <2>2 DEF Rows
  <2>4. ~disturbed => OneWaits'
    <3>1. ~disturbed => OneWaits /\ NoOpenAppeal(calls[c].type)
      BY <2>2 DEF ProfileInv, ProfileUndisturbed, StillShown
    <3>2. \A a \in Rows' : a \in Rows \/ a = n
      BY <1>0, <2>3
    <3> QED
      BY <2>1, <2>3, <3>1, <3>2 DEF OneWaits, NoOpenAppeal, OpenAppeal
  <2>5. /\ state.step = "copy" /\ state.row = n /\ state.loaded = calls[c].loaded
        /\ state.verdict = new.status
    BY <1>0, <2>0, <2>1 DEF CallRow
  <2>6. Rows \subseteq Rows' /\ n \in Rows'
    BY <1>0, <2>3
  <2> HIDE DEF state, n
  <2> QED
    BY <1>1, <2>0, <2>1, <2>2, <2>3, <2>4, <2>5, <2>6
<1>3. CASE Decide(c)
  <2> DEFINE a == calls[c].row
             state == [calls[c] EXCEPT !.step = "copy"]
  <2>1. /\ a \in Rows /\ a \in Nat /\ calls[c].step = "decide"
        /\ state \in CallRow /\ calls[c].verdict \in AppealStatus \ {"submitted"}
        /\ state.step = "copy" /\ state.row = a /\ state.loaded = calls[c].loaded
        /\ state.verdict = calls[c].verdict
    BY <1>0, <1>3 DEF Decide, CallRow, ProfileInv, CarriesProfile
  <2>2. /\ appeals' = [appeals EXCEPT ![a].status = calls[c].verdict]
        /\ touched' = a /\ Go(c, state)
        /\ UNCHANGED <<profile, issued, disturbed>>
    BY <1>3 DEF Decide
  <2> HIDE DEF a, state
  <2>3. /\ appeals' \in Seq(Row) /\ Rows' = Rows
        /\ \A b \in Rows : /\ appeals'[b].type = appeals[b].type
                           /\ b # a => appeals'[b] = appeals[b]
        /\ appeals'[a].status = calls[c].verdict
    <3> DEFINE row == [appeals[a] EXCEPT !.status = calls[c].verdict]
    <3>1. appeals[a] \in Row
      <4> HIDE DEF Row
      <4> QED
        BY <1>0, <2>1, ElementOfSeq
    <3>2. row \in Row /\ row.status = calls[c].verdict /\ row.type = appeals[a].type
      BY <2>1, <3>1
    <3>3. appeals' = [appeals EXCEPT ![a] = row]
      BY <2>2
    <3> HIDE DEF row, Row
    <3> QED
      BY <1>0, <2>1, <3>2, <3>3, ExceptSeq DEF Rows
  <2>4. ASSUME ~disturbed PROVE OneWaits'
    <3>1. OneWaits
      BY <2>4 DEF ProfileInv, ProfileUndisturbed
    <3>2. \A b \in Rows : appeals'[b].status = "submitted" =>
             b # a /\ appeals'[b] = appeals[b]
      BY <2>1, <2>3
    <3> QED
      BY <2>3, <3>1, <3>2 DEF OneWaits
  <2> QED
    BY <1>1, <2>1, <2>2, <2>3, <2>4
<1> QED
  BY <1>2, <1>3

LEMMA CopyStep ==
    ASSUME ProfileInv, NEW c \in Calls, CopyAppeal(c)
    PROVE  ProfileInv'
<1>1. /\ calls[c].step = "copy"
      /\ profile' = [profile EXCEPT !.appeal = calls[c].verdict]
      /\ UNCHANGED <<appeals, issued, touched, disturbed>>
  BY DEF CopyAppeal
<1>2. /\ profile \in Columns /\ profile' \in Columns
      /\ profile'.status = profile.status /\ profile'.term = profile.term
      /\ profile'.warnings = profile.warnings /\ profile'.appeal = calls[c].verdict
  BY <1>1 DEF ProfileInv, TypeOK, Columns
<1>3. SanctionsAreBacked'
  BY <1>1, <1>2 DEF ProfileInv, SanctionsAreBacked
<1>4. ~disturbed => Shows' /\ profile'.warnings = issued'
  BY <1>1, <1>2 DEF ProfileInv, ProfileUndisturbed, StillShown, Shows, Rows
<1>5. CASE End(c)
  <2>1. issued \in Nat /\ calls[c].step # "idle"
    BY <1>1 DEF ProfileInv, TypeOK
  <2> QED
    BY <1>1, <1>2, <1>3, <1>4, <1>5, <2>1, ProfileEnds
<1>6. CASE Go(c, [Idle EXCEPT !.step = "reactivate"])
  <2> DEFINE state == [Idle EXCEPT !.step = "reactivate"]
  <2>1. /\ state \in CallRow /\ state.step = "reactivate"
        /\ state.loaded = NewProfile
    BY IdleRow, NewProfileIsAProfile DEF CallRow, AdminSteps
  <2> HIDE DEF state
  <2>2. /\ calls' \in [Calls -> CallRow]
        /\ calls'[c] = state
        /\ \A d \in Calls \ {c} : calls'[d] = calls[d]
        /\ ~disturbed' => OneCall' /\ \A d \in Calls \ {c} : calls'[d] = Idle
    BY <1>1, <1>6, <2>1, ProfileGo DEF state
  <2>3. TypeOK'
    BY <1>1, <1>2, <2>2 DEF ProfileInv, TypeOK, CallRow
  <2>4. \A d \in Calls : CarriesProfile(d)'
    BY <1>1, <1>2, <2>1, <2>2, NewProfileIsAProfile
    DEF ProfileInv, TypeOK, CarriesProfile, Rows
  <2>5. ASSUME ~disturbed' PROVE ProfileUndisturbed'
    <3>1. \A d \in Calls : StillShown(d)'
      BY <2>1, <2>2, <2>5, NewProfileIsAProfile DEF StillShown
    <3>2. OneWaits'
      BY <1>1, <2>5 DEF ProfileInv, ProfileUndisturbed, OneWaits, Rows
    <3> QED
      BY <1>1, <1>4, <2>2, <2>5, <3>1, <3>2 DEF ProfileUndisturbed
  <2> QED
    BY <1>3, <2>3, <2>4, <2>5 DEF ProfileInv, ProfileUndisturbed
<1> QED
  BY <1>5, <1>6 DEF CopyAppeal

LEMMA LoadStep ==
    ASSUME ProfileInv, NEW c \in Calls, NEW step, Load(c, step)
    PROVE  ProfileInv'
<1> DEFINE loaded == [Idle EXCEPT !.step = step, !.loaded = Kept(step)]
<1>1. /\ step \in OwnerSteps(profile.status) \cup AdminSteps
      /\ Begin(c, loaded)
  BY DEF Load
<1>2. /\ step \in {"patch", "submit", "deactivate"} \cup AdminSteps
      /\ step \in {"patch", "submit", "deactivate"} => profile.status # "suspended"
  BY <1>1 DEF OwnerSteps, Editable, Submittable, AdminSteps
<1>3. /\ step \notin {"idle", "copy", "file", "decide"}
      /\ step \in {"patch", "submit", "deactivate", "warn"} => step # "suspend"
  BY <1>2 DEF AdminSteps
<1>4. /\ profile \in Columns /\ profile.warnings \in Nat /\ issued \in Nat
      /\ profile.warnings <= issued
  BY DEF ProfileInv, TypeOK, Columns, SanctionsAreBacked
<1>5. /\ Kept(step) \in Columns /\ Kept(step).warnings <= issued
      /\ step = "patch" => Kept(step) = profile
      /\ step = "warn" => Kept(step).warnings = profile.warnings
  <2>1. CASE step = "patch"
    BY <1>4, <2>1 DEF Kept
  <2>2. CASE step = "warn"
    BY <1>4, <2>2, NewProfileIsAProfile DEF Kept, Columns
  <2>3. CASE step \notin {"patch", "warn"}
    BY <1>4, <2>3, NewProfileIsAProfile DEF Kept
  <2> QED
    BY <2>1, <2>2, <2>3
<1>6. loaded \in CallRow /\ loaded.step = step /\ loaded.loaded = Kept(step)
  BY <1>2, <1>5, IdleRow DEF CallRow
<1> HIDE DEF loaded
<1> QED
  BY <1>1, <1>2, <1>3, <1>5, <1>6, ProfileBegin

LEMMA BeginAppealStep ==
    ASSUME ProfileInv, NEW c \in Calls, NEW type \in AppealType, BeginAppeal(c, type)
    PROVE  ProfileInv'
<1> DEFINE loaded == [Idle EXCEPT !.step = "file", !.type = type]
<1>1. /\ loaded \in CallRow /\ loaded.step = "file" /\ loaded.loaded = NewProfile
      /\ loaded.type = type /\ loaded.verdict = "submitted"
  <2>1. Idle.verdict = "submitted"
    BY DEF Idle
  <2> QED
    BY <2>1, IdleRow, NewProfileIsAProfile DEF CallRow
<1>2. NoOpenAppeal(type) /\ Begin(c, loaded)
  BY DEF BeginAppeal
<1>3. loaded.loaded.warnings <= issued
  BY <1>1, NewProfileIsAProfile DEF ProfileInv, TypeOK
<1> HIDE DEF loaded
<1> QED
  BY <1>1, <1>2, <1>3, ProfileBegin

LEMMA BeginDecisionStep ==
    ASSUME ProfileInv, NEW c \in Calls, NEW a \in Rows,
           NEW verdict \in AppealStatus \ {"submitted"}, BeginDecision(c, a, verdict)
    PROVE  ProfileInv'
<1> DEFINE loaded == [Idle EXCEPT !.step = "decide", !.row = a, !.verdict = verdict,
                                  !.type = appeals[a].type]
<1>1. a \in Nat /\ appeals[a].type \in AppealType
  <2>1. appeals[a] \in [type : AppealType, status : AppealStatus] /\ a \in Nat
    <3> DEFINE Row == [type : AppealType, status : AppealStatus]
    <3>1. appeals \in Seq(Row) /\ a \in 1..Len(appeals)
      BY DEF ProfileInv, TypeOK, Rows
    <3> HIDE DEF Row
    <3>2. appeals[a] \in Row
      BY <3>1, ElementOfSeq
    <3> QED
      BY <3>1, <3>2 DEF Row
  <2> QED
    BY <2>1
<1>2. /\ loaded \in CallRow /\ loaded.step = "decide" /\ loaded.loaded = NewProfile
      /\ loaded.row = a /\ loaded.verdict = verdict
  BY <1>1, IdleRow, NewProfileIsAProfile DEF CallRow
<1>3. loaded.loaded.warnings <= issued
  BY <1>2, NewProfileIsAProfile DEF ProfileInv, TypeOK
<1>4. Begin(c, loaded)
  BY DEF BeginDecision
<1> HIDE DEF loaded
<1> QED
  BY <1>2, <1>3, <1>4, ProfileBegin

LEMMA DieStep ==
    ASSUME ProfileInv, NEW c \in Calls, Die(c)
    PROVE  ProfileInv'
<1>1. /\ calls' = [calls EXCEPT ![c] = Idle] /\ disturbed'
      /\ UNCHANGED <<profile, appeals, issued, touched>>
  BY DEF Die, End, Go
<1>2. calls \in [Calls -> CallRow] /\ issued \in Nat
  BY DEF ProfileInv, TypeOK, CallRow
<1>3. TypeOK'
  BY <1>1, <1>2, IdleRow DEF ProfileInv, TypeOK, CallRow, Die
<1>4. \A d \in Calls : CarriesProfile(d)'
  <2>1. CarriesProfile(c)'
    BY <1>1, <1>2, NewProfileIsAProfile DEF CarriesProfile
  <2>2. ASSUME NEW d \in Calls \ {c} PROVE CarriesProfile(d)'
    BY <1>1, <1>2 DEF ProfileInv, CarriesProfile, Rows
  <2> QED
    BY <2>1, <2>2
<1> QED
  BY <1>1, <1>3, <1>4 DEF ProfileInv, SanctionsAreBacked, ProfileUndisturbed

LEMMA ProfileStep == ProfileInv /\ [Next]_vars => ProfileInv'
<1> SUFFICES ASSUME ProfileInv, [Next]_vars PROVE ProfileInv'
  OBVIOUS
<1>1. CASE Moderation
  BY <1>1, LoadStep, ProfileSaves, SuspendStep, BeginDecisionStep, AppealStep DEF Moderation
<1>2. CASE Owner
  BY <1>2, LoadStep, ProfileSaves, BeginAppealStep, AppealStep DEF Owner
<1>3. CASE \E c \in Calls : SaveStatus(c) \/ CopyAppeal(c) \/ Die(c)
  BY <1>3, ProfileSaves, CopyStep, DieStep
<1>4. CASE UNCHANGED vars
  BY <1>4 DEF vars, ProfileInv, TypeOK, SanctionsAreBacked, CarriesProfile, Rows,
              ProfileUndisturbed, OneCall, OneWaits, StillShown, NoOpenAppeal, Shows
<1> QED
  BY <1>1, <1>2, <1>3, <1>4 DEF Next

LEMMA SuspensionHolds ==
    ASSUME ProfileInv, [Next]_vars, LeavesSuspension
    PROVE  \E c \in Calls : calls[c].step \in AdminSteps \/ calls[c].older
<1>1. profile.status = "suspended" /\ profile'.status # "suspended" /\ profile \in Columns
  BY DEF LeavesSuspension, ProfileInv, TypeOK
<1>2. PICK c \in Calls : SavePatch(c) \/ SaveStatus(c) \/ Warn(c) \/ Reactivate(c)
                          \/ Suspend(c) \/ CopyAppeal(c)
  BY <1>1 DEF Next, Moderation, Owner, Load, Begin, BeginAppeal, BeginDecision,
              FileAppeal, Decide, Die, vars
<1>3. CarriesProfile(c)
  BY DEF ProfileInv
<1>4. CASE SavePatch(c)
  BY <1>1, <1>3, <1>4 DEF SavePatch, Saves, CarriesProfile
<1>5. CASE SaveStatus(c)
  BY <1>1, <1>3, <1>5 DEF SaveStatus, StatusAfter, Saves, CarriesProfile, AdminSteps
<1>6. CASE Warn(c) \/ Reactivate(c) \/ Suspend(c)
  BY <1>6 DEF Warn, Reactivate, Suspend, Saves, AdminSteps
<1>7. CASE CopyAppeal(c)
  BY <1>1, <1>7 DEF CopyAppeal, Columns
<1> QED
  BY <1>2, <1>4, <1>5, <1>6, <1>7

-----------------------------------------------------------------------------
(* A quote request and a complaint.  A call that found the quote request   *)
(* viewed finds the stamp there when it saves; and the status is still one *)
(* from which its step was allowed, unless another call saved it meanwhile.*)

DeskCall == [step : {"idle", "viewed", "responded", "closed", "complaint"},
             viewed : BOOLEAN, older : BOOLEAN]

QuoteStates == {"submitted", "viewed", "responded", "closed"}

QuoteAsFound(c) ==
    work[c].step \in DOMAIN Desk!From /\ ~work[c].older =>
        quote.status \in Desk!From[work[c].step]

DeskInv ==
    /\ work \in [Calls -> DeskCall]
    /\ quote.status \in QuoteStates
    /\ Desk!StampsFollowStatus
    /\ \A c \in Calls : /\ work[c].viewed => "viewed" \in quote.stamps
                        /\ QuoteAsFound(c)

LEMMA StepsOfQuotes ==
    /\ DOMAIN Desk!From = {"viewed", "responded", "closed"}
    /\ Desk!From["viewed"] = {"submitted"}
    /\ Desk!From["responded"] = {"submitted", "viewed"}
    /\ Desk!From["closed"] = {"submitted", "viewed", "responded"}
    /\ Desk!Idle \in DeskCall /\ Desk!Idle.step = "idle" /\ ~Desk!Idle.viewed
BY DEF Desk!From, Desk!Idle, DeskCall

LEMMA PositionsOfQuotes ==
    /\ Desk!Position("submitted") = 1 /\ Desk!Position("viewed") = 2
    /\ Desk!Position("responded") = 3 /\ Desk!Position("closed") = 4
<1> DEFINE Q == Desk!QuoteStatus
<1>1. /\ DOMAIN Q = {1, 2, 3, 4}
      /\ Q[1] = "submitted" /\ Q[2] = "viewed" /\ Q[3] = "responded" /\ Q[4] = "closed"
  BY DEF Desk!QuoteStatus
<1>2. \A s : Desk!Position(s) = CHOOSE n \in DOMAIN Q : Q[n] = s
  BY DEF Desk!Position
<1> HIDE DEF Q
<1>3. ASSUME NEW n \in {1, 2, 3, 4} PROVE (CHOOSE m \in DOMAIN Q : Q[m] = Q[n]) = n
  BY <1>1
<1> QED
  BY <1>1, <1>2, <1>3

LEMMA DeskInit == Desk!Init => DeskInv
<1> SUFFICES ASSUME Desk!Init PROVE DeskInv
  OBVIOUS
<1>1. work \in [Calls -> DeskCall] /\ \A c \in Calls : work[c] = Desk!Idle
  BY StepsOfQuotes DEF Desk!Init
<1>2. quote.status = "submitted" /\ Desk!StampsFollowStatus
  BY DEF Desk!Init, Desk!SubmitQuote, Desk!FileComplaint, Desk!StampsFollowStatus, Desk!Stamped
<1> QED
  BY <1>1, <1>2, StepsOfQuotes DEF DeskInv, QuoteAsFound, QuoteStates

LEMMA DeskLoad ==
    ASSUME DeskInv, NEW c \in Calls, NEW step \in DOMAIN Desk!From \cup {"complaint"},
           Desk!Load(c, step)
    PROVE  DeskInv'
<1> DEFINE loaded == [step |-> step, older |-> FALSE, viewed |-> "viewed" \in quote.stamps]
<1>1. /\ work' = [work EXCEPT ![c] = loaded]
      /\ step \in DOMAIN Desk!From => quote.status \in Desk!From[step]
      /\ UNCHANGED <<quote, complaint>>
  BY DEF Desk!Load
<1>2. loaded \in DeskCall /\ loaded.step = step /\ loaded.viewed = ("viewed" \in quote.stamps)
  BY StepsOfQuotes DEF DeskCall
<1> HIDE DEF loaded
<1>3. /\ work' \in [Calls -> DeskCall] /\ work'[c] = loaded
      /\ \A d \in Calls \ {c} : work'[d] = work[d]
  BY <1>1, <1>2 DEF DeskInv
<1> QED
  BY <1>1, <1>2, <1>3 DEF DeskInv, QuoteAsFound, Desk!StampsFollowStatus

LEMMA DeskSaves ==
    ASSUME DeskInv, NEW c \in Calls,
           Desk!MarkViewed(c) \/ Desk!MarkResponded(c) \/ Desk!CloseQuote(c)
    PROVE  /\ DeskInv'
           /\ quote'.status \in DOMAIN Desk!From
           /\ \/ quote.status \in Desk!From[quote'.status]
              \/ work[c].older /\ work'[c] = Desk!Idle
<1>1. PICK step \in DOMAIN Desk!From, stamps \in SUBSET {"viewed", "responded", "closed"} :
        /\ Desk!SaveQuote(c, step, stamps)
        /\ step \in stamps
        /\ step = "responded" => work[c].viewed \/ "viewed" \in stamps
        /\ step # "responded" => "responded" \notin stamps
  BY StepsOfQuotes DEF Desk!MarkViewed, Desk!MarkResponded, Desk!CloseQuote
<1>2. /\ work[c].step = step
      /\ work' = [d \in Calls |-> IF d = c THEN Desk!Idle ELSE Desk!Outdated(d)]
      /\ quote'.status = step /\ quote'.stamps = quote.stamps \cup stamps
      /\ UNCHANGED complaint
  BY <1>1 DEF Desk!SaveQuote
<1>3. ASSUME NEW d \in Calls
      PROVE  /\ Desk!Outdated(d) \in DeskCall
             /\ Desk!Outdated(d).step = work[d].step
             /\ Desk!Outdated(d).viewed = work[d].viewed
             /\ work[d].step \in DOMAIN Desk!From => Desk!Outdated(d).older
  BY DEF DeskInv, DeskCall, Desk!Outdated
<1>4. /\ work' \in [Calls -> DeskCall] /\ work'[c] = Desk!Idle
      /\ \A d \in Calls \ {c} : work'[d] = Desk!Outdated(d)
  BY <1>2, <1>3, StepsOfQuotes
<1>5. Desk!StampsFollowStatus'
  BY <1>1, <1>2, StepsOfQuotes DEF DeskInv, Desk!StampsFollowStatus
<1>6. ASSUME NEW d \in Calls
      PROVE  (work[d].viewed => "viewed" \in quote.stamps)' /\ QuoteAsFound(d)'
  <2>1. CASE d = c
    BY <1>4, <2>1, StepsOfQuotes DEF QuoteAsFound
  <2>2. CASE d # c
    BY <1>2, <1>3, <1>4, <2>2 DEF DeskInv, QuoteAsFound
  <2> QED
    BY <2>1, <2>2
<1>7. DeskInv'
  BY <1>1, <1>2, <1>4, <1>5, <1>6, StepsOfQuotes DEF DeskInv, QuoteStates
<1> QED
  BY <1>1, <1>2, <1>4, <1>7 DEF DeskInv, QuoteAsFound

LEMMA DeskComplaint ==
    ASSUME DeskInv, NEW c \in Calls, NEW next \in Desk!ComplaintStatus, Desk!SetStatus(c, next)
    PROVE  DeskInv'
<1>1. /\ work' = [work EXCEPT ![c] = Desk!Idle]
      /\ complaint'.status = next
      /\ complaint'.stamps = complaint.stamps \cup ({next} \cap Desk!Stamped)
      /\ UNCHANGED quote
  BY DEF Desk!SetStatus
<1>2. /\ work' \in [Calls -> DeskCall] /\ work'[c] = Desk!Idle
      /\ \A d \in Calls \ {c} : work'[d] = work[d]
  BY <1>1, StepsOfQuotes DEF DeskInv
<1> QED
  BY <1>1, <1>2, StepsOfQuotes DEF DeskInv, QuoteAsFound, Desk!StampsFollowStatus

LEMMA DeskStep ==
    ASSUME DeskInv, Desk!Next
    PROVE  DeskInv' /\ Desk!ForwardUnlessOlder
<1>1. PICK c \in Calls :
        \/ \E step \in DOMAIN Desk!From \cup {"complaint"} : Desk!Load(c, step)
        \/ Desk!MarkViewed(c) \/ Desk!MarkResponded(c) \/ Desk!CloseQuote(c)
        \/ \E next \in Desk!ComplaintStatus \ {"open"} : Desk!SetStatus(c, next)
  BY DEF Desk!Next
<1>2. CASE Desk!MarkViewed(c) \/ Desk!MarkResponded(c) \/ Desk!CloseQuote(c)
  <2>1. /\ DeskInv' /\ quote'.status \in DOMAIN Desk!From
        /\ \/ quote.status \in Desk!From[quote'.status]
           \/ work[c].older /\ work'[c] = Desk!Idle
    BY <1>2, DeskSaves
  <2>2. quote.status \in Desk!From[quote'.status] =>
            ~(Desk!Position(quote'.status) < Desk!Position(quote.status))
    BY <2>1, StepsOfQuotes, PositionsOfQuotes
  <2> QED
    BY <2>1, <2>2 DEF Desk!ForwardUnlessOlder
<1>3. CASE \/ \E step \in DOMAIN Desk!From \cup {"complaint"} : Desk!Load(c, step)
           \/ \E next \in Desk!ComplaintStatus \ {"open"} : Desk!SetStatus(c, next)
  <2>1. DeskInv'
    BY <1>3, DeskLoad, DeskComplaint
  <2>2. quote' = quote /\ quote.status \in QuoteStates
    BY <1>3 DEF Desk!Load, Desk!SetStatus, DeskInv
  <2> QED
    BY <2>1, <2>2, PositionsOfQuotes DEF QuoteStates, Desk!ForwardUnlessOlder
<1> QED
  BY <1>1, <1>2, <1>3

-----------------------------------------------------------------------------
(* A list of which one item is flagged.  The images that calls may still   *)
(* bring back count as there, and so does one more for each call that is   *)
(* about to add one.                                                       *)

ListCall == [step : {"idle", "add", "insert", "edit", "flag", "reorder", "delete", "replace"},
             item : Items \cup {NoItem}, flagged : BOOLEAN, wasFlagged : BOOLEAN]

ListRow == [row : {"none", "alive", "deleted"}, flagged : BOOLEAN]

Editing == {c \in Calls : work[c].step = "edit"}

Entering == {c \in Calls : work[c].step \in {"add", "insert"}}

Held(p) == List(p)!Alive \cup {work[c].item : c \in Editing}

LimitKept(p) ==
    /\ IsFiniteSet(Held(p))
    /\ p => Cardinality(Held(p)) + Cardinality(Entering) < MaxCount + Cardinality(Calls)

FlagKept(p) == List(p)!Alive = {} \/ List(p)!Flagged # {}

(* What the only call found when it began still holds when it saves.       *)
SoundCall(p, c) ==
    LET w == work[c] IN
    /\ w.step \in {"idle", "add", "insert", "edit", "reorder", "delete"} => FlagKept(p)
    /\ w.step = "insert" /\ List(p)!Alive = {} => w.flagged
    /\ w.step \in {"edit", "delete", "reorder", "flag"} => w.item \in List(p)!Alive
    /\ w.step \in {"edit", "delete", "reorder"} => w.wasFlagged = rows[w.item].flagged
    /\ w.step = "reorder" => List(p)!Flagged \subseteq {w.item}
    /\ w.step = "replace" => FlagKept(p) \/ w.wasFlagged

ListUndisturbed(p) ==
    ~overlapped /\ ~unset =>
        /\ \A c, d \in Calls : work[c].step # "idle" /\ work[d].step # "idle" => c = d
        /\ \E c \in Calls : /\ \A d \in Calls \ {c} : work[d].step = "idle"
                            /\ SoundCall(p, c)

ListInv(p) ==
    /\ work \in [Calls -> ListCall] /\ rows \in [Items -> ListRow]
    /\ unset \in BOOLEAN /\ overlapped \in BOOLEAN
    /\ \A c \in Calls : /\ work[c].step = "idle" => work[c] = List(p)!Idle
                        /\ work[c].step \in {"edit", "flag", "reorder", "delete"} =>
                              work[c].item \in Items
    /\ \A i, j \in List(p)!Flagged : i = j
    /\ LimitKept(p)
    /\ ListUndisturbed(p)

LEMMA ListCardinality ==
    ASSUME NEW p, NEW S
    PROVE  List(p)!Cardinality(S) = Cardinality(S)
BY DEF List!Cardinality, Cardinality

LEMMA IdleListCall ==
    ASSUME NEW p
    PROVE  List(p)!Idle \in ListCall /\ List(p)!Idle.step = "idle"
BY DEF List!Idle, ListCall

LEMMA OneInOneOut ==
    ASSUME NEW H, NEW E, NEW H2, NEW E2, IsFiniteSet(H), IsFiniteSet(E),
           \/ H2 \subseteq H /\ E2 \subseteq E
           \/ \E i : \E c \in E : H2 \subseteq H \cup {i} /\ E2 \subseteq E \ {c}
    PROVE  /\ IsFiniteSet(H2) /\ IsFiniteSet(E2)
           /\ Cardinality(H2) + Cardinality(E2) <= Cardinality(H) + Cardinality(E)
<1>1. Cardinality(H) \in Nat /\ Cardinality(E) \in Nat
  BY FS_CardinalityType
<1>2. CASE H2 \subseteq H /\ E2 \subseteq E
  <2>1. /\ IsFiniteSet(H2) /\ IsFiniteSet(E2)
        /\ Cardinality(H2) <= Cardinality(H) /\ Cardinality(E2) <= Cardinality(E)
    BY <1>2, FS_Subset
  <2>2. Cardinality(H2) \in Nat /\ Cardinality(E2) \in Nat
    BY <2>1, FS_CardinalityType
  <2> QED
    BY <1>1, <2>1, <2>2
<1>3. CASE \E i : \E c \in E : H2 \subseteq H \cup {i} /\ E2 \subseteq E \ {c}
  <2>1. PICK i : \E c \in E : H2 \subseteq H \cup {i} /\ E2 \subseteq E \ {c}
    BY <1>3
  <2>2. PICK c \in E : H2 \subseteq H \cup {i} /\ E2 \subseteq E \ {c}
    BY <2>1
  <2>3. /\ IsFiniteSet(H \cup {i}) /\ Cardinality(H \cup {i}) <= Cardinality(H) + 1
        /\ IsFiniteSet(E \ {c}) /\ Cardinality(E \ {c}) = Cardinality(E) - 1
    BY <1>1, FS_AddElement, FS_RemoveElement
  <2>4. /\ IsFiniteSet(H2) /\ IsFiniteSet(E2)
        /\ Cardinality(H2) <= Cardinality(H \cup {i})
        /\ Cardinality(E2) <= Cardinality(E \ {c})
    BY <2>2, <2>3, FS_Subset
  <2>5. /\ Cardinality(H2) \in Nat /\ Cardinality(E2) \in Nat
        /\ Cardinality(H \cup {i}) \in Nat
    BY <2>3, <2>4, FS_CardinalityType
  <2> QED
    BY <1>1, <2>3, <2>4, <2>5
<1> QED
  BY <1>2, <1>3

LEMMA LimitStaysKept ==
    ASSUME NEW p, LimitKept(p),
           \/ Held(p)' \subseteq Held(p) /\ Entering' \subseteq Entering
           \/ \E i : \E c \in Entering :
                 Held(p)' \subseteq Held(p) \cup {i} /\ Entering' \subseteq Entering \ {c}
    PROVE  LimitKept(p)'
<1>1. IsFiniteSet(Calls) /\ IsFiniteSet(Entering)
  BY ServicesAssumption, FS_Subset DEF Entering
<1>2. /\ IsFiniteSet(Held(p)') /\ IsFiniteSet(Entering')
      /\ Cardinality(Held(p)') + Cardinality(Entering') <= Cardinality(Held(p)) + Cardinality(Entering)
  BY <1>1, OneInOneOut DEF LimitKept
<1>3. /\ Cardinality(Held(p)') \in Nat /\ Cardinality(Entering') \in Nat
      /\ Cardinality(Held(p)) \in Nat /\ Cardinality(Entering) \in Nat
      /\ Cardinality(Calls) \in Nat /\ MaxCount \in Nat
  BY <1>1, <1>2, FS_CardinalityType, ServicesAssumption DEF LimitKept
<1> HIDE DEF Held, Entering
<1> QED
  BY <1>2, <1>3 DEF LimitKept

LEMMA ListInit ==
    ASSUME NEW p \in BOOLEAN, List(p)!Init
    PROVE  ListInv(p)
<1>1. /\ work \in [Calls -> ListCall] /\ unset = FALSE /\ overlapped = FALSE
      /\ \A c \in Calls : work[c] = List(p)!Idle
  BY IdleListCall DEF List!Init
<1>2. rows \in [Items -> ListRow] /\ List(p)!Alive = {}
  BY DEF List!Init, ListRow, List!Alive
<1>3. LimitKept(p)
  <2>1. Held(p) = {} /\ Entering = {}
    BY <1>1, <1>2, IdleListCall DEF Held, Editing, Entering
  <2>2. IsFiniteSet({}) /\ Cardinality({}) = 0
    BY FS_EmptySet
  <2>3. Cardinality(Calls) \in Nat /\ Cardinality(Calls) # 0 /\ MaxCount \in Nat
    BY FS_CardinalityType, FS_EmptySet, ServicesAssumption
  <2> QED
    BY <2>1, <2>2, <2>3 DEF LimitKept
<1>4. ListUndisturbed(p)
  <2>1. PICK c \in Calls : TRUE
    BY ServicesAssumption
  <2>2. SoundCall(p, c)
    BY <1>1, <1>2, IdleListCall DEF SoundCall, FlagKept
  <2> QED
    BY <1>1, <2>2, IdleListCall DEF ListUndisturbed
<1> QED
  BY <1>1, <1>2, <1>3, <1>4, IdleListCall DEF ListInv, List!Flagged

(* A call begins, goes on or ends.                                         *)
LEMMA ListMoves ==
    ASSUME NEW p \in BOOLEAN, ListInv(p), NEW c \in Calls, NEW state \in ListCall,
           work' = [work EXCEPT ![c] = state],
           state.step = "idle" => state = List(p)!Idle,
           state.step \in {"edit", "flag", "reorder", "delete"} => state.item \in Items,
           rows' \in [Items -> ListRow],
           unset' \in BOOLEAN, unset => unset',
           overlapped' \in BOOLEAN,
           \/ overlapped' = (overlapped \/ \E d \in Calls \ {c} : work[d] # List(p)!Idle)
           \/ overlapped' = overlapped /\ work[c].step # "idle"
           \/ overlapped',
           \A i, j \in List(p)!Flagged' : i = j,
           LimitKept(p)',
           ~overlapped' /\ ~unset' => SoundCall(p, c)'
    PROVE  ListInv(p)'
<1>1. /\ work' \in [Calls -> ListCall] /\ work'[c] = state
      /\ \A d \in Calls \ {c} : work'[d] = work[d]
  BY DEF ListInv
<1>2. \A d \in Calls : /\ work'[d].step = "idle" => work'[d] = List(p)!Idle
                       /\ work'[d].step \in {"edit", "flag", "reorder", "delete"} =>
                             work'[d].item \in Items
  BY <1>1 DEF ListInv
<1>3. ASSUME ~overlapped', ~unset' PROVE ListUndisturbed(p)'
  <2>1. \A d \in Calls \ {c} : work[d].step = "idle"
    <3>1. CASE overlapped' = (overlapped \/ \E d \in Calls \ {c} : work[d] # List(p)!Idle)
      BY <1>3, <3>1, IdleListCall
    <3>2. CASE overlapped' = overlapped /\ work[c].step # "idle"
      BY <1>3, <3>2 DEF ListInv, ListUndisturbed
    <3> QED
      BY <1>3, <3>1, <3>2
  <2> QED
    BY <1>1, <1>3, <2>1 DEF ListUndisturbed
<1>4. ListUndisturbed(p)'
  BY <1>3 DEF ListUndisturbed
<1>5. \A i, j \in List(p)!Flagged' : i = j
  OBVIOUS
<1> QED
  BY <1>1, <1>2, <1>4, <1>5 DEF ListInv

LEMMA ListFound ==
    ASSUME NEW p \in BOOLEAN, ListInv(p), NEW c \in Calls, ~overlapped, ~unset
    PROVE  /\ work[c].step # "idle" => SoundCall(p, c)
           /\ (\A d \in Calls : work[d].step = "idle") => FlagKept(p)
<1>1. PICK e \in Calls : /\ \A d \in Calls \ {e} : work[d].step = "idle"
                         /\ SoundCall(p, e)
  BY DEF ListInv, ListUndisturbed
<1> QED
  BY <1>1 DEF SoundCall

LEMMA HeldAfter ==
    ASSUME NEW p \in BOOLEAN, ListInv(p), NEW c \in Calls, NEW state \in ListCall, NEW X,
           work' = [work EXCEPT ![c] = state],
           List(p)!Alive' \subseteq Held(p) \cup X,
           state.step = "edit" => state.item \in Held(p)
    PROVE  /\ Held(p)' \subseteq Held(p) \cup X
           /\ state.step \in {"add", "insert"} => Entering' = Entering \cup {c}
           /\ state.step \notin {"add", "insert"} => Entering' = Entering \ {c}
<1>1. /\ work'[c] = state
      /\ \A d \in Calls \ {c} : work'[d] = work[d]
  BY DEF ListInv
<1>2. Entering' = {d \in Calls : work'[d].step \in {"add", "insert"}}
  BY DEF Entering
<1>3. ASSUME NEW d \in Editing' PROVE work'[d].item \in Held(p)
  <2>1. d \in Calls /\ work'[d].step = "edit"
    BY <1>3 DEF Editing
  <2> QED
    BY <1>1, <2>1 DEF Held, Editing
<1>4. Held(p)' = List(p)!Alive' \cup {work'[d].item : d \in Editing'}
  BY DEF Held
<1> QED
  BY <1>1, <1>2, <1>3, <1>4 DEF Entering

LEMMA RoomToAdd ==
    ASSUME NEW p \in BOOLEAN, ListInv(p), NEW c \in Calls, NEW state \in ListCall,
           work[c].step = "idle", work' = [work EXCEPT ![c] = state],
           state.step = "add", List(p)!WithinLimit, UNCHANGED rows
    PROVE  LimitKept(p)'
<1>1. /\ work'[c] = state
      /\ \A d \in Calls \ {c} : work'[d] = work[d]
  BY DEF ListInv
<1>2. List(p)!Alive' = List(p)!Alive
  BY DEF List!Alive
<1>3. Editing' = Editing /\ Editing \in SUBSET Calls /\ Entering' \in SUBSET (Calls \ Editing)
  BY <1>1 DEF Editing, Entering
<1>4. /\ {work[d].item : d \in Editing} = {work'[d].item : d \in Editing'}
      /\ Held(p)' = List(p)!Alive' \cup {work'[d].item : d \in Editing'}
  BY <1>1, <1>3 DEF Editing, Held
<1>5. Held(p)' = Held(p)
  BY <1>2, <1>4 DEF Held
<1> SUFFICES ASSUME p
             PROVE  Cardinality(Held(p)') + Cardinality(Entering') < MaxCount + Cardinality(Calls)
  BY <1>5 DEF ListInv, LimitKept
<1> DEFINE A == List(p)!Alive
           I == {work[d].item : d \in Editing}
<1>6. IsFiniteSet(Held(p)) /\ Held(p) = A \cup I
  BY DEF ListInv, LimitKept, Held
<1>7. IsFiniteSet(A) /\ IsFiniteSet(I) /\ Cardinality(A) < MaxCount
  BY <1>6, FS_Subset, ListCardinality DEF List!WithinLimit
<1>8. IsFiniteSet(Editing) /\ IsFiniteSet(Entering') /\ IsFiniteSet(Calls)
  BY <1>3, ServicesAssumption, FS_Subset
<1>9. Cardinality(I) <= Cardinality(Editing)
  <2> DEFINE f == [d \in Editing |-> work[d].item]
  <2>1. f \in Surjection(Editing, I)
    BY DEF Surjection
  <2> HIDE DEF f, I
  <2> QED
    BY <1>8, <2>1, FS_Surjection
<1>10. /\ Cardinality(A \cup I) <= Cardinality(A) + Cardinality(I)
       /\ Cardinality(A) \in Nat /\ Cardinality(I) \in Nat /\ Cardinality(A \cup I) \in Nat
       /\ Cardinality(Calls) \in Nat /\ Cardinality(Editing) \in Nat
       /\ Cardinality(Entering') \in Nat /\ MaxCount \in Nat
  <2> HIDE DEF A, I
  <2>1. /\ Cardinality(A \cup I) = Cardinality(A) + Cardinality(I) - Cardinality(A \cap I)
        /\ IsFiniteSet(A \cap I)
    BY <1>7, FS_Union, FS_Intersection
  <2> QED
    <3>1. /\ Cardinality(A) \in Nat /\ Cardinality(I) \in Nat
          /\ Cardinality(A \cap I) \in Nat /\ Cardinality(A \cup I) \in Nat
      BY <1>6, <1>7, <2>1, FS_CardinalityType
    <3>2. /\ Cardinality(Calls) \in Nat /\ Cardinality(Editing) \in Nat
          /\ Cardinality(Entering') \in Nat /\ MaxCount \in Nat
      BY <1>8, FS_CardinalityType, ServicesAssumption
    <3> QED
      BY <2>1, <3>1, <3>2
<1>11. Cardinality(Editing) + Cardinality(Entering') <= Cardinality(Calls)
  <2>1. Editing \cap Entering' = {} /\ Editing \cup Entering' \subseteq Calls
    BY <1>3
  <2>2. Cardinality(Editing \cup Entering') = Cardinality(Editing) + Cardinality(Entering')
    <3>1. Cardinality(Editing \cup Entering') = Cardinality(Editing) + Cardinality(Entering')
                                                 - Cardinality(Editing \cap Entering')
      BY <1>8, FS_Union
    <3>2. Cardinality(Editing \cap Entering') = 0
      BY <2>1, FS_EmptySet
    <3> QED
      BY <1>10, <3>1, <3>2
  <2> QED
    BY <1>8, <2>1, <2>2, FS_Subset
<1> HIDE DEF A, I
<1>12. Cardinality(Held(p)') = Cardinality(A \cup I)
  BY <1>5, <1>6
<1>13. \A a, i, e, n, h, m, k \in Nat :
          h <= a + i /\ i <= e /\ e + n <= k /\ a < m => h + n < m + k
  OBVIOUS
<1> QED
  BY <1>7, <1>9, <1>10, <1>11, <1>12, <1>13

LEMMA ListBegins ==
    ASSUME NEW p \in BOOLEAN, ListInv(p), NEW c \in Calls, NEW state \in ListCall,
           List(p)!Begin(c, state),
           state.step \in {"add", "edit", "flag", "reorder", "delete"},
           state.step = "add" => List(p)!WithinLimit,
           state.step # "add" => state.item \in List(p)!Alive,
           state.step \in {"edit", "delete", "reorder"} => state.wasFlagged = rows[state.item].flagged,
           state.step = "reorder" => List(p)!Flagged \subseteq {state.item}
    PROVE  ListInv(p)'
<1>1. /\ work[c] = List(p)!Idle /\ work' = [work EXCEPT ![c] = state]
      /\ overlapped' = (overlapped \/ \E d \in Calls : work[d] # List(p)!Idle)
      /\ UNCHANGED <<rows, unset>>
  BY DEF List!Begin
<1>2. List(p)!Alive' = List(p)!Alive /\ List(p)!Flagged' = List(p)!Flagged
  BY <1>1 DEF List!Alive, List!Flagged
<1>3. work[c].step = "idle" /\ work'[c] = state /\ List(p)!Alive \subseteq Items
  BY <1>1, IdleListCall DEF ListInv, List!Alive
<1>4. LimitKept(p)'
  <2>1. CASE state.step = "add"
    BY <1>1, <1>3, <2>1, RoomToAdd
  <2>2. CASE state.step # "add"
    <3>1. Held(p)' \subseteq Held(p) \cup {} /\ Entering' = Entering \ {c}
      BY <1>1, <1>2, <2>2, HeldAfter DEF Held
    <3> QED
      BY <3>1, LimitStaysKept DEF ListInv
  <2> QED
    BY <2>1, <2>2
<1>5. ASSUME ~overlapped', ~unset' PROVE SoundCall(p, c)'
  <2>1. FlagKept(p)
    BY <1>1, <1>5, IdleListCall, ListFound
  <2>2. FlagKept(p)'
    BY <1>2, <2>1 DEF FlagKept
  <2> QED
    BY <1>1, <1>2, <1>3, <2>2 DEF SoundCall
<1>6. /\ overlapped' \in BOOLEAN
      /\ overlapped' = (overlapped \/ \E d \in Calls \ {c} : work[d] # List(p)!Idle)
  BY <1>1 DEF ListInv
<1>7. \A i, j \in List(p)!Flagged' : i = j
  BY <1>2 DEF ListInv
<1>8. /\ rows' \in [Items -> ListRow] /\ unset' \in BOOLEAN /\ (unset => unset')
      /\ state.step # "idle"
      /\ state.step \in {"edit", "flag", "reorder", "delete"} => state.item \in Items
  BY <1>1, <1>3 DEF ListInv
<1> QED
  BY <1>1, <1>4, <1>5, <1>6, <1>7, <1>8, ListMoves

LEMMA ListBeginnings ==
    ASSUME NEW p \in BOOLEAN, ListInv(p), NEW c \in Calls,
           \/ \E flagged \in BOOLEAN : List(p)!BeginAdd(c, flagged)
           \/ \E i \in List(p)!Alive :
                 \/ \E flagged \in BOOLEAN : List(p)!BeginEdit(c, i, flagged)
                 \/ List(p)!BeginCover(c, i)
                 \/ List(p)!BeginDelete(c, i)
           \/ List(p)!BeginReorder(c)
    PROVE  ListInv(p)'
<1> DEFINE idle == List(p)!Idle
<1>1. /\ idle \in ListCall /\ List(p)!Alive \subseteq Items
      /\ \A i \in Items : rows[i].flagged \in BOOLEAN
  BY IdleListCall DEF List!Alive, ListInv, ListRow
<1> HIDE DEF idle
<1>2. ASSUME NEW flagged \in BOOLEAN, List(p)!BeginAdd(c, flagged) PROVE ListInv(p)'
  <2> DEFINE state == [idle EXCEPT !.step = "add", !.flagged = flagged]
  <2>1. state \in ListCall /\ state.step = "add"
    BY <1>1 DEF ListCall
  <2>2. List(p)!WithinLimit /\ List(p)!Begin(c, state)
    BY <1>2 DEF List!BeginAdd, idle
  <2> HIDE DEF state
  <2> QED
    BY <2>1, <2>2, ListBegins
<1>3. ASSUME NEW i \in List(p)!Alive, NEW flagged \in BOOLEAN, List(p)!BeginEdit(c, i, flagged)
      PROVE  ListInv(p)'
  <2> DEFINE state == [idle EXCEPT !.step = "edit", !.item = i, !.flagged = flagged,
                                   !.wasFlagged = rows[i].flagged]
  <2>1. /\ state \in ListCall /\ state.step = "edit" /\ state.item = i
        /\ state.wasFlagged = rows[i].flagged
    BY <1>1 DEF ListCall
  <2>2. List(p)!Begin(c, state)
    BY <1>3 DEF List!BeginEdit, idle
  <2> HIDE DEF state
  <2> QED
    BY <2>1, <2>2, ListBegins
<1>4. ASSUME NEW i \in List(p)!Alive, List(p)!BeginCover(c, i) PROVE ListInv(p)'
  <2> DEFINE state == [idle EXCEPT !.step = "flag", !.item = i]
  <2>1. state \in ListCall /\ state.step = "flag" /\ state.item = i
    BY <1>1 DEF ListCall
  <2>2. List(p)!Begin(c, state)
    BY <1>4 DEF List!BeginCover, idle
  <2> HIDE DEF state
  <2> QED
    BY <2>1, <2>2, ListBegins
<1>5. ASSUME NEW i \in List(p)!Alive, List(p)!BeginDelete(c, i) PROVE ListInv(p)'
  <2> DEFINE state == [idle EXCEPT !.step = "delete", !.item = i,
                                   !.wasFlagged = rows[i].flagged]
  <2>1. /\ state \in ListCall /\ state.step = "delete" /\ state.item = i
        /\ state.wasFlagged = rows[i].flagged
    BY <1>1 DEF ListCall
  <2>2. List(p)!Begin(c, state)
    BY <1>5 DEF List!BeginDelete, idle
  <2> HIDE DEF state
  <2> QED
    BY <2>1, <2>2, ListBegins
<1>6. ASSUME NEW i \in List(p)!Alive, List(p)!Flagged \subseteq {i},
             List(p)!Begin(c, [idle EXCEPT !.step = "reorder", !.item = i,
                                           !.wasFlagged = rows[i].flagged])
      PROVE  ListInv(p)'
  <2> DEFINE state == [idle EXCEPT !.step = "reorder", !.item = i,
                                   !.wasFlagged = rows[i].flagged]
  <2>1. /\ state \in ListCall /\ state.step = "reorder" /\ state.item = i
        /\ state.wasFlagged = rows[i].flagged
    BY <1>1 DEF ListCall
  <2>2. List(p)!Begin(c, state)
    BY <1>6
  <2> HIDE DEF state
  <2> QED
    BY <1>6, <2>1, <2>2, ListBegins
<1>7. CASE List(p)!BeginReorder(c)
  BY <1>6, <1>7 DEF List!BeginReorder, idle
<1> QED
  BY <1>2, <1>3, <1>4, <1>5, <1>7

(* A step that changes no row.                                             *)
LEMMA ListGoesOn ==
    ASSUME NEW p \in BOOLEAN, ListInv(p), NEW c \in Calls,
           List(p)!FlagFirst(c) \/ List(p)!Replace(c) \/ List(p)!Die(c)
    PROVE  ListInv(p)'
<1>1. ASSUME NEW state \in ListCall, work' = [work EXCEPT ![c] = state],
             state.step = "idle" => state = List(p)!Idle,
             state.step = "flag" => state.item \in List(p)!Alive,
             state.step \in {"idle", "insert", "flag"},
             state.step = "insert" => work[c].step = "add",
             UNCHANGED <<rows, unset>>,
             overlapped' \/ (overlapped' = overlapped /\ work[c].step # "idle"),
             overlapped' \in BOOLEAN,
             ~overlapped' /\ ~unset' =>
                 IF state.step = "flag" THEN TRUE
                 ELSE FlagKept(p) /\ (state.step = "insert" /\ List(p)!Alive = {} => state.flagged)
      PROVE  ListInv(p)'
  <2>1. List(p)!Alive' = List(p)!Alive /\ List(p)!Flagged' = List(p)!Flagged
    BY <1>1 DEF List!Alive, List!Flagged
  <2>2. LimitKept(p)'
    <3>1. List(p)!Alive' \subseteq Held(p) \cup {}
      BY <2>1 DEF Held
    <3>2. /\ Held(p)' \subseteq Held(p) \cup {}
          /\ state.step = "insert" => Entering' = Entering \cup {c}
          /\ state.step # "insert" => Entering' = Entering \ {c}
      BY <1>1, <3>1, HeldAfter
    <3>3. state.step = "insert" => c \in Entering
      BY <1>1 DEF Entering
    <3> QED
      BY <3>2, <3>3, LimitStaysKept DEF ListInv
  <2>3. \A i, j \in List(p)!Flagged' : i = j
    BY <2>1 DEF ListInv
  <2>4. /\ rows' \in [Items -> ListRow] /\ unset' \in BOOLEAN /\ (unset => unset')
        /\ state.step \in {"edit", "flag", "reorder", "delete"} => state.item \in Items
    BY <1>1 DEF ListInv, List!Alive
  <2>5. work'[c] = state
    BY <1>1 DEF ListInv
  <2>6. ASSUME ~overlapped', ~unset' PROVE SoundCall(p, c)'
    BY <1>1, <2>1, <2>5, <2>6 DEF SoundCall, FlagKept
  <2> QED
    BY <1>1, <2>2, <2>3, <2>4, <2>6, ListMoves
<1>2. work[c] \in ListCall /\ overlapped \in BOOLEAN
  BY DEF ListInv
<1>3. CASE List(p)!FlagFirst(c)
  <2> DEFINE state == [work[c] EXCEPT !.step = "insert",
                           !.flagged = work[c].flagged \/ List(p)!Alive = {}]
  <2>1. /\ state \in ListCall /\ state.step = "insert"
        /\ List(p)!Alive = {} => state.flagged
    BY <1>2 DEF ListCall
  <2>2. /\ work[c].step = "add" /\ work' = [work EXCEPT ![c] = state]
        /\ UNCHANGED <<rows, unset, overlapped>>
    BY <1>3 DEF List!FlagFirst, List!Go
  <2>3. ~overlapped /\ ~unset => FlagKept(p)
    BY <2>2, ListFound DEF SoundCall
  <2> HIDE DEF state
  <2> QED
    BY <1>1, <1>2, <2>1, <2>2, <2>3
<1>4. CASE List(p)!Replace(c)
  <2>1. work[c].step = "replace" /\ UNCHANGED <<rows, unset, overlapped>>
    BY <1>4 DEF List!Replace
  <2>2. ~overlapped /\ ~unset => FlagKept(p) \/ work[c].wasFlagged
    BY <2>1, ListFound DEF SoundCall
  <2>3. CASE List(p)!NeedsReplacement(c) /\ List(p)!Alive # {}
    <3>1. PICK i \in List(p)!Alive :
              List(p)!Go(c, [List(p)!Idle EXCEPT !.step = "flag", !.item = i])
      BY <1>4, <2>3 DEF List!Replace
    <3> DEFINE idle == List(p)!Idle
               state == [idle EXCEPT !.step = "flag", !.item = i]
    <3>2. idle \in ListCall /\ i \in Items
      BY IdleListCall DEF List!Alive
    <3>3. work' = [work EXCEPT ![c] = state]
      BY <3>1 DEF List!Go
    <3> HIDE DEF idle
    <3>4. state \in ListCall /\ state.step = "flag" /\ state.item = i
      BY <3>2 DEF ListCall
    <3> HIDE DEF state
    <3> QED
      BY <1>1, <1>2, <2>1, <3>3, <3>4
  <2>4. CASE ~(List(p)!NeedsReplacement(c) /\ List(p)!Alive # {})
    <3>1. work' = [work EXCEPT ![c] = List(p)!Idle]
      BY <1>4, <2>4 DEF List!Replace, List!Go, List!End
    <3>2. ~overlapped /\ ~unset => FlagKept(p)
      BY <2>2, <2>4 DEF List!NeedsReplacement, FlagKept
    <3> QED
      BY <1>1, <1>2, <2>1, <3>1, <3>2, IdleListCall
  <2> QED
    BY <2>3, <2>4
<1>5. CASE List(p)!Die(c)
  <2>1. /\ work' = [work EXCEPT ![c] = List(p)!Idle]
        /\ overlapped' = TRUE /\ UNCHANGED <<rows, unset>>
    BY <1>5 DEF List!Die, List!End, List!Go
  <2> QED
    BY <1>1, <2>1, IdleListCall
<1> QED
  BY <1>3, <1>4, <1>5

(* Who saves a flagged item takes the flag from the others.                *)
LEMMA OthersCleared ==
    ASSUME NEW p, rows \in [Items -> ListRow], NEW x, NEW f \in BOOLEAN, NEW i \in Items
    PROVE  LET r == List(p)!ClearOthers(x, f)[i] IN
           /\ r \in ListRow /\ r.row = rows[i].row
           /\ r.flagged = (rows[i].flagged /\ ~(f /\ i \in List(p)!Alive \ {x}))
<1>1. rows[i] \in ListRow
  OBVIOUS
<1>2. CASE f
  <2>1. List(p)!ClearOthers(x, f)[i] =
           IF i \in List(p)!Alive \ {x} THEN [rows[i] EXCEPT !.flagged = FALSE] ELSE rows[i]
    BY <1>2 DEF List!ClearOthers
  <2> QED
    BY <1>1, <1>2, <2>1 DEF ListRow
<1>3. CASE ~f
  BY <1>1, <1>3 DEF List!ClearOthers, ListRow
<1> QED
  BY <1>2, <1>3

LEMMA RowsSaved ==
    ASSUME NEW p, rows \in [Items -> ListRow], NEW x \in Items, NEW f \in BOOLEAN,
           \A i, j \in List(p)!Flagged : i = j,
           NEW new \in ListRow, rows' = [List(p)!ClearOthers(x, f) EXCEPT ![x] = new],
           new.row = "alive" /\ new.flagged => f \/ x \in List(p)!Flagged
    PROVE  /\ rows' \in [Items -> ListRow] /\ rows'[x] = new
           /\ List(p)!Alive' = (List(p)!Alive \ {x})
                               \cup IF new.row = "alive" THEN {x} ELSE {}
           /\ List(p)!Flagged' = (IF f THEN {} ELSE List(p)!Flagged \ {x})
                                 \cup IF new.row = "alive" /\ new.flagged THEN {x} ELSE {}
           /\ \A i, j \in List(p)!Flagged' : i = j
<1> DEFINE r == List(p)!ClearOthers(x, f)
<1>1. DOMAIN r = Items /\ r = [i \in Items |-> r[i]]
  BY DEF List!ClearOthers
<1>2. \A i \in Items : r[i] \in ListRow
  BY OthersCleared
<1> HIDE DEF r
<1>3. /\ rows' \in [Items -> ListRow] /\ rows'[x] = new
      /\ \A i \in Items \ {x} : rows'[i] = r[i]
  BY <1>1, <1>2 DEF r
<1>4. \A i \in Items \ {x} :
        /\ rows'[i].row = rows[i].row
        /\ rows'[i].flagged = (rows[i].flagged /\ ~(f /\ i \in List(p)!Alive))
  <2>1. \A i \in Items :
          /\ r[i].row = rows[i].row
          /\ r[i].flagged = (rows[i].flagged /\ ~(f /\ i \in List(p)!Alive \ {x}))
    BY OthersCleared DEF r
  <2> QED
    BY <1>3, <2>1
<1>5. List(p)!Alive' = (List(p)!Alive \ {x}) \cup IF new.row = "alive" THEN {x} ELSE {}
  BY <1>3, <1>4 DEF List!Alive
<1>6. List(p)!Flagged' = (IF f THEN {} ELSE List(p)!Flagged \ {x})
                         \cup IF new.row = "alive" /\ new.flagged THEN {x} ELSE {}
  BY <1>3, <1>4, <1>5 DEF List!Flagged, List!Alive
<1>7. \A i, j \in List(p)!Flagged' : i = j
  BY <1>6
<1> QED
  BY <1>3, <1>5, <1>6, <1>7

(* A call saves an item; it ends then, or looks for a replacement.         *)
LEMMA ListSaves ==
    ASSUME NEW p \in BOOLEAN, ListInv(p), NEW c \in Calls, NEW state \in ListCall,
           work' = [work EXCEPT ![c] = state],
           state = List(p)!Idle \/ state.step = "replace",
           rows' \in [Items -> ListRow],
           \A i, j \in List(p)!Flagged' : i = j,
           \/ List(p)!Alive' \subseteq Held(p)
           \/ \E i : List(p)!Alive' \subseteq Held(p) \cup {i} /\ c \in Entering,
           unset' \in BOOLEAN, unset => unset', overlapped' = overlapped,
           work[c].step # "idle",
           ~overlapped /\ ~unset' =>
               IF state.step = "idle" THEN FlagKept(p)' ELSE FlagKept(p)' \/ state.wasFlagged
    PROVE  ListInv(p)'
<1>1. state.step \in {"idle", "replace"} /\ (state.step = "idle" => state = List(p)!Idle)
  BY IdleListCall
<1>2. LimitKept(p)'
  <2>1. CASE List(p)!Alive' \subseteq Held(p)
    <3>1. Held(p)' \subseteq Held(p) \cup {} /\ Entering' = Entering \ {c}
      BY <1>1, <2>1, HeldAfter
    <3> QED
      BY <3>1, LimitStaysKept DEF ListInv
  <2>2. CASE \E i : List(p)!Alive' \subseteq Held(p) \cup {i} /\ c \in Entering
    <3>1. PICK i : List(p)!Alive' \subseteq Held(p) \cup {i} /\ c \in Entering
      BY <2>2
    <3>2. Held(p)' \subseteq Held(p) \cup {i} /\ Entering' = Entering \ {c}
      BY <1>1, <3>1, HeldAfter
    <3> QED
      BY <3>1, <3>2, LimitStaysKept DEF ListInv
  <2> QED
    BY <2>1, <2>2
<1>3. work'[c] = state /\ overlapped' \in BOOLEAN
  BY DEF ListInv
<1>4. ASSUME ~overlapped', ~unset' PROVE SoundCall(p, c)'
  BY <1>1, <1>3, <1>4 DEF SoundCall
<1> QED
  BY <1>1, <1>2, <1>3, <1>4, ListMoves

LEMMA RowsAsFound ==
    ASSUME NEW p, ListInv(p)
    PROVE  rows \in [Items -> ListRow] /\ \A i, j \in List(p)!Flagged : i = j
BY DEF ListInv

LEMMA InsertStep ==
    ASSUME NEW p \in BOOLEAN, ListInv(p), NEW c \in Calls, List(p)!InsertItem(c)
    PROVE  ListInv(p)'
<1>1. PICK i \in Items :
        /\ rows[i].row = "none"
        /\ rows' = [List(p)!ClearOthers(i, work[c].flagged) EXCEPT
                       ![i] = [row |-> "alive", flagged |-> work[c].flagged]]
  BY DEF List!InsertItem
<1>2. /\ work[c].step = "insert" /\ work' = [work EXCEPT ![c] = List(p)!Idle]
      /\ UNCHANGED <<unset, overlapped>>
  BY DEF List!InsertItem, List!End, List!Go
<1> DEFINE f == work[c].flagged
           new == [row |-> "alive", flagged |-> f]
<1>3. f \in BOOLEAN /\ new \in ListRow /\ new.row = "alive" /\ new.flagged = f
  BY DEF ListInv, ListCall, ListRow
<1> HIDE DEF new
<1>4. rows' = [List(p)!ClearOthers(i, f) EXCEPT ![i] = new]
  BY <1>1 DEF new
<1>5. /\ rows' \in [Items -> ListRow]
      /\ List(p)!Alive' = (List(p)!Alive \ {i}) \cup {i}
      /\ List(p)!Flagged' = (IF f THEN {} ELSE List(p)!Flagged \ {i}) \cup IF f THEN {i} ELSE {}
      /\ \A k, j \in List(p)!Flagged' : k = j
  BY <1>3, <1>4, RowsAsFound, RowsSaved
<1>6. i \notin List(p)!Alive /\ i \notin List(p)!Flagged
  BY <1>1 DEF List!Alive, List!Flagged
<1>7. ASSUME ~overlapped, ~unset' PROVE FlagKept(p)'
  <2>1. FlagKept(p) /\ (List(p)!Alive = {} => f)
    BY <1>2, <1>7, ListFound DEF SoundCall
  <2> QED
    BY <1>5, <1>6, <2>1 DEF FlagKept
<1>8. List(p)!Alive' \subseteq Held(p) \cup {i} /\ c \in Entering
  BY <1>2, <1>5 DEF Held, Entering
<1>9. unset' \in BOOLEAN /\ (unset => unset')
  BY <1>2 DEF ListInv
<1> QED
  BY <1>2, <1>5, <1>7, <1>8, <1>9, ListSaves, IdleListCall

LEMMA EditStep ==
    ASSUME NEW p \in BOOLEAN, ListInv(p), NEW c \in Calls, List(p)!SaveEdit(c)
    PROVE  ListInv(p)'
<1> DEFINE i == work[c].item
           f == work[c].flagged
           new == [row |-> "alive", flagged |-> f]
<1>1. /\ work[c].step = "edit" /\ work' = [work EXCEPT ![c] = List(p)!Idle]
      /\ unset' = (unset \/ (work[c].wasFlagged /\ ~f)) /\ overlapped' = overlapped
      /\ rows' = [List(p)!ClearOthers(i, f) EXCEPT ![i] = new]
  BY DEF List!SaveEdit, List!End, List!Go
<1>2. f \in BOOLEAN /\ new \in ListRow /\ new.row = "alive" /\ new.flagged = f /\ i \in Items
  BY <1>1 DEF ListInv, ListCall, ListRow
<1> HIDE DEF new
<1>3. /\ rows' \in [Items -> ListRow]
      /\ List(p)!Alive' = (List(p)!Alive \ {i}) \cup {i}
      /\ List(p)!Flagged' = (IF f THEN {} ELSE List(p)!Flagged \ {i}) \cup IF f THEN {i} ELSE {}
      /\ \A k, j \in List(p)!Flagged' : k = j
  BY <1>1, <1>2, RowsAsFound, RowsSaved
<1>4. ASSUME ~overlapped, ~unset' PROVE FlagKept(p)'
  <2>1. /\ ~unset /\ (work[c].wasFlagged => f)
        /\ FlagKept(p) /\ i \in List(p)!Alive /\ work[c].wasFlagged = rows[i].flagged
    BY <1>1, <1>4, ListFound DEF SoundCall
  <2>2. ~f => i \notin List(p)!Flagged
    BY <2>1 DEF List!Flagged
  <2> QED
    BY <1>3, <2>1, <2>2 DEF FlagKept
<1>5. List(p)!Alive' \subseteq Held(p)
  <2>1. i \in Held(p)
    BY <1>1 DEF Held, Editing
  <2> QED
    BY <1>3, <2>1 DEF Held
<1>6. unset' \in BOOLEAN /\ (unset => unset')
  BY <1>1, <1>2 DEF ListInv, ListCall
<1> QED
  BY <1>1, <1>3, <1>4, <1>5, <1>6, ListSaves, IdleListCall

LEMMA FlagStep ==
    ASSUME NEW p \in BOOLEAN, ListInv(p), NEW c \in Calls, List(p)!SaveFlag(c)
    PROVE  ListInv(p)'
(* f names TRUE, the flag that is saved. *)
<1> DEFINE cover == [flagged |-> TRUE]
           f == cover.flagged
           i == work[c].item
           r == List(p)!ClearOthers(i, f)
           new == [r[i] EXCEPT !.flagged = TRUE]
<1>0. f \in BOOLEAN /\ f
  OBVIOUS
<1> HIDE DEF cover
<1>1. /\ work[c].step = "flag" /\ work' = [work EXCEPT ![c] = List(p)!Idle]
      /\ UNCHANGED <<unset, overlapped>>
      /\ rows' = [r EXCEPT ![i] = new]
  BY <1>0 DEF List!SaveFlag, List!End, List!Go, List!ClearOthers
<1>2. i \in Items /\ f \in BOOLEAN
  BY <1>0, <1>1 DEF ListInv
<1>3. new \in ListRow /\ new.flagged /\ new.row = rows[i].row
  <2>1. r[i] \in ListRow /\ r[i].row = rows[i].row
    BY <1>2, RowsAsFound, OthersCleared
  <2> HIDE DEF r
  <2> QED
    BY <2>1 DEF ListRow
<1> HIDE DEF new
<1>4. /\ rows' \in [Items -> ListRow]
      /\ List(p)!Alive' = (List(p)!Alive \ {i}) \cup IF new.row = "alive" THEN {i} ELSE {}
      /\ List(p)!Flagged' = IF new.row = "alive" THEN {i} ELSE {}
      /\ \A k, j \in List(p)!Flagged' : k = j
  <2>1. /\ rows' \in [Items -> ListRow]
        /\ List(p)!Alive' = (List(p)!Alive \ {i}) \cup IF new.row = "alive" THEN {i} ELSE {}
        /\ List(p)!Flagged' = (IF f THEN {} ELSE List(p)!Flagged \ {i})
                              \cup IF new.row = "alive" /\ new.flagged THEN {i} ELSE {}
        /\ \A k, j \in List(p)!Flagged' : k = j
    <3>1. new.row = "alive" /\ new.flagged => f \/ i \in List(p)!Flagged
      BY <1>0
    <3> QED
      BY <1>1, <1>2, <1>3, <3>1, RowsAsFound, RowsSaved
  <2> QED
    BY <1>0, <1>3, <2>1
<1>5. new.row = "alive" <=> i \in List(p)!Alive
  BY <1>2, <1>3 DEF List!Alive
<1>6. ASSUME ~overlapped, ~unset' PROVE FlagKept(p)'
  <2>1. i \in List(p)!Alive
    BY <1>1, <1>6, ListFound DEF SoundCall
  <2> QED
    BY <1>4, <1>5, <2>1 DEF FlagKept
<1>7. List(p)!Alive' \subseteq Held(p)
  BY <1>4, <1>5 DEF Held
<1>8. unset' \in BOOLEAN /\ (unset => unset')
  BY <1>1 DEF ListInv
<1> QED
  BY <1>1, <1>4, <1>6, <1>7, <1>8, ListSaves, IdleListCall

LEMMA ReorderStep ==
    ASSUME NEW p \in BOOLEAN, ListInv(p), NEW c \in Calls, List(p)!SaveReorder(c)
    PROVE  ListInv(p)'
<1> DEFINE i == work[c].item
           f == work[c].wasFlagged
           r == List(p)!ClearOthers(i, f)
<1>1. /\ work[c].step = "reorder" /\ work' = [work EXCEPT ![c] = List(p)!Idle]
      /\ UNCHANGED <<unset, overlapped>>
      /\ rows' = r
  BY DEF List!SaveReorder, List!End, List!Go
<1>2. i \in Items /\ f \in BOOLEAN /\ rows[i] \in ListRow
  BY <1>1 DEF ListInv, ListCall
<1>3. rows' = [r EXCEPT ![i] = rows[i]]
  <2>1. DOMAIN r = Items /\ r = [k \in Items |-> r[k]] /\ r[i] = rows[i]
    BY <1>2 DEF List!ClearOthers, ListInv
  <2> HIDE DEF r
  <2> QED
    BY <1>1, <1>2, <2>1
<1>4. rows[i].row = "alive" <=> i \in List(p)!Alive
  BY <1>2 DEF List!Alive
<1>5. i \in List(p)!Flagged <=> i \in List(p)!Alive /\ rows[i].flagged
  BY DEF List!Flagged
<1> HIDE DEF r
<1>6. /\ rows' \in [Items -> ListRow]
      /\ List(p)!Alive' = List(p)!Alive
      /\ List(p)!Flagged' = IF f THEN List(p)!Flagged \cap {i} ELSE List(p)!Flagged
      /\ \A k, j \in List(p)!Flagged' : k = j
  <2>1. /\ rows' \in [Items -> ListRow]
        /\ List(p)!Alive' = (List(p)!Alive \ {i})
                               \cup IF rows[i].row = "alive" THEN {i} ELSE {}
        /\ List(p)!Flagged' = (IF f THEN {} ELSE List(p)!Flagged \ {i})
               \cup IF rows[i].row = "alive" /\ rows[i].flagged THEN {i} ELSE {}
        /\ \A k, j \in List(p)!Flagged' : k = j
    BY <1>2, <1>3, <1>4, <1>5, RowsAsFound, RowsSaved DEF r
  <2> QED
    BY <1>4, <1>5, <2>1
<1>7. ASSUME ~overlapped, ~unset' PROVE FlagKept(p)'
  <2>1. FlagKept(p) /\ List(p)!Flagged \subseteq {i} /\ i \in List(p)!Alive
    BY <1>1, <1>7, ListFound DEF SoundCall
  <2> QED
    BY <1>6, <2>1 DEF FlagKept
<1>8. List(p)!Alive' \subseteq Held(p)
  BY <1>6 DEF Held
<1>9. unset' \in BOOLEAN /\ (unset => unset')
  BY <1>1 DEF ListInv
<1> QED
  BY <1>1, <1>6, <1>7, <1>8, <1>9, ListSaves, IdleListCall

LEMMA DeleteStep ==
    ASSUME NEW p \in BOOLEAN, ListInv(p), NEW c \in Calls, List(p)!DeleteItem(c)
    PROVE  ListInv(p)'
<1> DEFINE i == work[c].item
           f == work[c].wasFlagged
           r == List(p)!ClearOthers(i, f)
           new == [r[i] EXCEPT !.row = "deleted"]
           state == [work[c] EXCEPT !.step = "replace"]
<1>1. /\ work[c].step = "delete" /\ work' = [work EXCEPT ![c] = state]
      /\ UNCHANGED <<unset, overlapped>>
      /\ rows' = [r EXCEPT ![i] = new]
  BY DEF List!DeleteItem, List!Go
<1>2. /\ i \in Items /\ f \in BOOLEAN
      /\ state \in ListCall /\ state.step = "replace" /\ state.wasFlagged = f
  BY <1>1 DEF ListInv, ListCall
<1>3. new \in ListRow /\ new.row = "deleted"
  <2>1. r[i] \in ListRow
    BY <1>2, RowsAsFound, OthersCleared
  <2> HIDE DEF r
  <2> QED
    BY <2>1 DEF ListRow
<1> HIDE DEF new, state
<1>4. /\ rows' \in [Items -> ListRow]
      /\ List(p)!Alive' = List(p)!Alive \ {i}
      /\ List(p)!Flagged' = IF f THEN {} ELSE List(p)!Flagged \ {i}
      /\ \A k, j \in List(p)!Flagged' : k = j
  BY <1>1, <1>2, <1>3, RowsAsFound, RowsSaved
<1>5. ASSUME ~overlapped, ~unset' PROVE FlagKept(p)' \/ f
  <2>1. FlagKept(p) /\ i \in List(p)!Alive /\ f = rows[i].flagged
    BY <1>1, <1>5, ListFound DEF SoundCall
  <2>2. ~f => i \notin List(p)!Flagged
    BY <2>1 DEF List!Flagged
  <2> QED
    BY <1>4, <2>1, <2>2 DEF FlagKept
<1>6. List(p)!Alive' \subseteq Held(p)
  BY <1>4 DEF Held
<1>7. unset' \in BOOLEAN /\ (unset => unset')
  BY <1>1 DEF ListInv
<1> QED
  BY <1>1, <1>2, <1>4, <1>5, <1>6, <1>7, ListSaves, IdleListCall

LEMMA ListStep ==
    ASSUME NEW p \in BOOLEAN, ListInv(p), List(p)!Next
    PROVE  ListInv(p)'
<1>1. CASE List(p)!Adding
  BY <1>1, ListBeginnings, ListGoesOn, InsertStep DEF List!Adding
<1>2. CASE List(p)!Changing
  BY <1>2, ListBeginnings, ListGoesOn, EditStep, FlagStep, ReorderStep, DeleteStep
  DEF List!Changing
<1>3. CASE \E c \in Calls : List(p)!Die(c)
  BY <1>3, ListGoesOn
<1> QED
  BY <1>1, <1>2, <1>3 DEF List!Next

LEMMA ListConsequences ==
    ASSUME NEW p \in BOOLEAN, ListInv(p)
    PROVE  List(p)!TypeOK /\ List(p)!ListWithinBounds /\ List(p)!FlagIsKept
<1>1. List(p)!TypeOK
  BY DEF ListInv, ListCall, ListRow, List!TypeOK
<1>2. Cardinality(List(p)!Flagged) <= 1
  <2>1. CASE List(p)!Flagged = {}
    BY <2>1, FS_EmptySet
  <2>2. CASE List(p)!Flagged # {}
    <3>1. PICK i : i \in List(p)!Flagged
      BY <2>2
    <3>2. List(p)!Flagged = {i}
      BY <3>1 DEF ListInv
    <3> QED
      <4>1. Cardinality(List(p)!Flagged) = 1
        BY <3>2, FS_Singleton
      <4> QED
        BY <4>1
  <2> QED
    BY <2>1, <2>2
<1>3. p => Cardinality(List(p)!Alive) < MaxCount + Cardinality(Calls)
  <2>1. /\ List(p)!Alive \subseteq Held(p) /\ IsFiniteSet(Held(p))
        /\ IsFiniteSet(Calls) /\ IsFiniteSet(Entering) /\ MaxCount \in Nat
    BY FS_Subset, ServicesAssumption DEF ListInv, LimitKept, Held, Entering
  <2>2. /\ Cardinality(List(p)!Alive) <= Cardinality(Held(p))
        /\ Cardinality(List(p)!Alive) \in Nat /\ Cardinality(Held(p)) \in Nat
        /\ Cardinality(Entering) \in Nat /\ Cardinality(Calls) \in Nat
    BY <2>1, FS_Subset, FS_CardinalityType
  <2>3. p => Cardinality(Held(p)) + Cardinality(Entering) < MaxCount + Cardinality(Calls)
    BY DEF ListInv, LimitKept
  <2> HIDE DEF Held, Entering
  <2>4. \A a, h, n, k, m \in Nat : a <= h /\ h + n < m + k => a < m + k
    OBVIOUS
  <2> QED
    BY <2>1, <2>2, <2>3, <2>4
<1>4. List(p)!ListWithinBounds
  BY <1>2, <1>3, ListCardinality DEF List!ListWithinBounds
<1>5. List(p)!FlagIsKept
  <2> SUFFICES ASSUME ~overlapped, ~unset, List(p)!Quiet PROVE FlagKept(p)
    BY DEF List!FlagIsKept, FlagKept
  <2>1. \A c \in Calls : work[c].step = "idle"
    BY IdleListCall DEF List!Quiet
  <2> QED
    BY <2>1, ListFound, ServicesAssumption
<1> QED
  BY <1>1, <1>4, <1>5

-----------------------------------------------------------------------------
(* Reviews.  The review that a call works on stays reviewed; a review with *)
(* three flags that is still published and was not published again has a   *)
(* call that is about to withdraw it.                                      *)

ReviewRow == [status : Reviews!ReviewStatus, published : BOOLEAN, answered : BOOLEAN]

Counting == {"count", "jobs", "summarise"}

ReviewCall == [step : {"idle", "edit", "respond", "decide", "flag", "withdraw", "profile"}
                        \cup Counting,
               booking : Bookings \cup {NoBooking}, loaded : ReviewRow, grave : BOOLEAN,
               user : Users \cup {NoBooking}, counted : SUBSET Bookings, jobs : SUBSET Bookings]

FlagsHeeded(b) ==
    /\ reviews[b].status = "published"
    /\ Reviews!Cardinality(flags[b]) >= Reviews!Heeded
    => \/ admitted[b] = flags[b]
       \/ \E c \in Calls : work[c].step = "withdraw" /\ work[c].booking = b

Earned(b) ==
    /\ reviews[b].status # "absent" => bookings[b] = "completed"
    /\ reviews[b].status = "published" => reviews[b].published

CallOnReview(c) ==
    /\ work[c].step = "idle" => work[c] = Reviews!Idle
    /\ work[c].step \notin Counting \cup {"idle", "profile"} =>
          work[c].booking \in Bookings /\ reviews[work[c].booking].status # "absent"
    /\ work[c].step = "edit" => work[c].loaded.status = "pending"
    /\ work[c].step = "flag" => work[c].user \in Users
    /\ work[c].jobs \subseteq Reviews!Completed

ReviewAsFound(c) ==
    /\ work[c].step = "edit" => reviews[work[c].booking].status = "pending"
    /\ work[c].step = "respond" => ~reviews[work[c].booking].answered
    /\ work[c].step \in {"jobs", "summarise", "profile"} =>
          work[c].counted = Reviews!Published

ReviewsUndisturbed ==
    ~overlapped =>
        /\ \A c, d \in Calls : work[c].step # "idle" /\ work[d].step # "idle" => c = d
        /\ \A c \in Calls : ReviewAsFound(c)
        /\ (\A c \in Calls : work[c].step \notin Counting) => summary.counted = Reviews!Published
        /\ twice = {}

ReviewsTyped ==
    /\ Reviews!TypeOK
    /\ work \in [Calls -> ReviewCall]
    /\ admitted \in [Bookings -> SUBSET Users]
    /\ overlapped \in BOOLEAN /\ died \in BOOLEAN

ReviewsInv ==
    /\ ReviewsTyped
    /\ \A c \in Calls : CallOnReview(c)
    /\ \A b \in Bookings : Earned(b)
    /\ ~died => \A b \in Bookings : FlagsHeeded(b)
    /\ summary.jobs \subseteq Reviews!Completed
    /\ ReviewsUndisturbed

LEMMA NoReviewYet ==
    /\ Reviews!NoReview \in ReviewRow /\ Reviews!NoReview.status = "absent"
    /\ ~Reviews!NoReview.published /\ ~Reviews!NoReview.answered
BY DEF Reviews!NoReview, ReviewRow, Reviews!ReviewStatus

LEMMA IdleReviewCall ==
    /\ Reviews!Idle \in ReviewCall /\ Reviews!Idle.step = "idle"
    /\ Reviews!Idle.jobs = {} /\ Reviews!Idle.counted = {}
<1>1. Reviews!NoReview \in ReviewRow
  BY NoReviewYet
<1> QED
  BY <1>1 DEF Reviews!Idle, ReviewCall

LEMMA RecountCall ==
    ASSUME NEW c
    PROVE  /\ Reviews!Recount(c) \in ReviewCall /\ Reviews!Recount(c).step = "count"
           /\ Reviews!Recount(c).jobs = {}
<1>1. /\ Reviews!Idle \in ReviewCall /\ Reviews!Idle.jobs = {}
      /\ Reviews!Recount(c) = [Reviews!Idle EXCEPT !.step = "count"]
  BY IdleReviewCall DEF Reviews!Recount
<1> QED
  BY <1>1 DEF ReviewCall, Counting

LEMMA ReviewsInit == Reviews!Init => ReviewsInv
<1> SUFFICES ASSUME Reviews!Init PROVE ReviewsInv
  OBVIOUS
<1>1. /\ work \in [Calls -> ReviewCall] /\ overlapped = FALSE /\ died = FALSE /\ twice = {}
      /\ \A c \in Calls : work[c] = Reviews!Idle
      /\ admitted \in [Bookings -> SUBSET Users] /\ flags \in [Bookings -> SUBSET Users]
      /\ bookings \in [Bookings -> Reviews!BookingStatus]
      /\ summary.counted = {} /\ summary.jobs = {}
      /\ summary \in [counted : SUBSET Bookings, jobs : SUBSET Bookings]
  BY IdleReviewCall DEF Reviews!Init, Reviews!BookingStatus
<1>2. reviews \in [Bookings -> ReviewRow] /\ \A b \in Bookings : reviews[b] = Reviews!NoReview
  BY NoReviewYet DEF Reviews!Init
<1>3. ReviewsTyped
  BY <1>1, <1>2 DEF ReviewsTyped, Reviews!TypeOK, ReviewRow
<1>4. Reviews!Published = {}
  BY <1>2, NoReviewYet DEF Reviews!Published
<1>5. \A c \in Calls : CallOnReview(c) /\ ReviewAsFound(c)
  BY <1>1, IdleReviewCall DEF CallOnReview, ReviewAsFound, Counting
<1>6. \A b \in Bookings : Earned(b) /\ FlagsHeeded(b)
  BY <1>2, NoReviewYet DEF Earned, FlagsHeeded
<1> QED
  BY <1>1, <1>3, <1>4, <1>5, <1>6, IdleReviewCall DEF ReviewsInv, ReviewsUndisturbed

LEMMA CallMoves ==
    ASSUME ReviewsInv, NEW c \in Calls, NEW state \in ReviewCall,
           work' = [work EXCEPT ![c] = state]
    PROVE  /\ work' \in [Calls -> ReviewCall] /\ work'[c] = state
           /\ \A d \in Calls \ {c} : work'[d] = work[d]
BY DEF ReviewsInv, ReviewsTyped

LEMMA ReviewBegins ==
    ASSUME ReviewsInv, NEW c \in Calls, NEW state \in ReviewCall, Reviews!Begin(c, state),
           state.step \in {"edit", "respond", "decide", "flag", "count", "profile"},
           state.step \notin {"count", "profile"} =>
               state.booking \in Bookings /\ reviews[state.booking].status # "absent",
           state.step = "edit" =>
               state.loaded.status = "pending" /\ reviews[state.booking].status = "pending",
           state.step = "respond" => ~reviews[state.booking].answered,
           state.step = "flag" => state.user \in Users,
           state.step = "profile" => state.counted = summary.counted,
           state.jobs \subseteq Reviews!Completed
    PROVE  ReviewsInv'
<1>1. /\ work[c] = Reviews!Idle /\ work' = [work EXCEPT ![c] = state]
      /\ overlapped' = (overlapped \/ \E d \in Calls : work[d] # Reviews!Idle)
      /\ UNCHANGED <<bookings, reviews, flags, summary, admitted, twice, died>>
  BY DEF Reviews!Begin
<1>2. /\ work' \in [Calls -> ReviewCall] /\ work'[c] = state
      /\ \A d \in Calls \ {c} : work'[d] = work[d]
  BY <1>1, CallMoves
<1>3. ReviewsTyped'
  BY <1>1, <1>2 DEF ReviewsInv, ReviewsTyped, Reviews!TypeOK
<1>4. Reviews!Completed' = Reviews!Completed /\ Reviews!Published' = Reviews!Published
  BY <1>1 DEF Reviews!Completed, Reviews!Published
<1>5. \A d \in Calls : CallOnReview(d)'
  BY <1>1, <1>2, <1>4 DEF ReviewsInv, CallOnReview, Counting
<1>6. ASSUME ~died', NEW b \in Bookings PROVE FlagsHeeded(b)'
  BY <1>1, <1>2, <1>6, IdleReviewCall DEF ReviewsInv, FlagsHeeded
<1>7. ASSUME ~overlapped' PROVE ReviewsUndisturbed'
  <2>1. ~overlapped /\ \A d \in Calls : work[d].step = "idle"
    BY <1>1, <1>7, IdleReviewCall
  <2>2. summary'.counted = Reviews!Published'
    BY <1>1, <1>4, <2>1 DEF ReviewsInv, ReviewsUndisturbed, Counting
  <2>3. \A d \in Calls : ReviewAsFound(d)'
    BY <1>1, <1>2, <1>4, <2>1, <2>2 DEF ReviewAsFound
  <2> QED
    BY <1>1, <1>2, <2>1, <2>2, <2>3 DEF ReviewsInv, ReviewsUndisturbed
<1>8. ReviewsUndisturbed'
  BY <1>7 DEF ReviewsUndisturbed
<1> QED
  BY <1>1, <1>3, <1>4, <1>5, <1>6, <1>8 DEF ReviewsInv, Earned

LEMMA ReviewBeginnings ==
    ASSUME ReviewsInv, NEW b \in Bookings, NEW c \in Calls,
           \/ Reviews!BeginEdit(c, b) \/ Reviews!BeginRespond(c, b)
           \/ Reviews!BeginDecision(c, b) \/ Reviews!PublishAgain(c, b)
           \/ \E u \in Users, grave \in BOOLEAN : Reviews!BeginFlag(c, b, u, grave)
    PROVE  ReviewsInv'
<1> DEFINE idle == Reviews!Idle
<1>1. idle \in ReviewCall /\ idle.jobs = {} /\ reviews[b] \in ReviewRow
  BY IdleReviewCall DEF ReviewsInv, ReviewsTyped, Reviews!TypeOK, ReviewRow
<1> HIDE DEF idle
<1>2. CASE Reviews!BeginEdit(c, b)
  <2> DEFINE state == [idle EXCEPT !.step = "edit", !.booking = b, !.loaded = reviews[b]]
  <2>1. reviews[b].status = "pending" /\ Reviews!Begin(c, state)
    BY <1>2 DEF Reviews!BeginEdit, idle
  <2>2. /\ state \in ReviewCall /\ state.step = "edit" /\ state.booking = b
        /\ state.loaded = reviews[b] /\ state.jobs = {}
    BY <1>1 DEF ReviewCall
  <2> HIDE DEF state
  <2> QED
    BY <2>1, <2>2, ReviewBegins
<1>3. ASSUME NEW step \in {"respond", "decide"}, Reviews!Load(c, step, b),
             reviews[b].status # "absent", step = "respond" => ~reviews[b].answered
      PROVE  ReviewsInv'
  <2> DEFINE state == [idle EXCEPT !.step = step, !.booking = b]
  <2>1. Reviews!Begin(c, state)
    BY <1>3 DEF Reviews!Load, idle
  <2>2. state \in ReviewCall /\ state.step = step /\ state.booking = b /\ state.jobs = {}
    BY <1>1 DEF ReviewCall
  <2> HIDE DEF state
  <2> QED
    BY <1>3, <2>1, <2>2, ReviewBegins
<1>4. CASE Reviews!BeginRespond(c, b) \/ Reviews!BeginDecision(c, b)
  BY <1>3, <1>4 DEF Reviews!BeginRespond, Reviews!MayRespond, Reviews!BeginDecision,
                    Reviews!Reviewed
<1>5. CASE Reviews!PublishAgain(c, b)
  BY <1>5, RecountCall, ReviewBegins DEF Reviews!PublishAgain
<1>6. ASSUME NEW u \in Users, NEW grave \in BOOLEAN, Reviews!BeginFlag(c, b, u, grave)
      PROVE  ReviewsInv'
  <2> DEFINE state == [idle EXCEPT !.step = "flag", !.booking = b, !.user = u, !.grave = grave]
  <2>1. reviews[b].status # "absent" /\ Reviews!Begin(c, state)
    BY <1>6 DEF Reviews!BeginFlag, Reviews!Flaggable, idle
  <2>2. /\ state \in ReviewCall /\ state.step = "flag" /\ state.booking = b
        /\ state.user = u /\ state.jobs = {}
    BY <1>1 DEF ReviewCall
  <2> HIDE DEF state
  <2> QED
    BY <2>1, <2>2, ReviewBegins
<1> QED
  BY <1>2, <1>4, <1>5, <1>6

(* A call saves the review it works on, and ends or counts again.          *)
LEMMA ReviewSaves ==
    ASSUME ReviewsInv, NEW c \in Calls, NEW step \in {"edit", "respond", "decide", "withdraw"},
           NEW row \in ReviewRow, NEW next \in ReviewCall, Reviews!SaveReview(c, step, row, next),
           row.status # "absent", row.status = "published" => row.published,
           next.step \in {"idle", "count"}, next.step = "idle" => next = Reviews!Idle,
           next.jobs = {},
           admitted' \in [Bookings -> SUBSET Users],
           \A b \in Bookings \ {work[c].booking} : admitted'[b] = admitted[b],
           row.status = "published" =>
               \/ admitted'[work[c].booking] = flags[work[c].booking]
               \/ /\ step # "withdraw" /\ admitted' = admitted
                  /\ reviews[work[c].booking].status = "published",
           ~overlapped => twice' = {},
           ~overlapped /\ next.step = "idle" =>
               (row.status = "published" <=> reviews[work[c].booking].status = "published")
    PROVE  ReviewsInv'
<1> DEFINE r == work[c].booking
<1>1. /\ work[c].step = step /\ reviews' = [reviews EXCEPT ![r] = row]
      /\ work' = [work EXCEPT ![c] = next]
      /\ UNCHANGED <<bookings, flags, summary, overlapped, died>>
  BY DEF Reviews!SaveReview, Reviews!Go
<1>2. /\ work' \in [Calls -> ReviewCall] /\ work'[c] = next
      /\ \A d \in Calls \ {c} : work'[d] = work[d]
  BY <1>1, CallMoves
<1>3. r \in Bookings /\ reviews[r].status # "absent"
  BY <1>1 DEF ReviewsInv, CallOnReview, Counting
<1>4. /\ reviews' \in [Bookings -> ReviewRow] /\ reviews'[r] = row
      /\ \A b \in Bookings \ {r} : reviews'[b] = reviews[b]
  BY <1>1, <1>3 DEF ReviewsInv, ReviewsTyped, Reviews!TypeOK, ReviewRow
<1> HIDE DEF r
<1>5. ReviewsTyped'
  BY <1>1, <1>2, <1>4 DEF ReviewsInv, ReviewsTyped, Reviews!TypeOK, ReviewRow
<1>6. Reviews!Completed' = Reviews!Completed
  BY <1>1 DEF Reviews!Completed
<1>7. \A b \in Bookings : reviews[b].status # "absent" => reviews'[b].status # "absent"
  BY <1>4
<1>8. \A d \in Calls : CallOnReview(d)'
  BY <1>2, <1>6, <1>7 DEF ReviewsInv, CallOnReview, Counting
<1>9. \A b \in Bookings : Earned(b)'
  BY <1>1, <1>3, <1>4 DEF ReviewsInv, Earned
<1>10. ASSUME ~died', NEW b \in Bookings PROVE FlagsHeeded(b)'
  <2>1. FlagsHeeded(b)
    BY <1>1, <1>10 DEF ReviewsInv
  <2>2. CASE b # r
    BY <1>1, <1>2, <1>4, <2>1, <2>2 DEF FlagsHeeded, r
  <2>3. CASE b = r
    BY <1>1, <1>2, <1>4, <2>1, <2>3 DEF FlagsHeeded, r
  <2> QED
    BY <2>2, <2>3
<1>11. ASSUME ~overlapped' PROVE ReviewsUndisturbed'
  <2>1. \A d \in Calls \ {c} : work[d].step = "idle"
    BY <1>1, <1>11 DEF ReviewsInv, ReviewsUndisturbed
  <2>2. \A d \in Calls : ReviewAsFound(d)'
    BY <1>2, <2>1 DEF ReviewAsFound
  <2>3. next.step = "idle" => Reviews!Published' = Reviews!Published
    BY <1>1, <1>3, <1>4, <1>11 DEF Reviews!Published, r
  <2>4. summary.counted = Reviews!Published
    BY <1>1, <1>11, <2>1 DEF ReviewsInv, ReviewsUndisturbed, Counting
  <2> QED
    BY <1>1, <1>2, <1>11, <2>1, <2>2, <2>3, <2>4 DEF ReviewsUndisturbed, Counting
<1>12. ReviewsUndisturbed'
  BY <1>11 DEF ReviewsUndisturbed
<1> QED
  BY <1>1, <1>5, <1>6, <1>8, <1>9, <1>10, <1>12 DEF ReviewsInv

LEMMA ReviewSavings ==
    ASSUME ReviewsInv, NEW c \in Calls,
           \/ Reviews!SaveEdit(c) \/ Reviews!Respond(c)
           \/ Reviews!SaveDecision(c) \/ Reviews!Withdraw(c)
    PROVE  ReviewsInv'
<1> DEFINE r == work[c].booking
<1>1. /\ admitted \in [Bookings -> SUBSET Users] /\ flags \in [Bookings -> SUBSET Users]
      /\ work[c] \in ReviewCall /\ (~overlapped => twice = {})
  BY DEF ReviewsInv, ReviewsTyped, Reviews!TypeOK, ReviewsUndisturbed
<1>2. work[c].step \in {"edit", "respond", "decide", "withdraw"} =>
        /\ r \in Bookings /\ reviews[r] \in ReviewRow /\ reviews[r].status # "absent"
        /\ reviews[r].status = "published" => reviews[r].published
  BY DEF ReviewsInv, CallOnReview, Earned, Counting, ReviewsTyped, Reviews!TypeOK, ReviewRow
<1>3. CASE Reviews!SaveEdit(c)
  <2>1. /\ Reviews!SaveReview(c, "edit", work[c].loaded, Reviews!Idle)
        /\ UNCHANGED <<admitted, twice>> /\ work[c].step = "edit"
    BY <1>3 DEF Reviews!SaveEdit, Reviews!SaveReview
  <2>2. /\ work[c].loaded \in ReviewRow /\ work[c].loaded.status = "pending"
        /\ ~overlapped => reviews[r].status = "pending"
    BY <1>1, <2>1 DEF ReviewsInv, CallOnReview, ReviewsUndisturbed, ReviewAsFound, ReviewCall
  <2> HIDE DEF r
  <2> QED
    BY <1>1, <2>1, <2>2, ReviewSaves, IdleReviewCall DEF r
<1>4. CASE Reviews!Respond(c)
  <2> DEFINE row == [reviews[r] EXCEPT !.answered = TRUE]
  <2>1. /\ Reviews!SaveReview(c, "respond", row, Reviews!Idle)
        /\ admitted' = admitted /\ work[c].step = "respond"
        /\ twice' = twice \cup (IF reviews[r].answered THEN {r} ELSE {})
    BY <1>4 DEF Reviews!Respond, Reviews!SaveReview, Reviews!Row
  <2>2. /\ row \in ReviewRow /\ row.status = reviews[r].status
        /\ row.published = reviews[r].published
    BY <1>2, <2>1 DEF ReviewRow
  <2>3. ~overlapped => ~reviews[r].answered
    BY <2>1 DEF ReviewsInv, ReviewsUndisturbed, ReviewAsFound
  <2> HIDE DEF row
  <2> QED
    BY <1>1, <1>2, <2>1, <2>2, <2>3, ReviewSaves, IdleReviewCall
<1>5. CASE Reviews!SaveDecision(c)
  <2>1. PICK verdict \in Reviews!Verdicts :
          /\ Reviews!SaveReview(c, "decide",
                [reviews[r] EXCEPT !.status = verdict,
                                   !.published = @ \/ verdict = "published"],
                Reviews!Recount(c))
          /\ admitted' = IF verdict = "published"
                         THEN [admitted EXCEPT ![r] = flags[r]] ELSE admitted
          /\ twice' = twice
    BY <1>5 DEF Reviews!SaveDecision, Reviews!Row
  <2> DEFINE row == [reviews[r] EXCEPT !.status = verdict,
                                       !.published = @ \/ verdict = "published"]
  <2>2. work[c].step = "decide"
    BY <2>1 DEF Reviews!SaveReview
  <2>3. /\ row \in ReviewRow /\ row.status = verdict
        /\ row.status = "published" => row.published
    <3>1. verdict \in Reviews!ReviewStatus \ {"absent"}
      BY DEF Reviews!Verdicts, Reviews!ReviewStatus
    <3> QED
      BY <1>2, <2>2, <3>1 DEF ReviewRow
  <2>4. Reviews!SaveReview(c, "decide", row, Reviews!Recount(c))
    BY <2>1
  <2>5. verdict # "absent"
    BY DEF Reviews!Verdicts
  <2> HIDE DEF row
  <2>6. /\ admitted' \in [Bookings -> SUBSET Users]
        /\ \A b \in Bookings \ {r} : admitted'[b] = admitted[b]
        /\ verdict = "published" => admitted'[r] = flags[r]
    BY <1>1, <1>2, <2>1, <2>2
  <2> QED
    BY <1>1, <2>1, <2>3, <2>4, <2>5, <2>6, ReviewSaves, RecountCall
<1>6. CASE Reviews!Withdraw(c)
  <2> DEFINE row == [reviews[r] EXCEPT !.status = "flagged"]
  <2>1. /\ Reviews!SaveReview(c, "withdraw", row, Reviews!Recount(c))
        /\ UNCHANGED <<admitted, twice>> /\ work[c].step = "withdraw"
    BY <1>6 DEF Reviews!Withdraw, Reviews!SaveReview, Reviews!Row
  <2>2. row \in ReviewRow /\ row.status = "flagged"
    BY <1>2, <2>1 DEF ReviewRow, Reviews!ReviewStatus
  <2> HIDE DEF row
  <2> QED
    BY <1>1, <2>1, <2>2, ReviewSaves, RecountCall
<1> QED
  BY <1>3, <1>4, <1>5, <1>6

(* Bookings go on, and a completed one is reviewed.                        *)
LEMMA BookingSteps ==
    ASSUME ReviewsInv, Reviews!Working
    PROVE  ReviewsInv'
<1>1. PICK b \in Bookings, from \in SUBSET Reviews!BookingStatus, to \in Reviews!BookingStatus :
        Reviews!Booked(b, from, to) /\ "completed" \notin from
  <2>1. ASSUME NEW b \in Bookings
        PROVE  /\ Reviews!ConfirmBooking(b) => Reviews!Booked(b, {"pending"}, "confirmed")
               /\ Reviews!CompleteBooking(b) =>
                    Reviews!Booked(b, {"pending", "confirmed"}, "completed")
               /\ Reviews!CancelBooking(b) =>
                    Reviews!Booked(b, Reviews!BookingStatus \ {"completed"}, "cancelled")
    BY DEF Reviews!ConfirmBooking, Reviews!CompleteBooking, Reviews!CancelBooking
  <2>2. /\ {"pending"} \in SUBSET Reviews!BookingStatus
        /\ {"pending", "confirmed"} \in SUBSET Reviews!BookingStatus
        /\ Reviews!BookingStatus \ {"completed"} \in SUBSET Reviews!BookingStatus
        /\ {"confirmed", "completed", "cancelled"} \subseteq Reviews!BookingStatus
    BY DEF Reviews!BookingStatus
  <2> QED
    BY <2>1, <2>2 DEF Reviews!Working
<1>2. /\ bookings[b] # "completed" /\ bookings' = [bookings EXCEPT ![b] = to]
      /\ UNCHANGED <<reviews, flags, summary, work, admitted, twice, overlapped, died>>
  BY <1>1 DEF Reviews!Booked
<1>3. ReviewsTyped'
  BY <1>2 DEF ReviewsInv, ReviewsTyped, Reviews!TypeOK
<1>4. \A d \in Bookings : bookings[d] = "completed" => bookings'[d] = "completed"
  BY <1>2 DEF ReviewsInv, ReviewsTyped, Reviews!TypeOK
<1>5. Reviews!Completed \subseteq Reviews!Completed' /\ Reviews!Published' = Reviews!Published
  BY <1>2, <1>4 DEF Reviews!Completed, Reviews!Published
<1>6. \A c \in Calls : CallOnReview(c)'
  BY <1>2, <1>5 DEF ReviewsInv, CallOnReview
<1>7. \A d \in Bookings : Earned(d)' /\ (~died => FlagsHeeded(d)')
  BY <1>2, <1>4 DEF ReviewsInv, Earned, FlagsHeeded
<1>8. ReviewsUndisturbed'
  BY <1>2, <1>5 DEF ReviewsInv, ReviewsUndisturbed, ReviewAsFound
<1> QED
  BY <1>2, <1>3, <1>5, <1>6, <1>7, <1>8 DEF ReviewsInv

LEMMA CreateReviewStep ==
    ASSUME ReviewsInv, NEW b \in Bookings, Reviews!CreateReview(b)
    PROVE  ReviewsInv'
<1> DEFINE row == [Reviews!NoReview EXCEPT !.status = "pending"]
<1>1. /\ bookings[b] = "completed" /\ reviews[b].status = "absent"
      /\ reviews' = [reviews EXCEPT ![b] = row]
      /\ UNCHANGED <<bookings, flags, summary, work, admitted, twice, overlapped, died>>
  BY DEF Reviews!CreateReview, Reviews!ReviewEligible, Reviews!Reviewed
<1>2. row \in ReviewRow /\ row.status = "pending"
  BY NoReviewYet DEF ReviewRow, Reviews!ReviewStatus
<1> HIDE DEF row
<1>3. /\ reviews' \in [Bookings -> ReviewRow] /\ reviews'[b] = row
      /\ \A d \in Bookings \ {b} : reviews'[d] = reviews[d]
  BY <1>1, <1>2 DEF ReviewsInv, ReviewsTyped, Reviews!TypeOK, ReviewRow
<1>4. ReviewsTyped'
  BY <1>1, <1>3 DEF ReviewsInv, ReviewsTyped, Reviews!TypeOK, ReviewRow
<1>5. Reviews!Completed' = Reviews!Completed /\ Reviews!Published' = Reviews!Published
  BY <1>1, <1>2, <1>3 DEF Reviews!Completed, Reviews!Published
<1>6. \A c \in Calls : CallOnReview(c)'
  <2>1. \A d \in Bookings : reviews[d].status # "absent" => reviews'[d].status # "absent"
    BY <1>2, <1>3
  <2> QED
    BY <1>1, <1>5, <2>1 DEF ReviewsInv, CallOnReview
<1>7. \A d \in Bookings : Earned(d)' /\ (~died => FlagsHeeded(d)')
  BY <1>1, <1>2, <1>3 DEF ReviewsInv, Earned, FlagsHeeded
<1>8. ReviewsUndisturbed'
  <2>1. ASSUME NEW c \in Calls, ReviewAsFound(c) PROVE ReviewAsFound(c)'
    <3>1. work[c].step \in {"edit", "respond"} =>
             work[c].booking \in Bookings /\ work[c].booking # b
      BY <1>1 DEF ReviewsInv, CallOnReview, Counting
    <3> QED
      BY <1>1, <1>3, <1>5, <2>1, <3>1 DEF ReviewAsFound
  <2> QED
    BY <1>1, <1>5, <2>1 DEF ReviewsInv, ReviewsUndisturbed
<1> QED
  BY <1>1, <1>4, <1>5, <1>6, <1>7, <1>8 DEF ReviewsInv

(* A step that saves no review: a flag, a count, the summary, an end.      *)
LEMMA ReviewsUntouched ==
    ASSUME ReviewsInv, NEW c \in Calls, NEW state \in ReviewCall,
           work' = [work EXCEPT ![c] = state],
           UNCHANGED <<bookings, reviews, admitted>>,
           flags' \in [Bookings -> SUBSET Users],
           summary' \in [counted : SUBSET Bookings, jobs : SUBSET Bookings],
           overlapped' \in BOOLEAN, died' \in BOOLEAN,
           state.step = "idle" => state = Reviews!Idle,
           state.step \in {"idle", "withdraw"} \cup Counting,
           state.step = "withdraw" =>
               state.booking \in Bookings /\ reviews[state.booking].status # "absent",
           state.jobs \subseteq Reviews!Completed,
           summary'.jobs \subseteq Reviews!Completed,
           ~died' => \A b \in Bookings : FlagsHeeded(b)',
           ~overlapped' =>
               /\ ~overlapped /\ work[c].step # "idle" /\ twice' = twice
               /\ state.step \in {"jobs", "summarise"} => state.counted = Reviews!Published
               /\ state.step \notin Counting => summary'.counted = Reviews!Published
    PROVE  ReviewsInv'
<1>1. /\ work' \in [Calls -> ReviewCall] /\ work'[c] = state
      /\ \A d \in Calls \ {c} : work'[d] = work[d]
  BY CallMoves
<1>2. ReviewsTyped'
  BY <1>1 DEF ReviewsInv, ReviewsTyped, Reviews!TypeOK
<1>3. Reviews!Completed' = Reviews!Completed /\ Reviews!Published' = Reviews!Published
  BY DEF Reviews!Completed, Reviews!Published
<1>4. \A d \in Calls : CallOnReview(d)'
  BY <1>1, <1>3 DEF ReviewsInv, CallOnReview, Counting
<1>5. ASSUME ~overlapped' PROVE ReviewsUndisturbed'
  <2>1. \A d \in Calls \ {c} : work[d].step = "idle"
    BY <1>5 DEF ReviewsInv, ReviewsUndisturbed
  <2>2. \A d \in Calls : ReviewAsFound(d)'
    BY <1>1, <1>3, <1>5, <2>1 DEF ReviewAsFound, Counting
  <2>3. (\A d \in Calls : work'[d].step \notin Counting) =>
            summary'.counted = Reviews!Published'
    BY <1>1, <1>3, <1>5
  <2>4. twice' = {}
    BY <1>5 DEF ReviewsInv, ReviewsUndisturbed
  <2> QED
    BY <1>1, <2>1, <2>2, <2>3, <2>4 DEF ReviewsUndisturbed
<1>6. ReviewsUndisturbed'
  BY <1>5 DEF ReviewsUndisturbed
<1> QED
  BY <1>2, <1>3, <1>4, <1>6 DEF ReviewsInv, Earned

LEMMA FlagsStayHeeded ==
    ASSUME ReviewsInv, NEW c \in Calls, work[c].step # "withdraw", ~died,
           UNCHANGED <<reviews, flags, admitted>>,
           \A d \in Calls \ {c} : work'[d] = work[d]
    PROVE  \A b \in Bookings : FlagsHeeded(b)'
BY DEF ReviewsInv, FlagsHeeded

LEMMA AddFlagStep ==
    ASSUME ReviewsInv, NEW c \in Calls, Reviews!AddFlag(c)
    PROVE  ReviewsInv'
<1> DEFINE r == work[c].booking
           u == work[c].user
           grown == flags[r] \cup {u}
           must == u \notin flags[r] /\ (Reviews!EnoughFlags(c) \/ work[c].grave)
           state == IF must THEN [Reviews!Idle EXCEPT !.step = "withdraw", !.booking = r]
                    ELSE Reviews!Idle
<1>1. /\ work[c].step = "flag" /\ flags' = [flags EXCEPT ![r] = grown]
      /\ work' = [work EXCEPT ![c] = state]
      /\ UNCHANGED <<bookings, reviews, summary, admitted, twice, overlapped, died>>
  BY DEF Reviews!AddFlag, Reviews!Go, Reviews!End
<1>2. /\ r \in Bookings /\ u \in Users /\ reviews[r].status # "absent"
      /\ flags \in [Bookings -> SUBSET Users]
      /\ summary \in [counted : SUBSET Bookings, jobs : SUBSET Bookings]
      /\ overlapped \in BOOLEAN /\ died \in BOOLEAN
      /\ summary.jobs \subseteq Reviews!Completed
  BY <1>1 DEF ReviewsInv, CallOnReview, Counting, ReviewsTyped, Reviews!TypeOK
<1>3. u \notin flags[r] /\ Reviews!Cardinality(grown) >= Reviews!Heeded => must
  BY DEF Reviews!EnoughFlags
<1>4. /\ state \in ReviewCall /\ state.jobs = {}
      /\ must => state.step = "withdraw" /\ state.booking = r
      /\ ~must => state = Reviews!Idle /\ state.step = "idle"
  <2> DEFINE idle == Reviews!Idle
  <2>1. idle \in ReviewCall /\ idle.jobs = {} /\ idle.step = "idle"
    BY IdleReviewCall
  <2> HIDE DEF must, idle, r
  <2>2. r \in Bookings
    BY <1>2 DEF r
  <2>3. LET w == [idle EXCEPT !.step = "withdraw", !.booking = r] IN
          w \in ReviewCall /\ w.jobs = {} /\ w.step = "withdraw" /\ w.booking = r
    BY <2>1, <2>2 DEF ReviewCall
  <2> QED
    BY <2>1, <2>3 DEF idle
<1> HIDE DEF state, must
<1>5. /\ work'[c] = state
      /\ \A d \in Calls \ {c} : work'[d] = work[d]
  BY <1>1, <1>4, CallMoves
<1>6. /\ flags' \in [Bookings -> SUBSET Users] /\ flags'[r] = grown
      /\ \A b \in Bookings \ {r} : flags'[b] = flags[b]
  BY <1>1, <1>2
<1>7. ASSUME ~died', NEW b \in Bookings PROVE FlagsHeeded(b)'
  <2>1. FlagsHeeded(b)
    BY <1>1, <1>7 DEF ReviewsInv
  <2>2. CASE flags'[b] = flags[b]
    BY <1>1, <1>5, <2>1, <2>2 DEF FlagsHeeded
  <2>3. CASE flags'[b] # flags[b]
    <3>1. b = r /\ u \notin flags[r] /\ flags'[b] = grown
      BY <1>6, <2>3
    <3>2. Reviews!Cardinality(flags'[b]) >= Reviews!Heeded => must
      BY <1>3, <3>1
    <3> QED
      BY <1>4, <1>5, <3>1, <3>2 DEF FlagsHeeded
  <2> QED
    BY <2>2, <2>3
<1>8. ~overlapped' =>
        /\ ~overlapped /\ work[c].step # "idle" /\ twice' = twice
        /\ summary'.counted = Reviews!Published
  <2>1. ASSUME ~overlapped PROVE \A d \in Calls : work[d].step \notin Counting
    BY <1>1, <2>1 DEF ReviewsInv, ReviewsUndisturbed, Counting
  <2> QED
    BY <1>1, <2>1 DEF ReviewsInv, ReviewsUndisturbed
<1> QED
  BY <1>1, <1>2, <1>4, <1>6, <1>7, <1>8, ReviewsUntouched DEF Counting

LEMMA CountSteps ==
    ASSUME ReviewsInv, NEW c \in Calls,
           Reviews!CountReviews(c) \/ Reviews!CountJobs(c) \/ Reviews!SaveSummary(c)
    PROVE  ReviewsInv'
<1>1. /\ work[c].step \in Counting
      /\ UNCHANGED <<bookings, reviews, flags, admitted, twice, overlapped, died>>
  BY DEF Reviews!CountReviews, Reviews!CountJobs, Reviews!SaveSummary, Counting
<1>2. /\ flags \in [Bookings -> SUBSET Users]
      /\ summary \in [counted : SUBSET Bookings, jobs : SUBSET Bookings]
      /\ overlapped \in BOOLEAN /\ died \in BOOLEAN
      /\ work[c] \in ReviewCall /\ work[c].jobs \subseteq Reviews!Completed
      /\ summary.jobs \subseteq Reviews!Completed
  BY DEF ReviewsInv, CallOnReview, ReviewsTyped, Reviews!TypeOK
<1>3. ~overlapped /\ work[c].step \in {"jobs", "summarise"} =>
         work[c].counted = Reviews!Published
  BY DEF ReviewsInv, ReviewsUndisturbed, ReviewAsFound
<1>4. Reviews!Published \in SUBSET Bookings /\ Reviews!Completed \in SUBSET Bookings
  BY DEF Reviews!Published, Reviews!Completed
<1>5. ASSUME NEW state \in ReviewCall, work' = [work EXCEPT ![c] = state], ~died'
      PROVE  \A b \in Bookings : FlagsHeeded(b)'
  BY <1>1, <1>5, CallMoves, FlagsStayHeeded DEF Counting
<1>6. CASE Reviews!CountReviews(c)
  <2> DEFINE state == [work[c] EXCEPT !.step = "jobs", !.counted = Reviews!Published]
  <2>1. /\ state \in ReviewCall /\ state.step = "jobs" /\ state.jobs = work[c].jobs
        /\ state.counted = Reviews!Published
    BY <1>2, <1>4 DEF ReviewCall, Counting
  <2>2. work' = [work EXCEPT ![c] = state] /\ summary' = summary
    BY <1>6 DEF Reviews!CountReviews, Reviews!Go
  <2> HIDE DEF state
  <2> QED
    BY <1>1, <1>2, <1>5, <2>1, <2>2, ReviewsUntouched DEF Counting
<1>7. CASE Reviews!CountJobs(c)
  <2> DEFINE state == [work[c] EXCEPT !.step = "summarise", !.jobs = Reviews!Completed]
  <2>1. /\ state \in ReviewCall /\ state.step = "summarise"
        /\ state.jobs = Reviews!Completed /\ state.counted = work[c].counted
    BY <1>2, <1>4 DEF ReviewCall, Counting
  <2>2. work[c].step = "jobs" /\ work' = [work EXCEPT ![c] = state] /\ summary' = summary
    BY <1>7 DEF Reviews!CountJobs, Reviews!Go
  <2> HIDE DEF state
  <2> QED
    BY <1>1, <1>2, <1>3, <1>5, <2>1, <2>2, ReviewsUntouched DEF Counting
<1>8. CASE Reviews!SaveSummary(c)
  <2>1. /\ work[c].step = "summarise" /\ work' = [work EXCEPT ![c] = Reviews!Idle]
        /\ summary' = [counted |-> work[c].counted, jobs |-> work[c].jobs]
    BY <1>8 DEF Reviews!SaveSummary, Reviews!Go, Reviews!End
  <2>2. /\ summary' \in [counted : SUBSET Bookings, jobs : SUBSET Bookings]
        /\ summary'.jobs = work[c].jobs /\ summary'.counted = work[c].counted
    BY <1>2, <2>1 DEF ReviewCall
  <2> QED
    BY <1>1, <1>2, <1>3, <1>5, <2>1, <2>2, ReviewsUntouched, IdleReviewCall DEF Counting
<1> QED
  BY <1>6, <1>7, <1>8

LEMMA ProfileEditStep ==
    ASSUME ReviewsInv, Reviews!ProfileEdited
    PROVE  ReviewsInv'
<1>1. PICK c \in Calls : Reviews!BeginProfile(c) \/ Reviews!SaveProfile(c)
  BY DEF Reviews!ProfileEdited
<1>2. /\ flags \in [Bookings -> SUBSET Users]
      /\ summary \in [counted : SUBSET Bookings, jobs : SUBSET Bookings]
      /\ overlapped \in BOOLEAN /\ died \in BOOLEAN
      /\ work[c] \in ReviewCall /\ work[c].jobs \subseteq Reviews!Completed
      /\ summary.jobs \subseteq Reviews!Completed
  BY DEF ReviewsInv, CallOnReview, ReviewsTyped, Reviews!TypeOK
<1>3. CASE Reviews!BeginProfile(c)
  <2> DEFINE idle == Reviews!Idle
             state == [idle EXCEPT !.step = "profile", !.counted = summary.counted,
                                   !.jobs = summary.jobs]
  <2>1. Reviews!Begin(c, state)
    BY <1>3 DEF Reviews!BeginProfile
  <2>2. idle \in ReviewCall
    BY IdleReviewCall
  <2> HIDE DEF idle
  <2>3. /\ state \in ReviewCall /\ state.step = "profile"
        /\ state.counted = summary.counted /\ state.jobs = summary.jobs
    BY <1>2, <2>2 DEF ReviewCall
  <2> HIDE DEF state
  <2> QED
    BY <1>2, <2>1, <2>3, ReviewBegins
<1>4. CASE Reviews!SaveProfile(c)
  <2>1. /\ work[c].step = "profile" /\ work' = [work EXCEPT ![c] = Reviews!Idle]
        /\ summary' = [counted |-> work[c].counted, jobs |-> work[c].jobs]
        /\ UNCHANGED <<bookings, reviews, flags, admitted, twice, overlapped, died>>
    BY <1>4 DEF Reviews!SaveProfile, Reviews!Go, Reviews!End
  <2>2. /\ summary' \in [counted : SUBSET Bookings, jobs : SUBSET Bookings]
        /\ summary'.jobs = work[c].jobs /\ summary'.counted = work[c].counted
    BY <1>2, <2>1 DEF ReviewCall
  <2>3. ~overlapped => work[c].counted = Reviews!Published
    BY <2>1 DEF ReviewsInv, ReviewsUndisturbed, ReviewAsFound
  <2>4. ~died => \A b \in Bookings : FlagsHeeded(b)'
    BY <2>1, CallMoves, IdleReviewCall, FlagsStayHeeded
  <2> QED
    BY <1>2, <2>1, <2>2, <2>3, <2>4, ReviewsUntouched, IdleReviewCall DEF Counting
<1> QED
  BY <1>1, <1>3, <1>4

LEMMA ReviewDies ==
    ASSUME ReviewsInv, NEW c \in Calls, Reviews!Die(c)
    PROVE  ReviewsInv'
<1>1. /\ work' = [work EXCEPT ![c] = Reviews!Idle] /\ overlapped' = TRUE /\ died' = TRUE
      /\ UNCHANGED <<bookings, reviews, flags, summary, admitted, twice>>
  BY DEF Reviews!Die, Reviews!End, Reviews!Go
<1>2. /\ flags \in [Bookings -> SUBSET Users]
      /\ summary \in [counted : SUBSET Bookings, jobs : SUBSET Bookings]
      /\ summary.jobs \subseteq Reviews!Completed
  BY DEF ReviewsInv, ReviewsTyped, Reviews!TypeOK
<1> QED
  BY <1>1, <1>2, ReviewsUntouched, IdleReviewCall

LEMMA ReviewsStep == ReviewsInv /\ Reviews!Next => ReviewsInv'
<1> SUFFICES ASSUME ReviewsInv, Reviews!Next PROVE ReviewsInv'
  OBVIOUS
<1>1. CASE Reviews!Working
  BY <1>1, BookingSteps
<1>2. CASE Reviews!Reviewing
  BY <1>2, CreateReviewStep, ReviewBeginnings DEF Reviews!Reviewing
<1>3. CASE Reviews!Saving
  BY <1>3, ReviewSavings, AddFlagStep, CountSteps DEF Reviews!Saving
<1>4. CASE \E c \in Calls : Reviews!Die(c)
  BY <1>4, ReviewDies
<1>5. CASE Reviews!ProfileEdited
  BY <1>5, ProfileEditStep
<1> QED
  BY <1>1, <1>2, <1>3, <1>4, <1>5 DEF Reviews!Next

LEMMA ReviewsConsequences ==
    ASSUME ReviewsInv
    PROVE  /\ Reviews!TypeOK /\ Reviews!RatingAgrees
           /\ Reviews!FlagsAreHeeded /\ Reviews!ReviewsAreEarned
<1>1. Reviews!TypeOK
  BY DEF ReviewsInv, ReviewsTyped
<1>2. Reviews!RatingAgrees
  <2> SUFFICES ASSUME ~overlapped, Reviews!Quiet
               PROVE  /\ summary.counted = Reviews!Published
                      /\ summary.jobs \subseteq Reviews!Completed
    BY DEF Reviews!RatingAgrees
  <2>1. \A c \in Calls : work[c].step \notin Counting
    BY IdleReviewCall DEF Reviews!Quiet, Counting
  <2> QED
    BY <2>1 DEF ReviewsInv, ReviewsUndisturbed
<1>3. Reviews!FlagsAreHeeded
  <2> SUFFICES ASSUME ~died, Reviews!Quiet, NEW b \in Reviews!Published,
                      Reviews!Cardinality(flags[b]) >= Reviews!Heeded
               PROVE  admitted[b] = flags[b]
    BY DEF Reviews!FlagsAreHeeded
  <2>1. \A c \in Calls : work[c].step # "withdraw"
    BY IdleReviewCall DEF Reviews!Quiet
  <2> QED
    BY <2>1 DEF ReviewsInv, FlagsHeeded, Reviews!Published
<1>4. Reviews!ReviewsAreEarned
  BY DEF ReviewsInv, ReviewsUndisturbed, Earned, Reviews!ReviewsAreEarned, Reviews!Reviewed
<1> QED
  BY <1>1, <1>2, <1>3, <1>4

-----------------------------------------------------------------------------
(* The parts side by side.                                                 *)

PartsInv ==
    /\ ProfileInv
    /\ part \in Parts
    /\ part = "images" => ListInv(TRUE)
    /\ part = "trades" => ListInv(FALSE)
    /\ part = "reviews" => ReviewsInv
    /\ part = "desk" => DeskInv

LEMMA PartsStart == PartsInit => PartsInv
<1> SUFFICES ASSUME PartsInit PROVE PartsInv
  OBVIOUS
<1>1. ProfileInv /\ part \in Parts
  BY ProfileInit DEF PartsInit, Parts
<1>2. /\ part = "images" => List(TRUE)!Init
      /\ part = "trades" => List(FALSE)!Init
      /\ part = "reviews" => Reviews!Init
      /\ part = "desk" => Desk!Init
  BY DEF PartsInit
<1>3. ASSUME NEW p \in BOOLEAN, List(p)!Init PROVE ListInv(p)
  BY <1>3, ListInit
<1> QED
  BY <1>1, <1>2, <1>3, ReviewsInit, DeskInit DEF PartsInv

LEMMA PartsStep ==
    ASSUME PartsInv, [PartsNext]_<<part, vars, others>>
    PROVE  PartsInv'
<1>0. part' = part
  BY DEF PartsNext
<1>1. ProfileInv'
  <2>1. [Next]_vars
    BY DEF PartsNext
  <2> QED
    BY <2>1, ProfileStep DEF PartsInv
<1>2. CASE part = "images" /\ List(TRUE)!Next
  BY <1>0, <1>1, <1>2, ListStep DEF PartsInv
<1>3. CASE part = "trades" /\ List(FALSE)!Next
  BY <1>0, <1>1, <1>3, ListStep DEF PartsInv
<1>4. CASE part = "reviews" /\ Reviews!Next
  BY <1>0, <1>1, <1>4, ReviewsStep DEF PartsInv
<1>5. CASE part = "desk" /\ Desk!Next
  BY <1>0, <1>1, <1>5, DeskStep DEF PartsInv
<1>6. CASE part = "profile"
  BY <1>0, <1>1, <1>6 DEF PartsInv
<1>7. CASE UNCHANGED <<part, vars, others>>
  <2>1. UNCHANGED <<work, overlapped, rows, unset, bookings, reviews, flags, summary,
                    admitted, twice, died, quote, complaint>>
    BY <1>7 DEF others, lists, ratings, desk
  <2>2. ASSUME NEW p \in BOOLEAN, ListInv(p) PROVE ListInv(p)'
    BY <2>1, <2>2 DEF ListInv, LimitKept, Held, Editing, Entering, ListUndisturbed,
                      SoundCall, FlagKept, List!Flagged, List!Alive
  <2>3. ReviewsInv => ReviewsInv'
    BY <2>1 DEF ReviewsInv, ReviewsTyped, CallOnReview, Earned, FlagsHeeded, ReviewsUndisturbed,
                ReviewAsFound, Reviews!TypeOK, Reviews!Published, Reviews!Completed
  <2>4. DeskInv => DeskInv'
    BY <2>1 DEF DeskInv, QuoteAsFound, Desk!StampsFollowStatus
  <2> QED
    BY <1>0, <1>1, <2>2, <2>3, <2>4 DEF PartsInv
<1> QED
  BY <1>2, <1>3, <1>4, <1>5, <1>6, <1>7 DEF PartsNext

(* Profiles, lists, reviews and requests keep their inductive invariants,  *)
(* whatever calls overlap or die.                                          *)
THEOREM ServicesInvariant == PartsSpec => []PartsInv
<1>1. PartsInit => PartsInv
  BY PartsStart
<1>2. PartsInv /\ [PartsNext]_<<part, vars, others>> => PartsInv'
  BY PartsStep
<1> QED
  BY <1>1, <1>2, PTL DEF PartsSpec

(* The columns and the calls of every part keep their types.               *)
THEOREM ServicesTypeCorrect == PartsSpec => []PartsTypeOK
<1>1. PartsInv => PartsTypeOK
  <2> SUFFICES ASSUME PartsInv PROVE PartsTypeOK
    OBVIOUS
  <2>1. TypeOK
    BY DEF PartsInv, ProfileInv
  <2>2. /\ part = "images" => List(TRUE)!TypeOK
        /\ part = "trades" => List(FALSE)!TypeOK
    BY ListConsequences DEF PartsInv
  <2>3. part = "reviews" => Reviews!TypeOK
    BY ReviewsConsequences DEF PartsInv
  <2> QED
    BY <2>1, <2>2, <2>3 DEF PartsTypeOK
<1> QED
  BY <1>1, ServicesInvariant, PTL

(* A suspended profile says for how long, no provider is warned more often *)
(* than administrators warned him, and without overlap the profile shows   *)
(* every warning and the appeal that was handled last.                     *)
THEOREM ProfilesAgree == PartsSpec => []ProfileAgrees
<1>1. PartsInv => ProfileAgrees
  <2> SUFFICES ASSUME ProfileInv PROVE ProfileAgrees
    BY DEF PartsInv
  <2>1. GovernanceAgrees
    <3>1. Quiet => \A c \in Calls : calls[c].step # "copy"
      BY NewProfileIsAProfile DEF Quiet
    <3> QED
      BY <3>1 DEF ProfileInv, ProfileUndisturbed, OneWaits, Shows, GovernanceAgrees
  <2> QED
    BY <2>1 DEF ProfileInv, ProfileAgrees
<1> QED
  BY <1>1, ServicesInvariant, PTL

(* Two items of a list are never flagged, the portfolio exceeds its limit  *)
(* by no more than the calls that overlap, and without overlap a list      *)
(* keeps a flagged item.                                                   *)
THEOREM ListsStayKept == PartsSpec => []ListsAreKept
<1>1. PartsInv => ListsAreKept
  BY ListConsequences DEF PartsInv, ListsAreKept
<1> QED
  BY <1>1, ServicesInvariant, PTL

(* Ratings, flags, reviews and the stamps of quote requests and complaints *)
(* show nothing that did not happen.                                       *)
THEOREM RecordsStayTrue == PartsSpec => []RecordsAreTrue
<1>1. PartsInv => RecordsAreTrue
  BY ReviewsConsequences DEF PartsInv, RecordsAreTrue, DeskInv
<1> QED
  BY <1>1, ServicesInvariant, PTL

(* A suspension ends by a decision of an administrator, or by a call of    *)
(* the owner that loaded the profile before it was imposed.                *)
THEOREM SuspensionsStand == PartsSpec => SuspensionStands
<1>1. PartsInv /\ [PartsNext]_<<part, vars, others>> =>
         [LeavesSuspension =>
             \E c \in Calls : calls[c].step \in AdminSteps \/ calls[c].older]_vars
  <2> SUFFICES ASSUME PartsInv, [PartsNext]_<<part, vars, others>>, LeavesSuspension
               PROVE  \E c \in Calls : calls[c].step \in AdminSteps \/ calls[c].older
    OBVIOUS
  <2>1. ProfileInv /\ [Next]_vars
    BY DEF PartsInv, PartsNext
  <2> QED
    BY <2>1, SuspensionHolds
<1> QED
  BY <1>1, ServicesInvariant, PTL DEF PartsSpec, SuspensionStands

(* A quote request moves back by calls alone that had loaded it before its *)
(* last change, so that a closed one stays closed once they have ended.    *)
THEOREM QuotesMoveForward == PartsSpec => QuoteMovesForward
<1>1. PartsInv /\ [PartsNext]_<<part, vars, others>> =>
         [part = "desk" => Desk!ForwardUnlessOlder]_<<desk, work>>
  <2> SUFFICES ASSUME PartsInv, [PartsNext]_<<part, vars, others>>, part = "desk",
                      <<desk, work>>' # <<desk, work>>
               PROVE  Desk!ForwardUnlessOlder
    OBVIOUS
  <2>1. Desk!Next
    BY DEF PartsNext, desk, others
  <2> QED
    BY <2>1, DeskStep DEF PartsInv
<1> QED
  BY <1>1, ServicesInvariant, PTL DEF PartsSpec, QuoteMovesForward
=============================================================================
