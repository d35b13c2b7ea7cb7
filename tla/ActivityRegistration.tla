------------------------ MODULE ActivityRegistration ------------------------
(***************************************************************************)
(* The seats of one activity (internal/activity/service).  Registering,    *)
(* leaving, the organizer's decision, check-in and the changes of the      *)
(* activity each lock its row first and are one step; deleting it reads    *)
(* the row and deletes it without the lock.                                *)
(***************************************************************************)
EXTENDS Naturals, SequencesExt

CONSTANTS
  Guests,
  Capacities,       \* values of MaxParticipants; 0 is without limit
  MaxResizes, MaxReturns   \* bounds on edits of it and on second registrations

ASSUME ActivityAssumption == Capacities \subseteq Nat /\ IsFiniteSet(Guests)

VARIABLES
  activity,         \* Activity.Status, or "gone"
  capacity,
  seat,             \* ActivityRegistration.Status of each guest
  present,          \* guests with checkin_status done
  rows,             \* guests by created_at of their row
  deleting,         \* DeleteActivity has read the row and may delete it
  enlarged,         \* the capacity was raised while the activity was open
  resizes, returns

activityVars == <<activity, capacity, seat, present, rows, deleting, enlarged,
                  resizes, returns>>

ActivityInit ==
  /\ activity = "open" /\ capacity \in Capacities
  /\ seat = [g \in Guests |-> "none"] /\ present = {} /\ rows = <<>>
  /\ deleting = FALSE /\ enlarged = FALSE /\ resizes = 0 /\ returns = 0

Seated(s) == {g \in Guests : s[g] = "approved"}
Waitlisted(s) == {g \in Guests : s[g] = "waitlist"}
Full(s) == capacity > 0 /\ Cardinality(Seated(s)) >= capacity

Entered == UNCHANGED <<activity, capacity, deleting, enlarged, resizes>>
Managed == UNCHANGED <<seat, present, rows, returns>>

Line(s) == {i \in DOMAIN rows : s[rows[i]] = "waitlist"}
FirstInLine(s) == rows[Min(Line(s))]

\* Faulty: whoever leaves a seat passes it on, also when seats were taken away.
PromotedAlways(s) ==
  IF activity \in {"open", "ongoing"} /\ Line(s) # {}
  THEN [s EXCEPT ![FirstInLine(s)] = "approved"] ELSE s

\* promoteWaitlistIfSeat: the waiting guest whose row is the oldest.
Promoted(s) ==
  IF activity \in {"open", "ongoing"} /\ capacity > 0 /\ ~Full(s) /\ Line(s) # {}
  THEN [s EXCEPT ![FirstInLine(s)] = "approved"] ELSE s

(* Guests *)
Place == IF Full(seat) THEN "waitlist" ELSE "approved"

Register(g) ==
  /\ activity = "open" /\ seat[g] = "none"
  /\ seat' = [seat EXCEPT ![g] = Place] /\ rows' = Append(rows, g)
  /\ UNCHANGED <<present, returns>> /\ Entered

\* The row of the cancelled registration is used again, with its created_at.
RegisterAgain(g) ==
  /\ activity = "open" /\ seat[g] = "cancelled" /\ returns < MaxReturns
  /\ seat' = [seat EXCEPT ![g] = Place]
  /\ present' = present \ {g} /\ returns' = returns + 1
  /\ UNCHANGED rows /\ Entered

\* The activity itself is not asked for: it may have been deleted.
CancelRegistration(g) ==
  /\ seat[g] \notin {"none", "cancelled"}
  /\ LET s == [seat EXCEPT ![g] = "cancelled"]
     IN  seat' = IF seat[g] = "approved" THEN Promoted(s) ELSE s
  /\ UNCHANGED <<present, rows, returns>> /\ Entered

CheckInGuest(g) ==
  /\ activity \in {"open", "ongoing"} /\ seat[g] = "approved" /\ g \notin present
  /\ present' = present \cup {g}
  /\ UNCHANGED <<seat, rows, returns>> /\ Entered

(* The organizer *)
\* Any row can be approved, a cancelled one too.
Approve(g) ==
  /\ activity # "gone" /\ seat[g] \notin {"none", "approved"} /\ ~Full(seat)
  /\ seat' = [seat EXCEPT ![g] = "approved"]
  /\ UNCHANGED <<present, rows, returns>> /\ Entered

\* Faulty: the seat of a guest who is turned away stays empty.
RejectOnly(g) ==
  /\ activity # "gone" /\ seat[g] \notin {"none", "rejected"}
  /\ seat' = [seat EXCEPT ![g] = "rejected"]
  /\ UNCHANGED <<present, rows, returns>> /\ Entered

Reject(g) ==
  /\ activity # "gone" /\ seat[g] \notin {"none", "rejected"}
  /\ LET s == [seat EXCEPT ![g] = "rejected"]
     IN  seat' = IF seat[g] = "approved" THEN Promoted(s) ELSE s
  /\ UNCHANGED <<present, rows, returns>> /\ Entered

\* UpdateActivity moves nobody.
Resize(n) ==
  /\ activity = "open" /\ n # capacity /\ resizes < MaxResizes
  /\ capacity' = n /\ resizes' = resizes + 1
  /\ enlarged' = (enlarged \/ n = 0 \/ (capacity > 0 /\ n > capacity))
  /\ UNCHANGED <<activity, deleting>> /\ Managed

StartActivity == activity = "open" /\ activity' = "ongoing"
EndActivity == activity = "ongoing" /\ activity' = "ended"
CancelActivity == activity \in {"open", "ongoing"} /\ activity' = "cancelled"
Advance ==
  /\ StartActivity \/ EndActivity \/ CancelActivity
  /\ UNCHANGED <<capacity, deleting, enlarged, resizes>> /\ Managed

ReadForDelete ==
  /\ activity \notin {"ongoing", "gone"} /\ ~deleting /\ deleting' = TRUE
  /\ UNCHANGED <<activity, capacity, enlarged, resizes>> /\ Managed

DeleteActivity ==
  /\ deleting /\ deleting' = FALSE /\ activity' = "gone"
  /\ UNCHANGED <<capacity, enlarged, resizes>> /\ Managed

ActivityNext ==
  \/ \E g \in Guests : \/ Register(g) \/ RegisterAgain(g) \/ CancelRegistration(g)
                       \/ CheckInGuest(g) \/ Approve(g) \/ Reject(g)
  \/ \E n \in Capacities : Resize(n)
  \/ Advance \/ ReadForDelete \/ DeleteActivity

ActivitySpec == ActivityInit /\ [][ActivityNext]_activityVars

-----------------------------------------------------------------------------
\* Every variable keeps its shape; a guest has one row.
ActivityTypeOK ==
  /\ activity \in {"open", "ongoing", "ended", "cancelled", "gone"}
  /\ capacity \in Capacities
  /\ seat \in [Guests -> {"none", "approved", "rejected", "waitlist", "cancelled"}]
  /\ Range(rows) = {g \in Guests : seat[g] # "none"} /\ IsInjective(rows)
  /\ present \subseteq Range(rows)

\* Nobody is given a seat beyond the capacity, also when it was lowered under
\* the number of those seated and seats are passed on.
SeatsAreNotOversold ==
  [][Seated(seat') \subseteq Seated(seat)
     \/ capacity' = 0 \/ Cardinality(Seated(seat')) <= capacity']_activityVars

\* As long as the capacity was not raised nobody waits beside a free seat:
\* every way of leaving a seat passes it on.
NobodyWaitsBesideAFreeSeat ==
  activity \in {"open", "ongoing"} /\ Waitlisted(seat) # {} /\ ~enlarged => Full(seat)

\* A guest has one row, and the seats that become free go to the waiting list.
SeatsArePassedOn == ActivityTypeOK /\ NobodyWaitsBesideAFreeSeat

=============================================================================
