-------------------------- MODULE SharedRowsProofs --------------------------
(***************************************************************************)
(* Rows that several requests and a timer share: the seats of an activity, *)
(* the votes of a meeting, and the permissions read through the cache, for *)
(* any number of guests, voters, accounts and workers.                     *)
(***************************************************************************)
EXTENDS ActivityRegistration, MeetingVote, PermissionCache, FiniteSetTheorems,
        SequenceTheorems, WellFoundedInduction, TLAPS

(***************************************************************************)
(* The seats of an activity.                                               *)
(***************************************************************************)

SeatStates == {"none", "approved", "rejected", "waitlist", "cancelled"}
SeatInv == seat \in [Guests -> SeatStates] /\ capacity \in Nat

\* Nobody sits down but in a seat that there is.
KeptSeats(s, t) == Seated(t) \subseteq Seated(s)
Fits(t) == capacity = 0 \/ Cardinality(Seated(t)) <= capacity

LEMMA SeatsAreCounted ==
  ASSUME NEW s PROVE IsFiniteSet(Seated(s)) /\ Cardinality(Seated(s)) \in Nat
<1>1. Seated(s) \subseteq Guests /\ IsFiniteSet(Guests)
  BY ActivityAssumption DEF ActivityAssumption, Seated
<1> QED
  BY <1>1, FS_Subset, FS_CardinalityType

\* Whoever sits down while the activity is not full, on whatever list he was.
LEMMA SeatTaken ==
  ASSUME NEW s \in [Guests -> SeatStates], NEW g, capacity \in Nat, ~Full(s)
  PROVE  Fits([s EXCEPT ![g] = "approved"])
<1> DEFINE t == [s EXCEPT ![g] = "approved"]
<1>1. Seated(t) \subseteq Seated(s) \cup {g}
  BY DEF Seated
<1>2. /\ IsFiniteSet(Seated(s)) /\ Cardinality(Seated(s)) \in Nat
      /\ IsFiniteSet(Seated(t)) /\ Cardinality(Seated(t)) \in Nat
  BY SeatsAreCounted
<1>3. /\ IsFiniteSet(Seated(s) \cup {g})
      /\ Cardinality(Seated(s) \cup {g}) <= Cardinality(Seated(s)) + 1
  BY <1>2, FS_AddElement
<1>4. Cardinality(Seated(t)) <= Cardinality(Seated(s) \cup {g})
  BY <1>1, <1>3, FS_Subset
<1>5. Cardinality(Seated(s) \cup {g}) \in Nat
  BY <1>3, FS_CardinalityType
<1>6. Cardinality(Seated(t)) <= Cardinality(Seated(s)) + 1
  BY <1>2, <1>3, <1>4, <1>5
<1>7. CASE capacity > 0
  BY <1>2, <1>6, <1>7 DEF Full, Fits
<1>8. CASE capacity = 0
  BY <1>8 DEF Fits
<1> QED
  BY <1>7, <1>8

LEMMA SeatPassedOn ==
  ASSUME NEW s \in [Guests -> SeatStates], capacity \in Nat
  PROVE  /\ Promoted(s) \in [Guests -> SeatStates]
         /\ KeptSeats(s, Promoted(s)) \/ Fits(Promoted(s))
<1> DEFINE h == FirstInLine(s)
<1>1. CASE Promoted(s) = s
  BY <1>1 DEF KeptSeats
<1>2. CASE ~Full(s) /\ Promoted(s) = [s EXCEPT ![h] = "approved"]
  <2>1. Fits(Promoted(s))
    BY <1>2, SeatTaken
  <2>2. Promoted(s) \in [Guests -> SeatStates]
    BY <1>2 DEF SeatStates
  <2> QED
    BY <2>1, <2>2
<1>3. Promoted(s) = s \/ (~Full(s) /\ Promoted(s) = [s EXCEPT ![h] = "approved"])
  BY DEF Promoted
<1> QED
  BY <1>1, <1>2, <1>3

\* A guest whose registration ends leaves a seat or a place in the line.
LEMMA SeatLeft ==
  ASSUME SeatInv, NEW g \in Guests, NEW st \in {"cancelled", "rejected"},
         seat' = IF seat[g] = "approved" THEN Promoted([seat EXCEPT ![g] = st])
                 ELSE [seat EXCEPT ![g] = st]
  PROVE  seat' \in [Guests -> SeatStates] /\ (KeptSeats(seat, seat') \/ Fits(seat'))
<1> DEFINE s == [seat EXCEPT ![g] = st]
<1>1. s \in [Guests -> SeatStates] /\ KeptSeats(seat, s)
  BY DEF SeatInv, SeatStates, KeptSeats, Seated
<1>2. CASE seat' = s
  BY <1>1, <1>2
<1>3. CASE seat' = Promoted(s)
  <2>1. seat' \in [Guests -> SeatStates] /\ (KeptSeats(s, seat') \/ Fits(seat'))
    BY <1>1, <1>3, SeatPassedOn DEF SeatInv
  <2> QED
    BY <1>1, <2>1 DEF KeptSeats
<1> QED
  BY <1>2, <1>3

LEMMA PlaceTaken ==
  ASSUME SeatInv, NEW g \in Guests, seat' = [seat EXCEPT ![g] = Place]
  PROVE  seat' \in [Guests -> SeatStates] /\ (KeptSeats(seat, seat') \/ Fits(seat'))
<1>1. CASE Full(seat)
  BY <1>1 DEF Place, SeatInv, SeatStates, KeptSeats, Seated
<1>2. CASE ~Full(seat)
  <2>1. seat' = [seat EXCEPT ![g] = "approved"]
    BY <1>2 DEF Place
  <2>2. Fits(seat')
    BY <1>2, <2>1, SeatTaken DEF SeatInv
  <2> QED
    BY <2>1, <2>2 DEF SeatInv, SeatStates
<1> QED
  BY <1>1, <1>2

LEMMA GuestSteps ==
  ASSUME SeatInv, NEW g \in Guests,
         \/ Register(g) \/ RegisterAgain(g) \/ CancelRegistration(g)
         \/ CheckInGuest(g) \/ Approve(g) \/ Reject(g)
  PROVE  /\ seat' \in [Guests -> SeatStates] /\ (KeptSeats(seat, seat') \/ Fits(seat'))
         /\ capacity' = capacity
<1>1. capacity' = capacity
  BY DEF Register, RegisterAgain, CancelRegistration, CheckInGuest, Approve, Reject, Entered
<1>2. CASE Register(g) \/ RegisterAgain(g)
  BY <1>1, <1>2, PlaceTaken DEF Register, RegisterAgain
<1>3. CASE CancelRegistration(g)
  <2>1. seat' = IF seat[g] = "approved" THEN Promoted([seat EXCEPT ![g] = "cancelled"])
                ELSE [seat EXCEPT ![g] = "cancelled"]
    BY <1>3 DEF CancelRegistration
  <2> QED
    BY <1>1, <2>1, SeatLeft
<1>4. CASE Reject(g)
  <2>1. seat' = IF seat[g] = "approved" THEN Promoted([seat EXCEPT ![g] = "rejected"])
                ELSE [seat EXCEPT ![g] = "rejected"]
    BY <1>4 DEF Reject
  <2> QED
    BY <1>1, <2>1, SeatLeft
<1>5. CASE Approve(g)
  <2>1. seat' = [seat EXCEPT ![g] = "approved"] /\ ~Full(seat)
    BY <1>5 DEF Approve
  <2>2. Fits(seat')
    BY <2>1, SeatTaken DEF SeatInv
  <2> QED
    BY <1>1, <2>1, <2>2 DEF SeatInv, SeatStates
<1>6. CASE CheckInGuest(g)
  BY <1>1, <1>6 DEF CheckInGuest, SeatInv, KeptSeats
<1> QED
  BY <1>2, <1>3, <1>4, <1>5, <1>6

LEMMA SeatSteps ==
  ASSUME SeatInv, [ActivityNext]_activityVars
  PROVE  /\ SeatInv'
         /\ \/ Seated(seat') \subseteq Seated(seat)
            \/ capacity' = 0 \/ Cardinality(Seated(seat')) <= capacity'
<1>1. CASE \E g \in Guests : \/ Register(g) \/ RegisterAgain(g) \/ CancelRegistration(g)
                             \/ CheckInGuest(g) \/ Approve(g) \/ Reject(g)
  <2>1. /\ seat' \in [Guests -> SeatStates] /\ (KeptSeats(seat, seat') \/ Fits(seat'))
        /\ capacity' = capacity
    BY <1>1, GuestSteps
  <2> QED
    BY <2>1 DEF SeatInv, KeptSeats, Fits
<1>2. CASE \E n \in Capacities : Resize(n)
  BY <1>2, ActivityAssumption DEF ActivityAssumption, Resize, Managed, SeatInv
<1>3. CASE Advance \/ ReadForDelete \/ DeleteActivity \/ UNCHANGED activityVars
  BY <1>3 DEF Advance, ReadForDelete, DeleteActivity, Managed, activityVars, SeatInv
<1> QED
  BY <1>1, <1>2, <1>3 DEF ActivityNext

\* Nobody is given a seat beyond the capacity, however often it was lowered below the
\* number of those seated (activity/service: Register, promoteWaitlistIfSeat, review).
THEOREM NoSeatIsOversold == ActivitySpec => SeatsAreNotOversold
<1>1. ActivityInit => SeatInv
  BY ActivityAssumption DEF ActivityAssumption, ActivityInit, SeatInv, SeatStates
<1> QED
  BY <1>1, SeatSteps, PTL DEF ActivitySpec, SeatsAreNotOversold

(* Nobody waits beside a free seat *)
\* Each guest but those that never came has a row.
RowsFor(s) == s \in [Guests -> SeatStates] /\ Range(rows) = {g \in Guests : s[g] # "none"}
Served(s) == activity \in {"open", "ongoing"} /\ Waitlisted(s) # {} /\ ~enlarged => Full(s)

BookKept ==
  /\ activity \in {"open", "ongoing", "ended", "cancelled", "gone"} /\ capacity \in Capacities
  /\ rows \in Seq(Guests) /\ IsInjective(rows) /\ present \subseteq Range(rows)
SeatsInv == BookKept /\ RowsFor(seat) /\ Served(seat)

LEMMA SeatsInvMeans == SeatsInv => SeatInv /\ SeatsArePassedOn
  BY ActivityAssumption
  DEF ActivityAssumption, SeatsInv, BookKept, RowsFor, Served, SeatInv, SeatStates, SeatsArePassedOn,
      ActivityTypeOK, NobodyWaitsBesideAFreeSeat

LEMMA PositionsHaveMin ==
  ASSUME NEW n \in Nat, NEW S \in SUBSET (1 .. n), S # {}
  PROVE  Min(S) \in S
<1> DEFINE R == {p \in Nat \X Nat : p[1] < p[2]}
<1>1. IsWellFoundedOn(R, Nat)
  BY NatLessThanWellFounded DEF OpToRel
<1> HIDE DEF R
<1>2. S \subseteq Nat
  OBVIOUS
<1>3. \E x \in S : \A y \in S : ~ (<<y, x>> \in R)
  BY <1>1, <1>2, WFMin
<1>4. PICK x \in S : \A y \in S : ~ (y < x)
  BY <1>2, <1>3 DEF R
<1>5. \A y \in S : x =< y
  BY <1>4
<1> QED
  BY <1>5 DEF Min

LEMMA FirstIsWaiting ==
  ASSUME rows \in Seq(Guests), NEW s, Line(s) # {}
  PROVE  FirstInLine(s) \in Guests /\ s[FirstInLine(s)] = "waitlist"
<1>1. Line(s) \in SUBSET (1 .. Len(rows)) /\ Len(rows) \in Nat
  BY DEF Line
<1>2. Min(Line(s)) \in Line(s)
  BY <1>1, PositionsHaveMin
<1> QED
  BY <1>1, <1>2 DEF Line, FirstInLine

LEMMA LineIsWaitlist ==
  ASSUME rows \in Seq(Guests), NEW s, RowsFor(s), Line(s) = {}
  PROVE  Waitlisted(s) = {}
<1> SUFFICES ASSUME NEW g \in Guests, s[g] = "waitlist" PROVE FALSE
  BY DEF Waitlisted
<1>1. PICK i \in DOMAIN rows : rows[i] = g
  BY DEF RowsFor, Range
<1> QED
  BY <1>1 DEF Line

\* The guest's seat goes to the first in line, so as many are seated as before.
LEMMA SeatVacated ==
  ASSUME SeatsInv, NEW g \in Guests, seat[g] # "none", NEW st \in {"cancelled", "rejected"},
         NEW s, s = [seat EXCEPT ![g] = st],
         NEW t, t = IF seat[g] = "approved" THEN Promoted(s) ELSE s
  PROVE  RowsFor(t) /\ Served(t)
<1>0. seat \in [Guests -> SeatStates] /\ rows \in Seq(Guests) /\ capacity \in Nat
  BY ActivityAssumption DEF ActivityAssumption, SeatsInv, BookKept, RowsFor
<1>1. RowsFor(s)
  BY <1>0 DEF SeatsInv, RowsFor, SeatStates
<1>2. Seated(s) = Seated(seat) \ {g} /\ Waitlisted(s) = Waitlisted(seat) \ {g}
  BY <1>0 DEF Seated, Waitlisted
<1>3. CASE seat[g] # "approved"
  <2>1. Seated(s) = Seated(seat)
    BY <1>2, <1>3 DEF Seated
  <2> QED
    BY <1>1, <1>2, <1>3, <2>1 DEF SeatsInv, Served, Full
<1>4. CASE seat[g] = "approved" /\ t = s
  <2>1. Full(s) \/ Line(s) = {} \/ activity \notin {"open", "ongoing"} \/ ~(capacity > 0)
        \/ t = [s EXCEPT ![FirstInLine(s)] = "approved"]
    BY <1>4 DEF Promoted
  <2>2. Line(s) = {} => Waitlisted(s) = {}
    BY <1>0, <1>1, LineIsWaitlist
  <2>3. Line(s) # {} => t # [s EXCEPT ![FirstInLine(s)] = "approved"]
    BY <1>0, <1>1, <1>4, FirstIsWaiting DEF RowsFor
  <2>4. Waitlisted(s) # {} /\ activity \in {"open", "ongoing"} /\ ~enlarged => capacity > 0
    <3>1. Waitlisted(s) # {} => Waitlisted(seat) # {}
      BY <1>2
    <3> QED
      BY <3>1 DEF SeatsInv, Served, Full
  <2> QED
    BY <1>1, <1>4, <2>1, <2>2, <2>3, <2>4 DEF Served
<1>5. CASE seat[g] = "approved" /\ t # s
  <2>1. t = [s EXCEPT ![FirstInLine(s)] = "approved"] /\ Line(s) # {}
        /\ activity \in {"open", "ongoing"}
    BY <1>5 DEF Promoted
  <2> DEFINE h == FirstInLine(s)
  <2>2. h \in Guests /\ s[h] = "waitlist"
    BY <1>0, <2>1, FirstIsWaiting
  <2> HIDE DEF h
  <2>3. RowsFor(t)
    BY <1>1, <2>1, <2>2 DEF RowsFor, SeatStates, h
  <2>4. Seated(t) = Seated(s) \cup {h} /\ h \notin Seated(s) /\ g \in Seated(seat)
    BY <1>1, <1>5, <2>1, <2>2 DEF Seated, RowsFor, h
  <2>5. h \in Waitlisted(seat)
    BY <1>2, <2>2 DEF Waitlisted
  <2>6. ~enlarged => Full(seat)
    BY <2>1, <2>5 DEF SeatsInv, Served
  <2>7. /\ IsFiniteSet(Seated(seat)) /\ Cardinality(Seated(seat)) \in Nat
        /\ IsFiniteSet(Seated(s))
    BY SeatsAreCounted
  <2>8. Cardinality(Seated(s)) = Cardinality(Seated(seat)) - 1
    BY <1>2, <2>4, <2>7, FS_RemoveElement
  <2>9. Cardinality(Seated(t)) = Cardinality(Seated(s)) + 1
    BY <2>4, <2>7, FS_AddElement
  <2>10. Cardinality(Seated(t)) = Cardinality(Seated(seat))
    BY <2>7, <2>8, <2>9
  <2> QED
    BY <2>3, <2>6, <2>10 DEF Served, Full
<1> QED
  BY <1>3, <1>4, <1>5

\* A guest who gets a place leaves nobody waiting beside a free seat.
LEMMA SeatGiven ==
  ASSUME SeatsInv, NEW g \in Guests, NEW st \in {"approved", "waitlist"},
         st = "approved" => ~Full(seat), st = "waitlist" => Full(seat) /\ seat[g] # "approved",
         NEW t, t = [seat EXCEPT ![g] = st]
  PROVE  /\ t \in [Guests -> SeatStates] /\ Served(t)
         /\ {u \in Guests : t[u] # "none"} = {u \in Guests : seat[u] # "none"} \cup {g}
<1>1. seat \in [Guests -> SeatStates]
  BY DEF SeatsInv, RowsFor
<1>2. CASE st = "approved"
  <2>1. Waitlisted(t) \subseteq Waitlisted(seat)
    BY <1>1, <1>2 DEF Waitlisted
  <2>2. activity \in {"open", "ongoing"} /\ ~enlarged => Waitlisted(seat) = {}
    BY <1>2 DEF SeatsInv, Served
  <2> QED
    BY <1>1, <1>2, <2>1, <2>2 DEF Served, SeatStates
<1>3. CASE st = "waitlist"
  <2>1. Seated(t) = Seated(seat)
    BY <1>1, <1>3 DEF Seated
  <2> QED
    BY <1>1, <1>3, <2>1 DEF Served, Full, SeatStates
<1> QED
  BY <1>2, <1>3

LEMMA BookPassedOn ==
  ASSUME SeatsInv, Entered, NEW R, R = rows',
         R \in Seq(Guests), IsInjective(R), present' \subseteq Range(R),
         seat' \in [Guests -> SeatStates], Range(R) = {g \in Guests : seat'[g] # "none"},
         Served(seat')
  PROVE  SeatsInv'
<1>1. activity' = activity /\ capacity' = capacity /\ enlarged' = enlarged
  BY DEF Entered
<1>2. BookKept'
  BY <1>1 DEF SeatsInv, BookKept
<1>3. Served(seat)'
  BY <1>1 DEF Served, Full
<1>4. RowsFor(seat)'
  BY DEF RowsFor
<1> QED
  BY <1>2, <1>3, <1>4 DEF SeatsInv

LEMMA RegisterPassesOn ==
  ASSUME SeatsInv, NEW g \in Guests, Register(g)
  PROVE  SeatsInv'
<1>1. rows \in Seq(Guests) /\ IsInjective(rows) /\ g \notin Range(rows)
  BY DEF SeatsInv, BookKept, RowsFor, Register
<1> DEFINE R == Append(rows, g)
<1>2. R \in Seq(Guests) /\ IsInjective(R) /\ Range(R) = Range(rows) \cup {g}
  <2>1. /\ R \in Seq(Guests) /\ Len(R) = Len(rows) + 1 /\ R[Len(rows) + 1] = g
        /\ \A i \in 1 .. Len(rows) : R[i] = rows[i]
    BY <1>1
  <2> HIDE DEF R
  <2>2. DOMAIN R = DOMAIN rows \cup {Len(rows) + 1} /\ DOMAIN rows = 1 .. Len(rows)
    BY <1>1, <2>1
  <2>3. Range(R) = Range(rows) \cup {g}
    BY <2>1, <2>2 DEF Range
  <2>4. IsInjective(R)
    BY <1>1, <2>1, <2>2 DEF IsInjective, Range
  <2> QED
    BY <2>1, <2>3, <2>4
<1>3. /\ seat' \in [Guests -> SeatStates] /\ Served(seat')
      /\ {u \in Guests : seat'[u] # "none"} = {u \in Guests : seat[u] # "none"} \cup {g}
  BY SeatGiven DEF Register, Place
<1>4. Range(R) = {u \in Guests : seat'[u] # "none"}
  BY <1>2, <1>3 DEF SeatsInv, RowsFor
<1>5. R = rows' /\ present' \subseteq Range(R) /\ Entered
  BY <1>2 DEF Register, SeatsInv, BookKept
<1> HIDE DEF R
<1> QED
  BY <1>2, <1>3, <1>4, <1>5, BookPassedOn

\* Every other call of a guest or of the organizer about one.
LEMMA SameRows ==
  ASSUME SeatsInv, Entered, rows' = rows, present' \subseteq Range(rows),
         RowsFor(seat'), Served(seat')
  PROVE  SeatsInv'
<1>1. /\ rows \in Seq(Guests) /\ IsInjective(rows)
      /\ seat' \in [Guests -> SeatStates] /\ Range(rows) = {g \in Guests : seat'[g] # "none"}
  BY DEF SeatsInv, BookKept, RowsFor
<1> QED
  BY <1>1, BookPassedOn

LEMMA GuestPassesOn ==
  ASSUME SeatsInv, NEW g \in Guests,
         \/ RegisterAgain(g) \/ CancelRegistration(g) \/ CheckInGuest(g) \/ Approve(g) \/ Reject(g)
  PROVE  SeatsInv'
<1>1. CASE RegisterAgain(g) \/ Approve(g)
  <2>1. PICK st \in {"approved", "waitlist"} :
          /\ seat' = [seat EXCEPT ![g] = st]
          /\ st = "approved" => ~Full(seat)
          /\ st = "waitlist" => Full(seat) /\ seat[g] # "approved"
    BY <1>1 DEF RegisterAgain, Approve, Place
  <2>2. /\ seat' \in [Guests -> SeatStates] /\ Served(seat')
        /\ {u \in Guests : seat'[u] # "none"} = {u \in Guests : seat[u] # "none"} \cup {g}
    BY <2>1, SeatGiven
  <2>3. seat[g] # "none" /\ Entered /\ rows' = rows /\ present' \subseteq Range(rows)
    BY <1>1 DEF RegisterAgain, Approve, SeatsInv, BookKept
  <2> QED
    BY <2>2, <2>3, SameRows DEF SeatsInv, RowsFor
<1>2. CASE CancelRegistration(g)
  <2>1. PICK s : s = [seat EXCEPT ![g] = "cancelled"]
    OBVIOUS
  <2>2. /\ seat' = IF seat[g] = "approved" THEN Promoted(s) ELSE s
        /\ seat[g] # "none" /\ Entered /\ rows' = rows /\ present' \subseteq Range(rows)
    BY <1>2, <2>1 DEF CancelRegistration, SeatsInv, BookKept
  <2>3. RowsFor(seat') /\ Served(seat')
    BY <2>1, <2>2, SeatVacated
  <2> QED
    BY <2>2, <2>3, SameRows
<1>3. CASE Reject(g)
  <2>1. PICK s : s = [seat EXCEPT ![g] = "rejected"]
    OBVIOUS
  <2>2. /\ seat' = IF seat[g] = "approved" THEN Promoted(s) ELSE s
        /\ seat[g] # "none" /\ Entered /\ rows' = rows /\ present' \subseteq Range(rows)
    BY <1>3, <2>1 DEF Reject, SeatsInv, BookKept
  <2>3. RowsFor(seat') /\ Served(seat')
    BY <2>1, <2>2, SeatVacated
  <2> QED
    BY <2>2, <2>3, SameRows
<1>4. CASE CheckInGuest(g)
  <2>1. seat' = seat /\ Entered /\ rows' = rows /\ present' = present \cup {g}
    BY <1>4 DEF CheckInGuest
  <2>2. g \in Range(rows)
    BY <1>4 DEF CheckInGuest, SeatsInv, RowsFor
  <2> QED
    BY <2>1, <2>2, SameRows DEF SeatsInv, BookKept
<1> QED
  BY <1>1, <1>2, <1>3, <1>4

LEMMA ActivityPassesOn ==
  ASSUME SeatsInv,
         (\E n \in Capacities : Resize(n)) \/ Advance \/ ReadForDelete \/ DeleteActivity
         \/ UNCHANGED activityVars
  PROVE  SeatsInv'
<1>1. seat' = seat /\ rows' = rows /\ present' = present
  BY DEF Resize, Advance, ReadForDelete, DeleteActivity, Managed, activityVars
<1>2. RowsFor(seat)'
  BY <1>1 DEF SeatsInv, RowsFor
<1>3. BookKept'
  BY <1>1 DEF SeatsInv, BookKept, Resize, Advance, StartActivity, EndActivity, CancelActivity,
              ReadForDelete, DeleteActivity, activityVars
<1>4. capacity \in Nat /\ capacity' \in Nat
  BY <1>3, ActivityAssumption DEF ActivityAssumption, SeatsInv, BookKept
<1>5. /\ activity' \in {"open", "ongoing"} => activity \in {"open", "ongoing"}
      /\ ~enlarged' => ~enlarged
      /\ ~enlarged' /\ capacity > 0 => capacity' > 0 /\ capacity' <= capacity
  <2>1. CASE \E n \in Capacities : Resize(n)
    <3>1. PICK n \in Capacities : Resize(n)
      BY <2>1
    <3>2. /\ capacity' = n /\ activity = "open" /\ activity' = activity
          /\ (enlarged' = (enlarged \/ n = 0 \/ (capacity > 0 /\ n > capacity)))
      BY <3>1 DEF Resize
    <3>3. ~enlarged' => ~enlarged /\ n # 0 /\ ~(capacity > 0 /\ n > capacity)
      BY <3>2, Zenon
    <3> QED
      BY <1>4, <3>2, <3>3
  <2>2. CASE Advance \/ ReadForDelete \/ DeleteActivity \/ UNCHANGED activityVars
    BY <1>4, <2>2 DEF Advance, StartActivity, EndActivity, CancelActivity,
                      ReadForDelete, DeleteActivity, activityVars
  <2> QED
    BY <2>1, <2>2
<1>6. Cardinality(Seated(seat)) \in Nat
  BY SeatsAreCounted
<1>7. Served(seat)'
  BY <1>1, <1>4, <1>5, <1>6 DEF SeatsInv, Served, Full, Waitlisted, Seated
<1> QED
  BY <1>2, <1>3, <1>7 DEF SeatsInv

\* As long as the capacity was not raised nobody waits beside a free seat, whoever leaves
\* and however the seats were reduced (promoteWaitlistIfSeat), and each guest has one row.
THEOREM FreeSeatsAreTaken == ActivitySpec => []SeatsArePassedOn
<1>1. ActivityInit => SeatsInv
  <2> SUFFICES ASSUME ActivityInit PROVE SeatsInv
    OBVIOUS
  <2>1. rows = <<>> /\ rows \in Seq(Guests) /\ DOMAIN rows = {}
    BY DEF ActivityInit
  <2>2. Range(rows) = {} /\ IsInjective(rows)
    BY <2>1 DEF Range, IsInjective
  <2> QED
    BY <2>1, <2>2 DEF ActivityInit, SeatsInv, BookKept, RowsFor, SeatStates, Served, Waitlisted
<1>2. SeatsInv /\ [ActivityNext]_activityVars => SeatsInv'
  BY RegisterPassesOn, GuestPassesOn, ActivityPassesOn DEF ActivityNext
<1> QED
  BY <1>1, <1>2, SeatsInvMeans, PTL DEF ActivitySpec

-----------------------------------------------------------------------------
(***************************************************************************)
(* Sums over finite sets.  The library's induction theorems cannot be      *)
(* instantiated by the provers, so each induction is over a set of numbers *)
(* for which a claim would fail, and its least element.                    *)
(***************************************************************************)

\* Every nonempty set of numbers has a least one, which is what the inductions
\* below use.
LEMMA LeastNumber ==
  ASSUME NEW T \in SUBSET Nat, T # {}
  PROVE  \E m \in T : \A k \in T : m <= k
<1> DEFINE R == OpToRel(<, Nat)
<1>1. IsWellFoundedOn(R, Nat)  BY NatLessThanWellFounded
<1>2. \A x, y \in Nat : <<y, x>> \in R <=> y < x  BY DEF OpToRel
<1> HIDE DEF R
<1>3. PICK m \in T : \A k \in T : ~(<<k, m>> \in R)  BY <1>1, WFMin
<1>4. \A k \in T : m <= k
  <2> SUFFICES ASSUME NEW k \in T  PROVE m <= k  OBVIOUS
  <2>1. m \in Nat /\ k \in Nat /\ ~(k < m)  BY <1>2, <1>3
  <2> QED  BY <2>1
<1> QED  BY <1>4

\* The sums of f over all subsets of S, built up as SumFunctionOnSet does.
First(T) == CHOOSE x \in T : TRUE
Table(g, f, S) ==
  g = [T \in SUBSET S |-> IF T = {} THEN 0 ELSE f[First(T)] + g[T \ {First(T)}]]
NatTable(g, f, S) == Table(g, f, S) /\ g \in [SUBSET S -> Nat] /\ \A x \in S : f[x] \in Nat

\* The fold of SumFunctionOnSet is such a table.
LEMMA SumTable ==
  ASSUME NEW f, NEW S, NEW g, Table(g, f, S)
  PROVE  \E h : Table(h, f, S) /\ SumFunctionOnSet(f, S) = h[S]
<1> DEFINE h == CHOOSE h : Table(h, f, S)
<1>1. Table(h, f, S)  OBVIOUS
<1>2. SumFunctionOnSet(f, S) = h[S]
  BY DEF SumFunctionOnSet, FoldFunctionOnSet, MapThenFoldSet, Table, First
<1> QED  BY <1>1, <1>2

LEMMA TableAt ==
  ASSUME NEW g, NEW f, NEW S, Table(g, f, S), NEW T \in SUBSET S
  PROVE  /\ T = {} => g[T] = 0
         /\ T # {} => First(T) \in T /\ g[T] = f[First(T)] + g[T \ {First(T)}]
<1>1. T # {} => First(T) \in T  BY DEF First
<1>2. \A U \in SUBSET S : g[U] = IF U = {} THEN 0 ELSE f[First(U)] + g[U \ {First(U)}]
  BY DEF Table
<1> QED  BY <1>1, <1>2

\* Two tables of values that agree say the same of the sets both know.
LEMMA TablesAgree ==
  ASSUME NEW g, NEW f, NEW S, Table(g, f, S), NEW h, NEW e, NEW R, Table(h, e, R),
         NEW T, T \in SUBSET S, T \in SUBSET R, IsFiniteSet(T), \A x \in T : f[x] = e[x]
  PROVE  g[T] = h[T]
<1> DEFINE Bad == {n \in Nat : \E U \in SUBSET T : Cardinality(U) = n /\ g[U] # h[U]}
<1>1. SUFFICES ASSUME g[T] # h[T]  PROVE FALSE  OBVIOUS
<1>2. Cardinality(T) \in Bad  BY <1>1, FS_CardinalityType
<1>3. PICK n \in Bad : \A k \in Bad : n <= k
  <2>1. Bad \in SUBSET Nat /\ Bad # {}  BY <1>2
  <2> HIDE DEF Bad
  <2> QED  BY <2>1, LeastNumber
<1>4. PICK U \in SUBSET T : Cardinality(U) = n /\ g[U] # h[U]  OBVIOUS
<1>5. PICK x : x = First(U)  OBVIOUS
<1>6. U # {} /\ x \in U /\ g[U] = f[x] + g[U \ {x}] /\ h[U] = e[x] + h[U \ {x}]
  <2>1. U \in SUBSET S /\ U \in SUBSET R  OBVIOUS
  <2> QED  BY <1>4, <1>5, <2>1, TableAt
<1>7. IsFiniteSet(U) /\ IsFiniteSet(U \ {x})  BY FS_Subset
<1>8. Cardinality(U \ {x}) = n - 1 /\ n - 1 \in Nat
  <2>1. Cardinality(U \ {x}) = Cardinality(U) - 1  BY <1>6, <1>7, FS_RemoveElement
  <2>2. Cardinality(U \ {x}) \in Nat  BY <1>7, FS_CardinalityType
  <2> QED  BY <1>4, <2>1, <2>2
<1>9. g[U \ {x}] = h[U \ {x}]
  <2>1. n - 1 \notin Bad  BY <1>3, <1>8
  <2>2. U \ {x} \in SUBSET T  OBVIOUS
  <2> QED  BY <1>8, <2>1, <2>2
<1> QED  BY <1>4, <1>6, <1>9

\* Of natural numbers there is one, and it has natural sums.
LEMMA TableExists ==
  ASSUME NEW f, NEW S, IsFiniteSet(S), \A x \in S : f[x] \in Nat
  PROVE  \E g \in [SUBSET S -> Nat] : Table(g, f, S)
<1> DEFINE
     Upto(g, n) == \A T \in SUBSET S : Cardinality(T) <= n =>
                     g[T] = IF T = {} THEN 0 ELSE f[First(T)] + g[T \ {First(T)}]
     Bad == {n \in Nat : ~\E g \in [SUBSET S -> Nat] : Upto(g, n)}
<1>1. \A T \in SUBSET S : IsFiniteSet(T) /\ Cardinality(T) \in Nat
  BY FS_Subset, FS_CardinalityType
<1>a. \A T \in SUBSET S : Cardinality(T) <= 0 <=> T = {}
  BY <1>1, FS_EmptySet
<1>b. \A T \in SUBSET S : T # {} => First(T) \in T /\ f[First(T)] \in Nat
  BY DEF First
<1>c. \A T \in SUBSET S : T # {} => Cardinality(T \ {First(T)}) = Cardinality(T) - 1
  BY <1>1, <1>b, FS_RemoveElement
<1>2. Bad = {}
  <2>1. SUFFICES ASSUME Bad # {}  PROVE FALSE  OBVIOUS
  <2>2. PICK n \in Bad : \A k \in Bad : n <= k
    <3>1. Bad \in SUBSET Nat  OBVIOUS
    <3> HIDE DEF Bad
    <3> QED  BY <2>1, <3>1, LeastNumber
  <2>3. n \in Nat  OBVIOUS
  <2>a. n # 0 => n - 1 \in Nat /\ n - 1 \notin Bad
    <3> HIDE DEF Bad
    <3> QED  BY <2>2, <2>3
  <2>4. CASE n = 0
    <3>1. PICK g : g = [T \in SUBSET S |-> 0]  OBVIOUS
    <3>2. g \in [SUBSET S -> Nat]  BY <3>1
    <3>3. Upto(g, 0)
      <4> SUFFICES ASSUME NEW T \in SUBSET S, Cardinality(T) <= 0
                   PROVE  g[T] = IF T = {} THEN 0 ELSE f[First(T)] + g[T \ {First(T)}]
        OBVIOUS
      <4>1. T = {}  BY <1>a
      <4> QED  BY <3>1, <4>1
    <3> QED  BY <2>4, <3>2, <3>3
  <2>5. CASE n # 0
    <3>1. n - 1 \in Nat /\ n - 1 \notin Bad  BY <2>5, <2>a
    <3>2. PICK g \in [SUBSET S -> Nat] : Upto(g, n - 1)  BY <3>1
    <3>3. PICK h : h = [T \in SUBSET S |-> IF Cardinality(T) = n
                                           THEN f[First(T)] + g[T \ {First(T)}] ELSE g[T]]
      OBVIOUS
    <3>4. h \in [SUBSET S -> Nat]
      <4> SUFFICES ASSUME NEW T \in SUBSET S
                   PROVE  (IF Cardinality(T) = n
                           THEN f[First(T)] + g[T \ {First(T)}] ELSE g[T]) \in Nat
        BY <3>3
      <4>1. g[T] \in Nat /\ g[T \ {First(T)}] \in Nat  BY <3>2
      <4>2. Cardinality(T) = n => f[First(T)] \in Nat  BY <1>a, <1>b, <2>3, <2>5
      <4> QED  BY <4>1, <4>2
    <3>5. Upto(h, n)
      <4> SUFFICES ASSUME NEW T \in SUBSET S, Cardinality(T) <= n
                   PROVE  h[T] = IF T = {} THEN 0 ELSE f[First(T)] + h[T \ {First(T)}]
        OBVIOUS
      <4>1. CASE T = {}
        <5>1. Cardinality(T) \in Nat /\ Cardinality(T) <= 0  BY <1>1, <1>a, <4>1
        <5>2. Cardinality(T) # n /\ Cardinality(T) <= n - 1  BY <2>3, <2>5, <5>1
        <5> QED  BY <3>2, <3>3, <4>1, <5>2
      <4>2. CASE T # {}
        <5>1. PICK R : R = T \ {First(T)}  OBVIOUS
        <5>2. /\ R \in SUBSET S /\ Cardinality(T) \in Nat
              /\ Cardinality(R) = Cardinality(T) - 1
          BY <1>1, <1>c, <4>2, <5>1
        <5>3. Cardinality(R) # n  BY <2>3, <5>2
        <5>4. h[R] = g[R]  BY <3>3, <5>2, <5>3
        <5>5. CASE Cardinality(T) = n  BY <3>3, <4>2, <5>1, <5>4, <5>5
        <5>6. CASE Cardinality(T) # n
          <6>1. Cardinality(T) <= n - 1  BY <2>3, <5>2, <5>6
          <6>2. g[T] = f[First(T)] + g[R]  BY <3>2, <4>2, <5>1, <6>1
          <6> QED  BY <3>3, <4>2, <5>1, <5>4, <5>6, <6>2
        <5> QED  BY <5>5, <5>6
      <4> QED  BY <4>1, <4>2
    <3> QED  BY <2>3, <3>4, <3>5
  <2> QED  BY <2>4, <2>5
<1>3. Cardinality(S) \in Nat  BY FS_CardinalityType
<1>4. PICK g \in [SUBSET S -> Nat] : Upto(g, Cardinality(S))  BY <1>2, <1>3
<1>5. \A T \in SUBSET S : g[T] = IF T = {} THEN 0 ELSE f[First(T)] + g[T \ {First(T)}]
  <2>1. \A T \in SUBSET S : Cardinality(T) <= Cardinality(S)  BY FS_Subset
  <2> QED  BY <1>4, <2>1
<1>6. Table(g, f, S)  BY <1>4, <1>5 DEF Table
<1> QED  BY <1>6

\* In a table each element of a set counts once, whichever was first.
LEMMA TableAdds ==
  ASSUME NEW f, NEW S, IsFiniteSet(S), NEW g, NatTable(g, f, S)
  PROVE  \A y \in S : g[S] = f[y] + g[S \ {y}]
<1> DEFINE Holds(T) == \A x \in T : g[T] = f[x] + g[T \ {x}]
           Bad == {n \in Nat : \E T \in SUBSET S : Cardinality(T) = n /\ ~Holds(T)}
<1>1. SUFFICES ASSUME ~Holds(S)  PROVE FALSE  OBVIOUS
<1>2. Cardinality(S) \in Bad  BY <1>1, FS_CardinalityType
<1>3. PICK n \in Bad : \A k \in Bad : n <= k
  <2>1. Bad \in SUBSET Nat /\ Bad # {}  BY <1>2
  <2> HIDE DEF Bad
  <2> QED  BY <2>1, LeastNumber
<1>4. PICK T \in SUBSET S : Cardinality(T) = n /\ ~Holds(T)  OBVIOUS
<1>5. PICK x \in T : g[T] # f[x] + g[T \ {x}]  BY <1>4
<1>6. PICK z : z = First(T)  OBVIOUS
<1>7. z \in T /\ g[T] = f[z] + g[T \ {z}]
  <2>1. T # {}  BY <1>5
  <2> QED  BY <1>6, <2>1, TableAt DEF NatTable
<1>8. x # z  BY <1>5, <1>7
<1>9. PICK R : R = T \ {z}  OBVIOUS
<1>10. PICK Q : Q = T \ {x}  OBVIOUS
<1>11. /\ R \in SUBSET S /\ Q \in SUBSET S /\ Cardinality(R) = n - 1 /\ Cardinality(Q) = n - 1
       /\ n - 1 \in Nat
  <2>1. IsFiniteSet(T) /\ IsFiniteSet(R) /\ IsFiniteSet(Q)  BY <1>9, <1>10, FS_Subset
  <2>2. Cardinality(R) \in Nat  BY <2>1, FS_CardinalityType
  <2>3. Cardinality(R) = Cardinality(T) - 1 /\ Cardinality(Q) = Cardinality(T) - 1
    BY <1>5, <1>7, <1>9, <1>10, <2>1, FS_RemoveElement
  <2> QED  BY <1>4, <1>9, <1>10, <2>2, <2>3
<1>12. n - 1 \notin Bad
  <2>1. n \in Nat  OBVIOUS
  <2> HIDE DEF Bad
  <2> QED  BY <1>3, <1>11, <2>1
<1>13. Holds(R) /\ Holds(Q)  BY <1>11, <1>12
<1>14. PICK V : V = T \ {x, z}  OBVIOUS
<1>15. R \ {x} = V /\ Q \ {z} = V /\ x \in R /\ z \in Q  BY <1>5, <1>7, <1>8, <1>9, <1>10, <1>14
<1>16. g[R] = f[x] + g[V] /\ g[Q] = f[z] + g[V]  BY <1>13, <1>15
<1>17. f[x] \in Nat /\ f[z] \in Nat /\ g[V] \in Nat
  <2>1. V \in SUBSET S  BY <1>14
  <2> QED  BY <1>5, <1>7, <2>1 DEF NatTable
<1>18. g[T] = f[z] + (f[x] + g[V]) /\ f[x] + g[T \ {x}] = f[x] + (f[z] + g[V])
  BY <1>7, <1>9, <1>10, <1>16
<1> QED  BY <1>5, <1>17, <1>18

\* What SumFunctionOnSet computes of natural numbers over finite sets: nothing of
\* nothing, and one summand more for each element; it depends on no other values.
LEMMA SumOfNone == ASSUME NEW f  PROVE SumFunctionOnSet(f, {}) = 0
<1>1. PICK g : Table(g, f, {})  BY FS_EmptySet, TableExists
<1>2. PICK h : Table(h, f, {}) /\ SumFunctionOnSet(f, {}) = h[{}]  BY <1>1, SumTable
<1> QED  BY <1>2, TableAt

LEMMA SumInTable ==
  ASSUME NEW f, NEW S, IsFiniteSet(S), NEW g, Table(g, f, S), NEW T \in SUBSET S,
         NEW e, \A x \in T : f[x] = e[x] /\ e[x] \in Nat
  PROVE  SumFunctionOnSet(e, T) = g[T]
<1>1. IsFiniteSet(T)  BY FS_Subset
<1>2. PICK k : Table(k, e, T)  BY <1>1, TableExists
<1>3. PICK h : Table(h, e, T) /\ SumFunctionOnSet(e, T) = h[T]  BY <1>2, SumTable
<1>4. g[T] = h[T]  BY <1>1, <1>3, TablesAgree
<1> QED  BY <1>3, <1>4

LEMMA SumOfMore ==
  ASSUME NEW f, NEW S, IsFiniteSet(S), \A x \in S : f[x] \in Nat, NEW y \in S
  PROVE  /\ SumFunctionOnSet(f, S) \in Nat
         /\ SumFunctionOnSet(f, S) = f[y] + SumFunctionOnSet(f, S \ {y})
<1>1. PICK g \in [SUBSET S -> Nat] : Table(g, f, S)  BY TableExists
<1>2. SumFunctionOnSet(f, S) = g[S] /\ SumFunctionOnSet(f, S \ {y}) = g[S \ {y}]
  BY <1>1, SumInTable
<1>3. NatTable(g, f, S)  BY <1>1 DEF NatTable
<1>4. \A x \in S : g[S] = f[x] + g[S \ {x}]  BY <1>3, TableAdds
<1> QED  BY <1>1, <1>2, <1>4

LEMMA SumAgrees ==
  ASSUME NEW f, NEW e, NEW S, IsFiniteSet(S), \A x \in S : f[x] = e[x] /\ e[x] \in Nat
  PROVE  SumFunctionOnSet(f, S) = SumFunctionOnSet(e, S)
<1>1. PICK g : Table(g, f, S)  BY TableExists
<1>2. SumFunctionOnSet(f, S) = g[S] /\ SumFunctionOnSet(e, S) = g[S]  BY <1>1, SumInTable
<1> QED  BY <1>2

\* One value grows.
LEMMA SumGrows ==
  ASSUME NEW f, NEW e, NEW S, IsFiniteSet(S), \A x \in S : f[x] \in Nat, NEW y \in S,
         NEW k \in Nat, e[y] = f[y] + k, \A x \in S \ {y} : e[x] = f[x]
  PROVE  SumFunctionOnSet(e, S) = SumFunctionOnSet(f, S) + k
<1>1. PICK R : R = S \ {y}  OBVIOUS
<1>2. IsFiniteSet(R)  BY <1>1, FS_Subset
<1>0. \A x \in S : f[x] \in Nat  OBVIOUS
<1>3. \A x \in S : e[x] \in Nat  OBVIOUS
<1>4. SumFunctionOnSet(f, S) = f[y] + SumFunctionOnSet(f, R)  BY <1>0, <1>1, SumOfMore
<1>5. SumFunctionOnSet(e, S) = e[y] + SumFunctionOnSet(e, R)  BY <1>1, <1>3, SumOfMore
<1>6. SumFunctionOnSet(e, R) = SumFunctionOnSet(f, R)
  <2>1. \A x \in R : e[x] = f[x] /\ f[x] \in Nat  BY <1>1
  <2> QED  BY <1>2, <2>1, SumAgrees
<1>7. SumFunctionOnSet(f, R) \in Nat
  <2>1. \A x \in R : f[x] \in Nat  BY <1>1
  <2>2. CASE R = {}  BY <2>2, SumOfNone
  <2>3. CASE R # {}  BY <1>2, <2>1, <2>3, SumOfMore
  <2> QED  BY <2>2, <2>3
<1>8. f[y] \in Nat  OBVIOUS
<1> QED  BY <1>4, <1>5, <1>6, <1>7, <1>8

-----------------------------------------------------------------------------
(***************************************************************************)
(* Meetings and their votes.                                               *)
(***************************************************************************)

Moments == 0..MaxClock
VoteRows ==
  [status : {"none", "open", "closed"}, end : Moments \cup {Never},
   kind : {"equal"} \cup UNION {Kinds[v] : v \in Votes}]

\* A vote has no electors and no receipts before it is opened.
VotesKept ==
  /\ vote \in [Votes -> VoteRows] /\ clock \in Moments
  /\ DOMAIN electors = Votes /\ DOMAIN tally = Votes
  /\ DOMAIN receipts = Votes /\ \A v \in Votes : receipts[v] \subseteq attendees
  /\ \A v \in Votes : Open(v) => DOMAIN electors[v] \subseteq attendees /\ LiveMeeting

\* What a step may do to one vote.
ClosedStays(v) == vote[v].status = "closed" => vote'[v] = vote[v]
NothingCounted(v) == tally'[v] = tally[v] /\ receipts'[v] = receipts[v]
Final(v) ==
  vote[v].status = "closed" \/ (Open(v) /\ Due(v)) => NothingCounted(v) /\ ClosedStays(v)

\* The rows of the votes change only where a vote is open, and it is closed.
OnlyCloses ==
  /\ vote' \in [Votes -> VoteRows]
  /\ \A v \in Votes :
       \/ vote'[v] = vote[v]
       \/ Open(v) /\ vote'[v].status = "closed" /\ vote'[v].kind = vote[v].kind

LEMMA VoteClosed ==
  ASSUME vote \in [Votes -> VoteRows], NEW w, Open(w) \/ w \notin Votes, NEW e \in Moments \cup {Never},
         vote' = [vote EXCEPT ![w] = [status |-> "closed", end |-> e, kind |-> vote[w].kind]]
  PROVE  OnlyCloses
<1>1. w \in Votes => [status |-> "closed", end |-> e, kind |-> vote[w].kind] \in VoteRows
  BY DEF VoteRows
<1> QED
  BY <1>1 DEF OnlyCloses, Open

LEMMA RowClosed ==
  ASSUME NEW r \in VoteRows, NEW e \in Moments
  PROVE  [r EXCEPT !.status = "closed", !.end = e]
           = [status |-> "closed", end |-> e, kind |-> r.kind]
<1>1. PICK s : s = [r EXCEPT !.status = "closed", !.end = e]
  OBVIOUS
<1>2. /\ s \in [{"status", "end", "kind"} -> {s[x] : x \in {"status", "end", "kind"}}]
      /\ s.status = "closed" /\ s.end = e /\ s.kind = r.kind
  BY <1>1 DEF VoteRows
<1> QED
  BY <1>1, <1>2

LEMMA StatusClosed ==
  ASSUME vote \in [Votes -> VoteRows], NEW w, Open(w) \/ w \notin Votes,
         vote' = [vote EXCEPT ![w].status = "closed"]
  PROVE  OnlyCloses
<1>1. CASE w \notin Votes
  BY <1>1 DEF OnlyCloses
<1>2. CASE w \in Votes
  <2>1. /\ vote[w] \in VoteRows
        /\ [vote[w] EXCEPT !.status = "closed"]
             = [status |-> "closed", end |-> vote[w].end, kind |-> vote[w].kind]
    BY <1>2 DEF VoteRows
  <2>2. vote[w].end \in Moments \cup {Never}
    BY <2>1 DEF VoteRows
  <2> QED
    BY <2>1, <2>2, VoteClosed
<1> QED
  BY <1>1, <1>2

LEMMA AllClosedCloses ==
  ASSUME VotesKept, AllClosed
  PROVE  OnlyCloses /\ \A v \in Votes : vote'[v].status # "open"
<1>0. vote \in [Votes -> VoteRows] /\ clock \in Moments
  BY DEF VotesKept
<1> SUFFICES ASSUME NEW v \in Votes
             PROVE  /\ vote'[v] \in VoteRows /\ vote'[v].status # "open"
                    /\ \/ vote'[v] = vote[v]
                       \/ Open(v) /\ vote'[v].status = "closed" /\ vote'[v].kind = vote[v].kind
  BY <1>0 DEF OnlyCloses, AllClosed
<1>1. CASE ~Open(v)
  BY <1>0, <1>1 DEF AllClosed, Open
<1>2. CASE Open(v)
  <2> DEFINE e == IF Due(v) THEN vote[v].end ELSE clock
  <2>1. vote[v] \in VoteRows /\ e \in Moments \cup {Never}
    BY <1>0 DEF VoteRows
  <2>2. vote'[v] = [vote[v] EXCEPT !.status = "closed", !.end = e]
    BY <1>2 DEF AllClosed
  <2> HIDE DEF e
  <2>3. vote'[v] = [status |-> "closed", end |-> e, kind |-> vote[v].kind]
    BY <2>1, <2>2 DEF VoteRows
  <2> QED
    BY <1>2, <2>1, <2>3 DEF VoteRows
<1> QED
  BY <1>1, <1>2

\* A step that touches no ballots.
LeavesBallots == OnlyCloses /\ UNCHANGED <<electors, receipts, tally>>

\* A step that counts nothing and opens nothing.
LEMMA StillFinal ==
  ASSUME VotesKept, OnlyCloses, UNCHANGED <<electors, receipts, tally>>, clock' \in Moments,
         attendees \subseteq attendees',
         LiveMeeting => LiveMeeting' \/ \A v \in Votes : vote'[v].status # "open"
  PROVE  VotesKept' /\ LeavesBallots /\ \A v \in Votes : Final(v)
<1>1. \A v \in Votes : Open(v)' => Open(v)
  BY DEF OnlyCloses, Open
<1>2. VotesKept'
  BY <1>1 DEF VotesKept, OnlyCloses, Open
<1> QED
  BY <1>2 DEF OnlyCloses, Final, NothingCounted, ClosedStays, Open, LeavesBallots

LEMMA SameVotes == ASSUME VotesKept, vote' = vote PROVE OnlyCloses
BY DEF VotesKept, OnlyCloses

LEMMA MeetingStarts == MeetingInit => VotesKept
<1> SUFFICES ASSUME MeetingInit PROVE VotesKept
  OBVIOUS
<1>1. NoVote \in VoteRows
  BY DEF NoVote, VoteRows
<1>2. 0 \in Moments
  BY MeetingAssumption DEF Moments
<1> QED
  BY <1>1, <1>2 DEF MeetingInit, VotesKept, Open, NoVote

LEMMA RemoveAttendeeKeeps ==
  ASSUME VotesKept, NEW p \in People, RemoveAttendee(p)
  PROVE  VotesKept' /\ LeavesBallots /\ \A v \in Votes : Final(v)
<1>1. UNCHANGED <<meeting, vote, electors, receipts, tally, clock>> /\ attendees' = attendees \ {p}
  BY DEF RemoveAttendee, polls
<1>2. \A v \in Votes : p \notin receipts[v] /\ ~(Open(v) /\ p \in DOMAIN electors[v])
  BY DEF RemoveAttendee
<1>3. \A v \in Votes : receipts'[v] \subseteq attendees'
  BY <1>1, <1>2 DEF VotesKept
<1>4. \A v \in Votes : Open(v)' => DOMAIN electors'[v] \subseteq attendees' /\ LiveMeeting'
  BY <1>1, <1>2 DEF VotesKept, Open, LiveMeeting
<1>5. LeavesBallots
  BY <1>1, SameVotes DEF LeavesBallots
<1> QED
  BY <1>1, <1>3, <1>4, <1>5 DEF VotesKept, Final, NothingCounted, ClosedStays

LEMMA CreateVoteKeeps ==
  ASSUME VotesKept, NEW w \in Votes, NEW kind \in Kinds[w],
         NEW end \in (clock + 1) .. MaxClock \cup {Never}, CreateVote(w, kind, end)
  PROVE  VotesKept' /\ \A v \in Votes : Final(v)
<1> DEFINE row == [status |-> "open", end |-> end, kind |-> kind]
<1>1. row \in VoteRows
  BY MeetingAssumption DEF VotesKept, VoteRows, Moments
<1>2. /\ vote' = [vote EXCEPT ![w] = row] /\ electors' = [electors EXCEPT ![w] = Electorate(kind)]
      /\ LiveMeeting /\ vote[w].status = "none"
      /\ UNCHANGED <<meeting, attendees, receipts, tally, clock>>
  BY DEF CreateVote, NoVote, people
<1>3. DOMAIN Electorate(kind) \subseteq attendees
  BY DEF Electorate
<1> HIDE DEF row
<1>4. vote' \in [Votes -> VoteRows] /\ \A v \in Votes \ {w} : vote'[v] = vote[v]
  BY <1>1, <1>2 DEF VotesKept
<1>5. \A v \in Votes : Open(v)' => DOMAIN electors'[v] \subseteq attendees' /\ LiveMeeting'
  <2> SUFFICES ASSUME NEW v \in Votes, Open(v)' PROVE DOMAIN electors'[v] \subseteq attendees /\ LiveMeeting'
    BY <1>2
  <2>1. LiveMeeting'
    BY <1>2 DEF LiveMeeting
  <2>2. CASE v = w
    BY <1>2, <1>3, <2>1, <2>2 DEF VotesKept
  <2>3. CASE v # w
    BY <1>2, <1>4, <2>1, <2>3 DEF VotesKept, Open
  <2> QED
    BY <2>2, <2>3
<1> QED
  BY <1>2, <1>4, <1>5 DEF VotesKept, Final, NothingCounted, ClosedStays, Open

LEMMA CastVoteKeeps ==
  ASSUME VotesKept, NEW w \in Votes, NEW p \in People, NEW o \in Options, CastVote(w, p, o)
  PROVE  VotesKept' /\ \A v \in Votes : Final(v)
<1>1. /\ Open(w) /\ ~Due(w) /\ p \in attendees
      /\ receipts' = [receipts EXCEPT ![w] = @ \cup {p}]
      /\ UNCHANGED <<meeting, attendees, vote, electors, clock>>
  BY DEF CastVote, Count, people
<1>2. DOMAIN tally' = Votes /\ \A v \in Votes \ {w} : tally'[v] = tally[v]
  BY DEF CastVote, Count, VotesKept
<1>3. DOMAIN receipts' = Votes /\ \A v \in Votes : receipts'[v] \subseteq attendees
  BY <1>1 DEF VotesKept
<1>4. VotesKept'
  BY <1>1, <1>2, <1>3 DEF VotesKept, Open, LiveMeeting
<1> QED
  BY <1>1, <1>2, <1>4 DEF VotesKept, Final, NothingCounted, ClosedStays, Open

LEMMA MeetingSteps ==
  ASSUME VotesKept, [MeetingNext]_meetingVars
  PROVE  /\ VotesKept' /\ \A v \in Votes : Final(v)
         /\ \/ LeavesBallots
            \/ \E v \in Votes : \E kind \in Kinds[v], end \in (clock + 1) .. MaxClock \cup {Never} :
                 CreateVote(v, kind, end)
            \/ \E v \in Votes : \E p \in People, o \in Options : CastVote(v, p, o)
<1>0. vote \in [Votes -> VoteRows] /\ clock \in Moments
  BY DEF VotesKept
<1>1. CASE \E p \in People : RemoveAttendee(p)
  BY <1>1, RemoveAttendeeKeeps
<1>2. CASE \/ \E p \in People : AddAttendee(p) \/ CheckIn(p) \/ EditStanding(p)
           \/ StartMeeting \/ ListDueVotes \/ JobFails \/ Tick \/ UNCHANGED meetingVars
  <2>1. /\ vote' = vote /\ UNCHANGED <<electors, receipts, tally>>
        /\ clock' = clock \/ (clock' = clock + 1 /\ clock < MaxClock)
        /\ attendees \subseteq attendees' /\ (LiveMeeting => LiveMeeting')
    BY <1>0, <1>2 DEF AddAttendee, CheckIn, EditStanding, StartMeeting, ListDueVotes, JobFails,
                      Tick, meetingVars, polls, people, LiveMeeting
  <2>2. clock' \in Moments
    BY <1>0, <2>1, MeetingAssumption DEF Moments
  <2> QED
    BY <2>1, <2>2, SameVotes, StillFinal
<1>3. CASE EndMeeting \/ CancelMeeting
  <2>1. AllClosed /\ UNCHANGED <<electors, receipts, tally, attendees, clock>>
    BY <1>3 DEF EndMeeting, CancelMeeting
  <2> QED
    BY <1>0, <2>1, AllClosedCloses, StillFinal
<1>4. CASE DeleteMeeting
  <2>1. vote' = vote /\ UNCHANGED <<electors, receipts, tally, attendees, clock>>
    BY <1>4 DEF DeleteMeeting, polls
  <2>2. \A v \in Votes : vote'[v].status # "open"
    BY <1>4 DEF DeleteMeeting, polls, NoVote
  <2> QED
    BY <1>0, <2>1, <2>2, SameVotes, StillFinal
<1>5. CASE \E v \in Votes : CloseVote(v) \/ ViewVote(v)
  <2>1. PICK v \in Votes : CloseVote(v) \/ ViewVote(v)
    BY <1>5
  <2>2. Open(v) /\ UNCHANGED <<electors, receipts, tally, attendees, clock, meeting>>
    BY <2>1 DEF CloseVote, ViewVote, people
  <2>3. CASE CloseVote(v)
    <3>1. vote[v] \in VoteRows
      BY <1>0
    <3>2. [vote[v] EXCEPT !.status = "closed", !.end = clock]
            = [status |-> "closed", end |-> clock, kind |-> vote[v].kind]
      BY <1>0, <3>1, RowClosed
    <3>3. vote' = [vote EXCEPT ![v] = [vote[v] EXCEPT !.status = "closed", !.end = clock]]
      BY <1>0, <2>3 DEF CloseVote
    <3>4. OnlyCloses
      BY <1>0, <2>2, <3>2, <3>3, VoteClosed
    <3> QED
      BY <1>0, <2>2, <3>4, StillFinal DEF LiveMeeting
  <2>4. CASE ViewVote(v)
    <3>1. OnlyCloses
      BY <1>0, <2>2, <2>4, StatusClosed DEF ViewVote
    <3> QED
      BY <1>0, <2>2, <3>1, StillFinal DEF LiveMeeting
  <2> QED
    BY <2>1, <2>3, <2>4
<1>6. CASE CloseExpiredVote
  <2>1. OnlyCloses
    BY <1>0, <1>6, SameVotes, StatusClosed DEF CloseExpiredVote
  <2>2. UNCHANGED <<electors, receipts, tally, attendees, clock, meeting>>
    BY <1>6 DEF CloseExpiredVote, people
  <2> QED
    BY <1>0, <2>1, <2>2, StillFinal DEF LiveMeeting
<1>7. CASE \E v \in Votes : \E kind \in Kinds[v], end \in (clock + 1) .. MaxClock \cup {Never} :
             CreateVote(v, kind, end)
  BY <1>7, CreateVoteKeeps
<1>8. CASE \E v \in Votes : \E p \in People, o \in Options : CastVote(v, p, o)
  BY <1>8, CastVoteKeeps
<1> QED
  BY <1>1, <1>2, <1>3, <1>4, <1>5, <1>6, <1>7, <1>8 DEF MeetingNext

\* What the ballots of a vote and its result have in common.
TallyKept(v) ==
  /\ DOMAIN electors[v] \subseteq People /\ \A p \in DOMAIN electors[v] : electors[v][p] \in Nat
  /\ tally[v] \in [Options -> [count : Nat, weight : Nat]]
  /\ receipts[v] \subseteq DOMAIN electors[v] /\ (vote[v].status = "none" => receipts[v] = {})
  /\ SumFunctionOnSet(Counts(v), Options) = Cardinality(receipts[v])
  /\ SumFunctionOnSet(Weights(v), Options) =
       IF vote[v].kind = "anonymous" THEN Cardinality(receipts[v])
       ELSE SumFunctionOnSet(electors[v], receipts[v])

\* The rows of the meeting have their types, and each result is that of its ballots.
PeopleTyped ==
  /\ meeting \in {"pending", "ongoing", "ended", "cancelled", "gone"}
  /\ attended \subseteq attendees /\ attendees \subseteq People
  /\ standing \in [People -> [active : BOOLEAN, weight : Nat]] /\ due \in Seq(Votes)
MeetingInv == VotesKept /\ PeopleTyped /\ \A v \in Votes : TallyKept(v)

\* Of nobody's ballots every sum is nothing.
LEMMA NothingCast ==
  ASSUME NEW f, \A o \in Options : f[o] = 0
  PROVE  SumFunctionOnSet(f, Options) = 0
<1>1. PICK e : e = [o \in Options |-> 0]
  OBVIOUS
<1> DEFINE Bad == {n \in Nat : \E S \in SUBSET Options :
                     Cardinality(S) = n /\ SumFunctionOnSet(e, S) # 0}
<1>2. SUFFICES Bad = {}
  <2>1. IsFiniteSet(Options) /\ Cardinality(Options) \in Nat
    BY MeetingAssumption, FS_CardinalityType
  <2>2. ASSUME Bad = {} PROVE SumFunctionOnSet(e, Options) = 0
    BY <2>1, <2>2
  <2>3. SumFunctionOnSet(f, Options) = SumFunctionOnSet(e, Options)
    <3>1. \A o \in Options : f[o] = e[o] /\ e[o] \in Nat
      BY <1>1
    <3> QED
      BY <2>1, <3>1, SumAgrees
  <2> QED
    BY <2>2, <2>3
<1>3. SUFFICES ASSUME Bad # {} PROVE FALSE
  OBVIOUS
<1>4. PICK n \in Bad : \A k \in Bad : n <= k
  <2>1. Bad \in SUBSET Nat
    OBVIOUS
  <2> HIDE DEF Bad
  <2> QED
    BY <1>3, <2>1, LeastNumber
<1>5. PICK S \in SUBSET Options : Cardinality(S) = n /\ SumFunctionOnSet(e, S) # 0
  OBVIOUS
<1>6. IsFiniteSet(S)
  BY MeetingAssumption, FS_Subset
<1>7. PICK y : y \in S
  BY <1>5, SumOfNone
<1>8. PICK R : R = S \ {y}
  OBVIOUS
<1>9. SumFunctionOnSet(e, S) = e[y] + SumFunctionOnSet(e, R)
  <2>1. \A x \in S : e[x] \in Nat
    BY <1>1
  <2> QED
    BY <1>6, <1>7, <1>8, <2>1, SumOfMore
<1>10. e[y] = 0
  BY <1>1, <1>7
<1>11. Cardinality(R) = n - 1 /\ n - 1 \in Nat
  <2>1. IsFiniteSet(R) /\ Cardinality(R) \in Nat
    BY <1>6, <1>8, FS_Subset, FS_CardinalityType
  <2>2. Cardinality(R) = Cardinality(S) - 1
    BY <1>6, <1>7, <1>8, FS_RemoveElement
  <2> QED
    BY <1>5, <2>1, <2>2
<1>12. SumFunctionOnSet(e, R) # 0
  BY <1>5, <1>9, <1>10
<1>13. n - 1 \in Bad
  BY <1>8, <1>11, <1>12
<1>14. n \in Nat
  OBVIOUS
<1> HIDE DEF Bad
<1> QED
  BY <1>4, <1>11, <1>13, <1>14

\* A vote whose ballots are not touched.
LEMMA SameTally ==
  ASSUME NEW v \in Votes, TallyKept(v), electors'[v] = electors[v], receipts'[v] = receipts[v],
         tally'[v] = tally[v], vote'[v].status = "none" => vote[v].status = "none",
         vote'[v].kind = vote[v].kind
  PROVE  TallyKept(v)'
BY DEF TallyKept, Counts, Weights

LEMMA QuietTally ==
  ASSUME LeavesBallots, \A v \in Votes : TallyKept(v)
  PROVE  \A v \in Votes : TallyKept(v)'
<1> SUFFICES ASSUME NEW v \in Votes PROVE TallyKept(v)'
  OBVIOUS
<1>1. /\ electors'[v] = electors[v] /\ receipts'[v] = receipts[v] /\ tally'[v] = tally[v]
      /\ vote'[v].kind = vote[v].kind /\ (vote'[v].status = "none" => vote[v].status = "none")
  BY DEF LeavesBallots, OnlyCloses
<1> QED
  BY <1>1, SameTally

\* openVote: the electorate of a vote nobody has voted in.
LEMMA CreateVoteTally ==
  ASSUME MeetingInv, NEW w \in Votes, NEW kind \in Kinds[w],
         NEW end \in (clock + 1) .. MaxClock \cup {Never}, CreateVote(w, kind, end)
  PROVE  \A v \in Votes : TallyKept(v)'
<1>1. /\ vote[w] = NoVote /\ receipts' = receipts /\ tally' = tally
      /\ vote' = [vote EXCEPT ![w] = [status |-> "open", end |-> end, kind |-> kind]]
      /\ electors' = [electors EXCEPT ![w] = Electorate(kind)]
  BY DEF CreateVote
<1>2. /\ vote \in [Votes -> VoteRows] /\ DOMAIN electors = Votes
      /\ \A v \in Votes : TallyKept(v)
  BY DEF MeetingInv, VotesKept
<1>3. ASSUME NEW v \in Votes, v # w PROVE TallyKept(v)'
  <2>1. electors'[v] = electors[v] /\ vote'[v] = vote[v]
    BY <1>1, <1>2, <1>3
  <2> QED
    BY <1>1, <1>2, <2>1, SameTally
<1>4. TallyKept(w)'
  <2>1. /\ vote'[w] = [status |-> "open", end |-> end, kind |-> kind]
        /\ electors'[w] = Electorate(kind)
    BY <1>1, <1>2
  <2>2. receipts[w] = {}
    BY <1>1, <1>2 DEF TallyKept, NoVote
  <2>3. /\ DOMAIN Electorate(kind) \subseteq People
        /\ \A p \in DOMAIN Electorate(kind) : Electorate(kind)[p] \in Nat
    BY DEF Electorate, WeightOf, MeetingInv, PeopleTyped
  <2>4. Cardinality({}) = 0 /\ \A f : SumFunctionOnSet(f, {}) = 0
    BY FS_EmptySet, SumOfNone
  <2>5. /\ tally[w] \in [Options -> [count : Nat, weight : Nat]]
        /\ SumFunctionOnSet(Counts(w), Options) = 0 /\ SumFunctionOnSet(Weights(w), Options) = 0
    BY <1>2, <2>2, <2>4 DEF TallyKept
  <2>6. Counts(w)' = Counts(w) /\ Weights(w)' = Weights(w)
    BY <1>1 DEF Counts, Weights
  <2> QED
    BY <1>1, <2>1, <2>2, <2>3, <2>4, <2>5, <2>6 DEF TallyKept
<1> QED
  BY <1>3, <1>4

\* castVote: one ballot more, with the weight that was frozen.
LEMMA CastVoteTally ==
  ASSUME MeetingInv, NEW w \in Votes, NEW p \in People, NEW o \in Options, CastVote(w, p, o)
  PROVE  \A v \in Votes : TallyKept(v)'
<1>1. PICK k : k = IF vote[w].kind = "anonymous" THEN 1 ELSE electors[w][p]
  OBVIOUS
<1>2. PICK row : row = [count |-> tally[w][o].count + 1, weight |-> tally[w][o].weight + k]
  OBVIOUS
<1>3. /\ p \in DOMAIN electors[w] \ receipts[w] /\ Open(w)
      /\ vote' = vote /\ electors' = electors
      /\ receipts' = [receipts EXCEPT ![w] = receipts[w] \cup {p}]
      /\ tally' = [tally EXCEPT ![w][o] = row]
  BY <1>1, <1>2 DEF CastVote, Count
<1>4. /\ DOMAIN receipts = Votes /\ DOMAIN tally = Votes /\ \A v \in Votes : TallyKept(v)
  BY DEF MeetingInv, VotesKept
<1>5. ASSUME NEW v \in Votes, v # w PROVE TallyKept(v)'
  <2>1. receipts'[v] = receipts[v] /\ tally'[v] = tally[v]
    BY <1>3, <1>4, <1>5
  <2> QED
    BY <1>3, <1>4, <2>1, SameTally
<1>6. TallyKept(w)'
  <2>1. /\ DOMAIN electors[w] \subseteq People /\ receipts[w] \subseteq DOMAIN electors[w]
        /\ \A q \in DOMAIN electors[w] : electors[w][q] \in Nat
        /\ tally[w] \in [Options -> [count : Nat, weight : Nat]]
        /\ SumFunctionOnSet(Counts(w), Options) = Cardinality(receipts[w])
        /\ SumFunctionOnSet(Weights(w), Options) =
             IF vote[w].kind = "anonymous" THEN Cardinality(receipts[w])
             ELSE SumFunctionOnSet(electors[w], receipts[w])
    BY <1>4 DEF TallyKept
  <2>2. PICK R : R = receipts[w] \cup {p}
    OBVIOUS
  <2>3. receipts'[w] = R /\ tally'[w] = [tally[w] EXCEPT ![o] = row]
    BY <1>3, <1>4, <2>2
  <2>4. k \in Nat /\ row \in [count : Nat, weight : Nat]
    BY <1>1, <1>2, <1>3, <2>1
  <2>5. IsFiniteSet(R) /\ IsFiniteSet(receipts[w]) /\ p \notin receipts[w]
    <3>1. R \subseteq People
      BY <2>1, <2>2
    <3> QED
      BY <1>3, <2>2, <3>1, MeetingAssumption, FS_Subset
  <2>6. Cardinality(R) = Cardinality(receipts[w]) + 1 /\ Cardinality(receipts[w]) \in Nat
    BY <2>2, <2>5, FS_AddElement, FS_CardinalityType
  <2>7. SumFunctionOnSet(electors[w], R)
          = electors[w][p] + SumFunctionOnSet(electors[w], receipts[w])
    <3>1. \A q \in R : electors[w][q] \in Nat
      BY <1>3, <2>1, <2>2
    <3>2. R \ {p} = receipts[w] /\ p \in R
      BY <2>2, <2>5
    <3> QED
      BY <2>5, <3>1, <3>2, SumOfMore
  <2>8. SumFunctionOnSet(Counts(w)', Options) = SumFunctionOnSet(Counts(w), Options) + 1
    <3>1. PICK f : f = Counts(w)
      OBVIOUS
    <3>2. PICK e : e = Counts(w)'
      OBVIOUS
    <3>3. /\ \A x \in Options : f[x] = tally[w][x].count /\ f[x] \in Nat
          /\ \A x \in Options : e[x] = tally'[w][x].count
      BY <2>1, <3>1, <3>2 DEF Counts
    <3>4. e[o] = f[o] + 1 /\ \A x \in Options \ {o} : e[x] = f[x]
      BY <1>2, <2>1, <2>3, <3>3
    <3>5. IsFiniteSet(Options) /\ 1 \in Nat
      BY MeetingAssumption
    <3>6. SumFunctionOnSet(e, Options) = SumFunctionOnSet(f, Options) + 1
      BY <3>3, <3>4, <3>5, SumGrows
    <3> QED
      BY <3>1, <3>2, <3>6
  <2>9. SumFunctionOnSet(Weights(w)', Options) = SumFunctionOnSet(Weights(w), Options) + k
    <3>1. PICK f : f = Weights(w)
      OBVIOUS
    <3>2. PICK e : e = Weights(w)'
      OBVIOUS
    <3>3. /\ \A x \in Options : f[x] = tally[w][x].weight /\ f[x] \in Nat
          /\ \A x \in Options : e[x] = tally'[w][x].weight
      BY <2>1, <3>1, <3>2 DEF Weights
    <3>4. e[o] = f[o] + k /\ \A x \in Options \ {o} : e[x] = f[x]
      BY <1>2, <2>1, <2>3, <3>3
    <3>5. IsFiniteSet(Options)
      BY MeetingAssumption
    <3>6. SumFunctionOnSet(e, Options) = SumFunctionOnSet(f, Options) + k
      BY <2>4, <3>3, <3>4, <3>5, SumGrows
    <3> QED
      BY <3>1, <3>2, <3>6
  <2>10. SumFunctionOnSet(electors[w], receipts[w]) \in Nat
    <3>1. \A q \in receipts[w] : electors[w][q] \in Nat
      BY <2>1
    <3>2. CASE receipts[w] = {}
      BY <3>2, SumOfNone
    <3>3. CASE receipts[w] # {}
      BY <2>5, <3>1, <3>3, SumOfMore
    <3> QED
      BY <3>2, <3>3
  <2>11. SumFunctionOnSet(Counts(w)', Options) = Cardinality(R)
    BY <2>1, <2>6, <2>8
  <2>12. SumFunctionOnSet(Weights(w)', Options) =
           IF vote[w].kind = "anonymous" THEN Cardinality(R)
           ELSE SumFunctionOnSet(electors[w], R)
    <3>1. electors[w][p] \in Nat
      BY <1>3, <2>1
    <3> QED
      BY <1>1, <2>1, <2>6, <2>7, <2>9, <2>10, <3>1
  <2>13. tally'[w] \in [Options -> [count : Nat, weight : Nat]]
    BY <2>1, <2>3, <2>4
  <2>14. R \subseteq DOMAIN electors[w] /\ vote[w].status # "none"
    BY <1>3, <2>1, <2>2 DEF Open
  <2> QED
    BY <1>3, <2>1, <2>3, <2>11, <2>12, <2>13, <2>14 DEF TallyKept
<1> QED
  BY <1>5, <1>6

\* The rest keeps its types.
LEMMA PeopleStayTyped ==
  ASSUME VotesKept, PeopleTyped, [MeetingNext]_meetingVars
  PROVE  PeopleTyped'
<1>1. CASE \E p \in People : AddAttendee(p) \/ RemoveAttendee(p) \/ CheckIn(p)
  BY <1>1 DEF PeopleTyped, AddAttendee, RemoveAttendee, CheckIn, job
<1>2. CASE \E p \in People : EditStanding(p)
  <2>1. PICK p \in People, s \in [active : BOOLEAN, weight : 0..MaxWeight] :
          standing' = [standing EXCEPT ![p] = s] /\ EditStanding(p)
    BY <1>2 DEF EditStanding
  <2>2. s \in [active : BOOLEAN, weight : Nat]
    BY MeetingAssumption
  <2>3. standing' \in [People -> [active : BOOLEAN, weight : Nat]]
    BY <2>1, <2>2 DEF PeopleTyped
  <2> QED
    BY <2>1, <2>3 DEF PeopleTyped, EditStanding, job
<1>3. CASE StartMeeting \/ EndMeeting \/ CancelMeeting \/ DeleteMeeting
  BY <1>3 DEF PeopleTyped, StartMeeting, EndMeeting, CancelMeeting, DeleteMeeting, job
<1>4. CASE \E v \in Votes :
             \/ CloseVote(v) \/ ViewVote(v)
             \/ \E kind \in Kinds[v], end \in (clock + 1) .. MaxClock \cup {Never} : CreateVote(v, kind, end)
             \/ \E p \in People, o \in Options : CastVote(v, p, o)
  BY <1>4 DEF PeopleTyped, CloseVote, ViewVote, CreateVote, CastVote, Count, people, job
<1>5. CASE ListDueVotes
  <2>1. PICK s \in [1..Cardinality(DueVotes) -> DueVotes] : due' = s
    BY <1>5 DEF ListDueVotes
  <2>2. DueVotes \subseteq Votes /\ IsFiniteSet(DueVotes)
    BY MeetingAssumption, FS_Subset DEF DueVotes
  <2>3. Cardinality(DueVotes) \in Nat /\ s \in [1..Cardinality(DueVotes) -> Votes]
    BY <2>2, FS_CardinalityType
  <2>4. due' \in Seq(Votes)
    BY <2>1, <2>3
  <2> QED
    BY <1>5, <2>4 DEF ListDueVotes, PeopleTyped, people
<1>6. CASE CloseExpiredVote \/ JobFails
  <2>1. due' \in Seq(Votes)
    <3>1. due \in Seq(Votes)
      BY DEF PeopleTyped
    <3>2. CASE due # <<>> /\ due' = Tail(due)
      BY <3>1, <3>2
    <3>3. CASE due' = <<>>
      BY <3>3, EmptySeq
    <3> QED
      BY <1>6, <3>2, <3>3 DEF CloseExpiredVote, JobFails
  <2> QED
    BY <1>6, <2>1 DEF CloseExpiredVote, JobFails, PeopleTyped, people
<1>7. CASE Tick \/ UNCHANGED meetingVars
  BY <1>7 DEF PeopleTyped, Tick, meetingVars, people, job
<1> QED
  BY <1>1, <1>2, <1>3, <1>4, <1>5, <1>6, <1>7 DEF MeetingNext

\* Nothing is counted once a vote is closed or its end has passed, and a closed vote stays
\* closed, whoever closes it: the chairman, whoever looks at it too late, the end of the
\* meeting or the job (closeVote, ensureExpiredClosed, closeMeetingVotes).
THEOREM ResultsStand == MeetingSpec => ResultIsFinal
<1>1. VotesKept /\ [MeetingNext]_meetingVars =>
        VotesKept' /\ [\A v \in Votes :
          vote[v].status = "closed" \/ (Open(v) /\ Due(v)) =>
            /\ tally'[v] = tally[v] /\ receipts'[v] = receipts[v]
            /\ vote[v].status = "closed" => vote'[v] = vote[v]]_meetingVars
  BY MeetingSteps DEF Final, NothingCounted, ClosedStays
<1> QED
  BY <1>1, MeetingStarts, PTL DEF MeetingSpec, ResultIsFinal

\* The result of a vote is, at every moment, that of the ballots of people who were entitled
\* when it was opened, each counted once and with the weight of that moment; they stay on the
\* list of the meeting, and no vote is open when the meeting is over (castVote, AddAttendees,
\* RemoveAttendee, EndMeeting, CancelMeeting).
THEOREM ResultIsOfTheElectorate == MeetingSpec => []ElectorateIsFrozen
<1>1. MeetingInit => MeetingInv
  <2> SUFFICES ASSUME MeetingInit PROVE MeetingInv
    OBVIOUS
  <2>1. VotesKept
    BY MeetingStarts
  <2>2. PeopleTyped
    BY MeetingAssumption, EmptySeq DEF MeetingInit, PeopleTyped
  <2>3. ASSUME NEW v \in Votes PROVE TallyKept(v)
    <3>1. /\ electors[v] = <<>> /\ receipts[v] = {} /\ vote[v] = NoVote
          /\ tally[v] = [o \in Options |-> [count |-> 0, weight |-> 0]]
      BY DEF MeetingInit, NoBallots
    <3>2. (\A o \in Options : Counts(v)[o] = 0) /\ \A o \in Options : Weights(v)[o] = 0
      BY <3>1 DEF Counts, Weights
    <3>3. SumFunctionOnSet(Counts(v), Options) = 0 /\ SumFunctionOnSet(Weights(v), Options) = 0
      BY <3>2, NothingCast
    <3>4. Cardinality({}) = 0 /\ SumFunctionOnSet(electors[v], {}) = 0
      BY FS_EmptySet, SumOfNone
    <3>5. DOMAIN electors[v] = {}
      BY <3>1
    <3> QED
      BY <3>1, <3>3, <3>4, <3>5 DEF TallyKept
  <2> QED
    BY <2>1, <2>2, <2>3 DEF MeetingInv
<1>2. MeetingInv /\ [MeetingNext]_meetingVars => MeetingInv'
  <2> SUFFICES ASSUME MeetingInv, [MeetingNext]_meetingVars PROVE MeetingInv'
    OBVIOUS
  <2>1. VotesKept' /\ PeopleTyped'
    BY MeetingSteps, PeopleStayTyped DEF MeetingInv
  <2>2. \A v \in Votes : TallyKept(v)'
    BY MeetingSteps, QuietTally, CreateVoteTally, CastVoteTally DEF MeetingInv
  <2> QED
    BY <2>1, <2>2 DEF MeetingInv
<1>3. MeetingInv => ElectorateIsFrozen
  <2> SUFFICES ASSUME MeetingInv PROVE ElectorateIsFrozen
    OBVIOUS
  <2>1. ElectorsStayInvited /\ OpenVoteHasLiveMeeting
    BY DEF MeetingInv, VotesKept, ElectorsStayInvited, OpenVoteHasLiveMeeting
  <2>2. TallyIsOfElectors
    BY DEF MeetingInv, TallyKept, TallyIsOfElectors
  <2>3. MeetingTypeOK
    <3>1. \A v \in Votes : vote[v] \in VoteRows
      BY DEF MeetingInv, VotesKept
    <3>2. \A v \in Votes : receipts[v] \subseteq People
      BY DEF MeetingInv, TallyKept
    <3> QED
      BY <3>1, <3>2 DEF MeetingInv, VotesKept, PeopleTyped, TallyKept, MeetingTypeOK, VoteRows, Moments
  <2> QED
    BY <2>1, <2>2, <2>3 DEF ElectorateIsFrozen
<1> QED
  BY <1>1, <1>2, <1>3, PTL DEF MeetingSpec

-----------------------------------------------------------------------------
(***************************************************************************)
(* The keys of the permission cache.                                       *)
(***************************************************************************)

Listed == [user : Accounts, revision : Nat]
Loads == [user : Accounts \cup {Absent}, todo : SUBSET Keys, key : Keys \cup {Absent},
          got : Nat \cup {Absent}]
Offices == {Quiet, "perms", "super", "list", "count", "pipe"}
Sweeps == {Quiet, "perms", "super", "complete"}

\* What a key or a request holds was true once.
Held(c, t) == \A x \in Entries : c[x] # Absent => c[x] <= t[x[1]]
LoadFits(load, t) ==
  /\ load.todo # {} => load.user \in Accounts
  /\ load.key # Absent =>
       load.key \in load.todo /\ load.got \in Nat /\ load.got <= t[load.user]

DatabaseFits ==
  /\ changes \in Nat /\ truth \in [Accounts -> Nat] /\ \A u \in Accounts : truth[u] <= changes
  /\ members \subseteq Accounts /\ (members # {} => role)
CacheFits == cached \in [Entries -> Nat \cup {Absent}] /\ Held(cached, truth)
ReadersFit == reader \in [Readers -> Loads] /\ \A r \in Readers : LoadFits(reader[r], truth)
EditorsFit ==
  /\ editor \in [Editors -> [at : Offices, owed : SUBSET Accounts]]
  /\ \A e \in Editors : editor[e].at \in {Quiet, "count"} => editor[e].owed = {}

\* A row that a DEL came after is swept: what was queued before it needs no other.
OutboxFits ==
  /\ outbox \in [Accounts -> Nat] /\ queuedAt \in [Accounts -> Nat] /\ sweptAt \in [Accounts -> Nat]
  /\ \A u \in Accounts :
       outbox[u] \in {0, queuedAt[u]} /\ queuedAt[u] <= truth[u] /\ sweptAt[u] <= truth[u]
  /\ QueuedChangeIsSwept
RowsFit(run, t, sw) ==
  /\ run.at = Quiet <=> run.rows = <<>>
  /\ \A i \in 1 .. Len(run.rows) : run.rows[i].revision <= t[run.rows[i].user]
  /\ run.at \in {"super", "complete"} => run.rows[1].revision <= sw[run.rows[1].user]
WorkersFit ==
  /\ worker \in [Workers -> [at : Sweeps, rows : Seq(Listed)]]
  /\ \A w \in Workers : RowsFit(worker[w], truth, sweptAt)

LostIsStale == failed \cup overtaken \subseteq {x \in Entries : Stale(x)}

\* An administrator's DEL that is still to come for this key: the list of members is
\* read again first.
Covers(e, x) ==
  /\ x[1] \in editor[e].owed
  /\ editor[e].at = "list" => x[1] \in members
  /\ editor[e].at = "super" => x[2] = "super"
Excused(x) == x \in failed \cup overtaken \/ \E e \in Editors : Covers(e, x)

\* The worker that is about to delete the row has had its DEL of the key.
Swept(w, x) ==
  /\ worker[w].at \in {"super", "complete"}
  /\ worker[w].rows[1].user = x[1] /\ worker[w].rows[1].revision = outbox[x[1]]
  /\ x[2] = "perms" \/ worker[w].at = "complete"
Queued(x) == outbox[x[1]] # 0 /\ \A w \in Workers : ~Swept(w, x)

StaleIsExplained == \A x \in Entries : Stale(x) => Excused(x) \/ Queued(x)

CacheInv ==
  /\ DatabaseFits /\ CacheFits /\ ReadersFit /\ EditorsFit /\ OutboxFits /\ WorkersFit
  /\ LostIsStale /\ StaleIsExplained

LEMMA EntryParts == \A x \in Entries : x[1] \in Accounts /\ x[2] \in Keys
BY DEF Entries

LEMMA CacheStarts == CacheInit => CacheInv
<1> SUFFICES ASSUME CacheInit PROVE CacheInv  OBVIOUS
<1>1. DatabaseFits  BY DEF CacheInit, DatabaseFits
<1>2. CacheFits  BY DEF CacheInit, CacheFits, Held
<1>3. ReadersFit  BY DEF CacheInit, ReadersFit, LoadFits, Loads, NoLoad
<1>4. EditorsFit  BY DEF CacheInit, EditorsFit, AtRest, Offices
<1>5. OutboxFits  BY DEF CacheInit, OutboxFits, QueuedChangeIsSwept
<1>6. WorkersFit
  <2>1. <<>> \in Seq(Listed) /\ Len(<<>>) = 0  BY EmptySeq
  <2> QED  BY <2>1 DEF CacheInit, WorkersFit, RowsFit, NoRows, Sweeps, Quiet
<1>7. LostIsStale /\ StaleIsExplained
  BY DEF CacheInit, LostIsStale, StaleIsExplained, Stale
<1> QED  BY <1>1, <1>2, <1>3, <1>4, <1>5, <1>6, <1>7 DEF CacheInv

\* A change makes what is cached older, and nothing else.
LEMMA Touched ==
  ASSUME CacheInv, NEW U, U \subseteq Accounts, Touch(U)
  PROVE  /\ changes' \in Nat /\ truth' \in [Accounts -> Nat]
         /\ \A u \in Accounts : truth'[u] <= changes' /\ truth[u] <= truth'[u]
         /\ \A u \in Accounts : truth[u] <= changes
         /\ \A u \in Accounts : u \in U => truth'[u] = changes + 1
         /\ \A u \in Accounts : u \notin U => truth'[u] = truth[u]
BY CacheAssumption DEF CacheInv, DatabaseFits, Touch, CacheAssumption

\* What was fitting before a change still is after it.
LEMMA TouchedFits ==
  ASSUME CacheInv, NEW U, U \subseteq Accounts, Touch(U), UNCHANGED <<cached, reader, worker, sweptAt>>
  PROVE  /\ CacheFits' /\ ReadersFit' /\ WorkersFit'
         /\ \A x \in Entries : Stale(x) => Stale(x)'
         /\ \A x \in Entries : Stale(x)' => Stale(x) \/ x[1] \in U
<1>1. /\ truth' \in [Accounts -> Nat] /\ truth \in [Accounts -> Nat]
      /\ \A u \in Accounts : truth[u] <= truth'[u]
      /\ \A u \in Accounts : u \notin U => truth'[u] = truth[u]
  BY Touched DEF CacheInv, DatabaseFits
<1>2. CacheFits'  BY <1>1, EntryParts DEF CacheInv, CacheFits, Held
<1>3. ReadersFit'
  <2>1. \A r \in Readers : reader[r] \in Loads  BY DEF CacheInv, ReadersFit
  <2>2. ASSUME NEW r \in Readers PROVE LoadFits(reader[r], truth')
    <3>1. LoadFits(reader[r], truth)  BY DEF CacheInv, ReadersFit
    <3>2. PICK l \in Loads : l = reader[r]  BY <2>1
    <3> QED  BY <1>1, <3>1, <3>2 DEF LoadFits, Loads
  <2> QED  BY <2>2 DEF CacheInv, ReadersFit
<1>4. WorkersFit'
  <2>1. ASSUME NEW w \in Workers PROVE RowsFit(worker[w], truth', sweptAt)
    <3>1. RowsFit(worker[w], truth, sweptAt) /\ worker[w].rows \in Seq(Listed)
      BY DEF CacheInv, WorkersFit
    <3>2. \A i \in 1 .. Len(worker[w].rows) : worker[w].rows[i] \in Listed
      BY <3>1, ElementOfSeq
    <3>3. ASSUME NEW i \in 1 .. Len(worker[w].rows)
          PROVE  worker[w].rows[i].revision <= truth'[worker[w].rows[i].user]
      <4>1. PICK y \in Listed : y = worker[w].rows[i]  BY <3>2
      <4> QED  BY <1>1, <3>1, <4>1 DEF RowsFit, Listed
    <3> QED  BY <3>1, <3>3 DEF RowsFit
  <2> QED  BY <2>1 DEF CacheInv, WorkersFit
<1>5. \A x \in Entries : Stale(x) => Stale(x)'
  BY <1>1, EntryParts DEF Stale, CacheInv, CacheFits
<1>6. \A x \in Entries : Stale(x)' => Stale(x) \/ x[1] \in U
  BY <1>1, EntryParts DEF Stale
<1> QED  BY <1>2, <1>3, <1>4, <1>5, <1>6

\* Steps that change nothing in the database or the queue.
LEMMA StoreStep ==
  ASSUME CacheInv, UNCHANGED database, UNCHANGED refresh,
         CacheFits', ReadersFit', EditorsFit', LostIsStale',
         \A x \in Entries : Stale(x)' => Excused(x)' \/ (Stale(x) /\ ~Excused(x))
  PROVE  CacheInv'
<1>1. DatabaseFits' /\ OutboxFits' /\ WorkersFit'
  BY DEF CacheInv, DatabaseFits, OutboxFits, WorkersFit, QueuedChangeIsSwept, database, refresh
<1>2. StaleIsExplained'
  BY DEF CacheInv, StaleIsExplained, Queued, Swept, refresh
<1> QED  BY <1>1, <1>2 DEF CacheInv


\* A step of a request that fills nothing.
LEMMA ReaderStep ==
  ASSUME CacheInv, NEW r \in Readers, NEW l \in Loads, LoadFits(l, truth),
         reader' = [reader EXCEPT ![r] = l],
         UNCHANGED database, UNCHANGED refresh, UNCHANGED store, editor' = editor
  PROVE  CacheInv'
<1>1. reader \in [Readers -> Loads] /\ \A q \in Readers : LoadFits(reader[q], truth)
  BY DEF CacheInv, ReadersFit
<1>2. reader' \in [Readers -> Loads] /\ \A q \in Readers : LoadFits(reader'[q], truth)  BY <1>1
<1>3. ReadersFit'  BY <1>2 DEF ReadersFit, database
<1>4. CacheFits' /\ EditorsFit' /\ LostIsStale'
  BY DEF CacheInv, CacheFits, EditorsFit, LostIsStale, Stale, store, database
<1>5. \A x \in Entries : Stale(x)' => Excused(x)' \/ (Stale(x) /\ ~Excused(x))
  BY DEF Stale, Excused, Covers, store, database
<1> QED  BY <1>3, <1>4, <1>5, StoreStep

LEMMA LookUpKeeps ==
  ASSUME CacheInv, NEW r \in Readers, NEW u \in Accounts, NEW K \in SUBSET Keys, LookUp(r, u, K)
  PROVE  CacheInv'
<1>1. PICK D \in SUBSET Keys : D = Missing(u, K)  BY DEF Missing
<1>2. PICK l \in Loads : l = [user |-> u, todo |-> D, key |-> Absent, got |-> Absent]
  BY DEF Loads
<1>3. LoadFits(l, truth)  BY <1>2 DEF LoadFits
<1> QED  BY <1>1, <1>2, <1>3, ReaderStep DEF LookUp

LEMMA QueryKeeps ==
  ASSUME CacheInv, NEW r \in Readers, Query(r)
  PROVE  CacheInv'
<1>1. /\ reader[r] \in Loads /\ LoadFits(reader[r], truth) /\ reader[r].todo # {}
      /\ truth \in [Accounts -> Nat] /\ reader \in [Readers -> Loads]
  BY DEF Query, CacheInv, ReadersFit, DatabaseFits
<1>2. PICK k : k = IF "perms" \in reader[r].todo THEN "perms" ELSE "super"  OBVIOUS
<1>3. k \in Keys /\ k \in reader[r].todo /\ reader[r].user \in Accounts
  BY <1>1, <1>2 DEF Loads, Keys, LoadFits
<1>4. PICK l : l = [reader[r] EXCEPT !.key = k, !.got = truth[reader[r].user]]  OBVIOUS
<1>5. l \in Loads /\ LoadFits(l, truth)
  <2>1. /\ l \in Loads /\ l.user = reader[r].user /\ l.todo = reader[r].todo /\ l.key = k
        /\ l.got = truth[reader[r].user]
    BY <1>1, <1>3, <1>4 DEF Loads
  <2> QED  BY <1>1, <1>3, <2>1 DEF LoadFits
<1>6. NoLoad \in Loads /\ LoadFits(NoLoad, truth)  BY DEF NoLoad, Loads, LoadFits
<1>7. reader' = [reader EXCEPT ![r] = l] \/ reader' = [reader EXCEPT ![r] = NoLoad]
  <2>1. \/ reader' = [reader EXCEPT ![r].key = k, ![r].got = truth[reader[r].user]]
        \/ reader' = [reader EXCEPT ![r] = NoLoad]
    BY <1>2 DEF Query
  <2> QED  BY <1>1, <1>4, <2>1
<1> QED  BY <1>5, <1>6, <1>7, ReaderStep DEF Query

\* A request stores what it has read; it is no older than it was.
LEMMA FillKeeps ==
  ASSUME CacheInv, NEW r \in Readers, Fill(r)
  PROVE  CacheInv'
<1>1. /\ reader[r] \in Loads /\ LoadFits(reader[r], truth) /\ reader[r].key # Absent
      /\ truth \in [Accounts -> Nat] /\ reader \in [Readers -> Loads]
  BY DEF Fill, CacheInv, ReadersFit, DatabaseFits
<1>2. /\ reader[r].key \in Keys /\ reader[r].user \in Accounts /\ reader[r].got \in Nat
      /\ reader[r].got <= truth[reader[r].user] /\ reader[r].got # Absent
  BY <1>1, CacheAssumption DEF Loads, LoadFits, CacheAssumption
<1>3. PICK l : l = Loaded(reader[r])  OBVIOUS
<1>4. l \in Loads /\ LoadFits(l, truth) /\ reader' = [reader EXCEPT ![r] = l]
  <2>1. CASE l = NoLoad  BY <1>3, <2>1 DEF Fill, NoLoad, Loads, LoadFits
  <2>2. CASE /\ l = [reader[r] EXCEPT !.todo = reader[r].todo \ {reader[r].key}, !.key = Absent,
                                      !.got = Absent]
    <3>1. l \in Loads /\ l.user = reader[r].user /\ l.key = Absent
      BY <1>1, <1>3, <2>2 DEF Loads
    <3>2. LoadFits(l, truth)  BY <1>2, <3>1 DEF LoadFits
    <3> QED  BY <1>3, <3>1, <3>2 DEF Fill
  <2> QED  BY <1>3, <2>1, <2>2 DEF Loaded
<1>5. PICK x \in Entries : x = <<reader[r].user, reader[r].key>>  BY <1>2 DEF Entries
<1>6. x[1] = reader[r].user  BY <1>5
<1>7. UNCHANGED database /\ UNCHANGED refresh /\ editor' = editor /\ truth' = truth
  BY DEF Fill, database
<1>8. CASE UNCHANGED store  BY <1>4, <1>7, <1>8, ReaderStep
<1>9. CASE /\ cached' = [cached EXCEPT ![x] = reader[r].got]
           /\ failed' = failed \ {x}
           /\ overtaken' = IF reader[r].got < truth[x[1]] THEN overtaken \cup {x} ELSE overtaken \ {x}
  <2>1. cached \in [Entries -> Nat \cup {Absent}] /\ Held(cached, truth)
    BY DEF CacheInv, CacheFits
  <2>2. /\ cached' \in [Entries -> Nat \cup {Absent}] /\ cached'[x] = reader[r].got
        /\ \A y \in Entries : y # x => cached'[y] = cached[y]
    BY <1>2, <1>9, <2>1
  <2>3. CacheFits'  BY <1>2, <1>6, <1>7, <2>1, <2>2 DEF CacheFits, Held
  <2>4. ReadersFit'
    <3>1. \A q \in Readers : LoadFits(reader[q], truth)  BY DEF CacheInv, ReadersFit
    <3>2. reader' \in [Readers -> Loads] /\ \A q \in Readers : LoadFits(reader'[q], truth)
      BY <1>1, <1>4, <3>1
    <3> QED  BY <1>7, <3>2 DEF ReadersFit
  <2>5. EditorsFit'  BY <1>7 DEF CacheInv, EditorsFit
  <2>6. \A y \in Entries : y # x => (Stale(y)' <=> Stale(y))  BY <1>7, <2>2 DEF Stale
  <2>7. Stale(x)' <=> reader[r].got < truth[x[1]]  BY <1>2, <1>7, <2>2 DEF Stale
  <2>8. LostIsStale'
    <3>1. \A y \in failed' \cup overtaken' : y \in Entries /\ (y # x => y \in failed \cup overtaken)
      BY <1>9 DEF CacheInv, LostIsStale
    <3>2. x \in failed' \cup overtaken' => Stale(x)'  BY <1>9, <2>7
    <3> QED  BY <2>6, <3>1, <3>2 DEF CacheInv, LostIsStale
  <2>9. \A y \in Entries : Stale(y)' => Excused(y)' \/ (Stale(y) /\ ~Excused(y))
    <3>1. \A y \in Entries : y # x => (Excused(y)' <=> Excused(y))
      BY <1>7, <1>9 DEF Excused, Covers, database
    <3>2. Stale(x)' => x \in overtaken'  BY <1>9, <2>7
    <3> QED  BY <2>6, <3>1, <3>2 DEF Excused
  <2> QED  BY <1>7, <2>3, <2>4, <2>5, <2>8, <2>9, StoreStep
<1> QED  BY <1>5, <1>8, <1>9 DEF Fill

\* Keys are removed, or known to stay, by somebody who owes their DEL.
LEMMA RemovalStep ==
  ASSUME CacheInv, UNCHANGED database, UNCHANGED refresh, reader' = reader, EditorsFit',
         cached' \in [Entries -> Nat \cup {Absent}],
         \A x \in Entries : cached'[x] \in {cached[x], Absent},
         LostIsStale',
         \A x \in Entries : Stale(x)' =>
           \/ x \in failed' \cup overtaken'
           \/ x \notin failed \cup overtaken /\ \A e \in Editors : Covers(e, x) => Covers(e, x)'
  PROVE  CacheInv'
<1>1. CacheFits' /\ ReadersFit'
  BY DEF CacheInv, CacheFits, Held, ReadersFit, database
<1>2. \A x \in Entries : Stale(x)' => Stale(x)
  BY DEF Stale, database
<1>3. \A x \in Entries : Stale(x)' => Excused(x)' \/ (Stale(x) /\ ~Excused(x))
  BY <1>2 DEF Excused
<1> QED  BY <1>1, <1>3, StoreStep

\* What a removal does to the keys.
LEMMA RemovedKeys ==
  ASSUME CacheInv, NEW X, Removed(X), UNCHANGED database
  PROVE  /\ cached' \in [Entries -> Nat \cup {Absent}]
         /\ \A x \in Entries : cached'[x] \in {cached[x], Absent}
         /\ \A x \in Entries : Stale(x)' <=> Stale(x) /\ x \notin X
         /\ failed' = failed \ X /\ overtaken' = overtaken \ X /\ LostIsStale'
<1>1. cached \in [Entries -> Nat \cup {Absent}]  BY DEF CacheInv, CacheFits
<1>2. /\ cached' \in [Entries -> Nat \cup {Absent}] /\ failed' = failed \ X /\ overtaken' = overtaken \ X
      /\ \A x \in Entries : cached'[x] = IF x \in X THEN Absent ELSE cached[x]
  BY <1>1 DEF Removed
<1>3. \A x \in Entries : Stale(x)' <=> Stale(x) /\ x \notin X
  BY <1>2 DEF Stale, database
<1> QED  BY <1>2, <1>3 DEF CacheInv, LostIsStale

LEMMA LostKeys ==
  ASSUME CacheInv, NEW X \in SUBSET Entries, Lost(X), UNCHANGED database
  PROVE  /\ cached' \in [Entries -> Nat \cup {Absent}]
         /\ \A x \in Entries : cached'[x] \in {cached[x], Absent}
         /\ \A x \in Entries : Stale(x)' <=> Stale(x)
         /\ failed' = failed \cup {x \in X : Stale(x)} /\ overtaken' = overtaken /\ LostIsStale'
<1>1. cached' = cached /\ failed' = failed \cup {x \in X : Stale(x)} /\ overtaken' = overtaken
  BY DEF Lost
<1>2. \A x \in Entries : Stale(x)' <=> Stale(x)  BY <1>1 DEF Stale, database
<1> QED  BY <1>1, <1>2 DEF CacheInv, CacheFits, LostIsStale

LEMMA ExpireKeeps ==
  ASSUME CacheInv, NEW x \in Entries, Expire(x)
  PROVE  CacheInv'
<1>1. PICK X : X = {x}  OBVIOUS
<1>2. Removed(X) /\ UNCHANGED database /\ UNCHANGED refresh /\ reader' = reader /\ editor' = editor
  BY <1>1 DEF Expire
<1>3. EditorsFit'  BY <1>2 DEF CacheInv, EditorsFit
<1>4. \A e \in Editors, y \in Entries : Covers(e, y) => Covers(e, y)'
  BY <1>2 DEF Covers, database
<1> QED  BY <1>2, <1>3, <1>4, RemovedKeys, RemovalStep

\* Where an administrator goes on.
LEMMA Going ==
  ASSUME CacheInv, NEW e \in Editors, NEW at \in Offices, NEW U \in SUBSET Accounts, Goes(e, at, U),
         at \in {Quiet, "count"} => U = {}
  PROVE  /\ EditorsFit' /\ editor'[e].at = at /\ editor'[e].owed = U
         /\ \A f \in Editors : f # e => editor'[f] = editor[f]
BY DEF CacheInv, EditorsFit, Goes

LEMMA DelPermsKeeps ==
  ASSUME CacheInv, NEW e \in Editors, DelPerms(e)
  PROVE  CacheInv'
<1>1. editor[e].at = "perms" /\ UNCHANGED database /\ UNCHANGED refresh /\ reader' = reader
  BY DEF DelPerms
<1>2. PICK U \in SUBSET Accounts : U = editor[e].owed  BY DEF CacheInv, EditorsFit
<1>3. CASE Removed(U \X {"perms"}) /\ Goes(e, "super", U)
  <2>1. PICK X : X = U \X {"perms"}  OBVIOUS
  <2>2. /\ EditorsFit' /\ editor'[e].at = "super" /\ editor'[e].owed = U
        /\ \A f \in Editors : f # e => editor'[f] = editor[f]
    BY <1>3, Going DEF Offices, Quiet
  <2>3. \A x \in Entries : x \notin X /\ Covers(e, x) => Covers(e, x)'
    BY <1>1, <1>2, <2>1, <2>2 DEF Covers, Entries, Keys, database
  <2>4. \A f \in Editors, x \in Entries : f # e /\ Covers(f, x) => Covers(f, x)'
    BY <1>1, <2>2 DEF Covers, database
  <2> QED  BY <1>1, <1>3, <2>1, <2>2, <2>3, <2>4, RemovedKeys, RemovalStep
<1>4. CASE Lost(U \X Keys) /\ Goes(e, Quiet, {})
  <2>1. PICK X \in SUBSET Entries : X = U \X Keys  BY DEF Entries
  <2>2. /\ EditorsFit' /\ editor'[e].at = Quiet /\ editor'[e].owed = {}
        /\ \A f \in Editors : f # e => editor'[f] = editor[f]
    BY <1>4, Going DEF Offices
  <2>3. \A x \in Entries : Covers(e, x) => x \in X  BY <1>2, <2>1 DEF Covers, Entries
  <2>4. \A f \in Editors, x \in Entries : f # e /\ Covers(f, x) => Covers(f, x)'
    BY <1>1, <2>2 DEF Covers, database
  <2> QED  BY <1>1, <1>4, <2>1, <2>2, <2>3, <2>4, LostKeys, RemovalStep
<1> QED  BY <1>2, <1>3, <1>4 DEF DelPerms

LEMMA DelSuperKeeps ==
  ASSUME CacheInv, NEW e \in Editors, DelSuper(e)
  PROVE  CacheInv'
<1>1. /\ editor[e].at = "super" /\ UNCHANGED database /\ UNCHANGED refresh /\ reader' = reader
      /\ Goes(e, Quiet, {})
  BY DEF DelSuper
<1>2. PICK U \in SUBSET Accounts : U = editor[e].owed  BY DEF CacheInv, EditorsFit
<1>3. PICK X \in SUBSET Entries : X = U \X {"super"}  BY DEF Entries, Keys
<1>4. /\ EditorsFit' /\ editor'[e].at = Quiet /\ editor'[e].owed = {}
      /\ \A f \in Editors : f # e => editor'[f] = editor[f]
  BY <1>1, Going DEF Offices
<1>5. \A x \in Entries : Covers(e, x) => x \in X  BY <1>1, <1>2, <1>3 DEF Covers, Entries
<1>6. \A f \in Editors, x \in Entries : f # e /\ Covers(f, x) => Covers(f, x)'
  BY <1>1, <1>4 DEF Covers, database
<1>7. Removed(X) \/ Lost(X)  BY <1>2, <1>3 DEF DelSuper
<1>8. CASE Removed(X)  BY <1>1, <1>4, <1>5, <1>6, <1>8, RemovedKeys, RemovalStep
<1>9. CASE Lost(X)  BY <1>1, <1>4, <1>5, <1>6, <1>9, LostKeys, RemovalStep
<1> QED  BY <1>7, <1>8, <1>9

LEMMA DelPipelineKeeps ==
  ASSUME CacheInv, NEW e \in Editors, DelPipeline(e)
  PROVE  CacheInv'
<1>1. /\ editor[e].at = "pipe" /\ UNCHANGED database /\ UNCHANGED refresh /\ reader' = reader
      /\ Goes(e, Quiet, {})
  BY DEF DelPipeline
<1>2. PICK U \in SUBSET Accounts : U = editor[e].owed  BY DEF CacheInv, EditorsFit
<1>3. PICK X \in SUBSET Entries : X = U \X Keys  BY DEF Entries
<1>4. /\ EditorsFit' /\ editor'[e].at = Quiet /\ editor'[e].owed = {}
      /\ \A f \in Editors : f # e => editor'[f] = editor[f]
  BY <1>1, Going DEF Offices
<1>5. \A x \in Entries : Covers(e, x) => x \in X  BY <1>1, <1>2, <1>3 DEF Covers, Entries
<1>6. \A f \in Editors, x \in Entries : f # e /\ Covers(f, x) => Covers(f, x)'
  BY <1>1, <1>4 DEF Covers, database
<1>7. CASE Removed(X)  BY <1>1, <1>4, <1>5, <1>6, <1>7, RemovedKeys, RemovalStep
<1>8. ASSUME NEW Y \in SUBSET X,
             cached' = [x \in Entries |-> IF x \in Y THEN Absent ELSE cached[x]],
             overtaken' = overtaken \ Y, failed' = (failed \cup {x \in X : Stale(x)}) \ Y
      PROVE  CacheInv'
  <2>1. cached \in [Entries -> Nat \cup {Absent}]  BY DEF CacheInv, CacheFits
  <2>2. /\ cached' \in [Entries -> Nat \cup {Absent}]
        /\ \A x \in Entries : cached'[x] = IF x \in Y THEN Absent ELSE cached[x]
    BY <1>8, <2>1
  <2>3. \A x \in Entries : Stale(x)' <=> Stale(x) /\ x \notin Y  BY <1>1, <2>2 DEF Stale, database
  <2>4. LostIsStale'  BY <1>8, <2>3 DEF CacheInv, LostIsStale
  <2> QED  BY <1>1, <1>4, <1>5, <1>6, <1>8, <2>2, <2>3, <2>4, RemovalStep
<1> QED  BY <1>2, <1>3, <1>7, <1>8 DEF DelPipeline

LEMMA EditorDiesKeeps ==
  ASSUME CacheInv, NEW e \in Editors, EditorDies(e)
  PROVE  CacheInv'
<1>1. /\ UNCHANGED database /\ UNCHANGED refresh /\ reader' = reader /\ Goes(e, Quiet, {})
  BY DEF EditorDies
<1>2. PICK U \in SUBSET Accounts : U = editor[e].owed  BY DEF CacheInv, EditorsFit
<1>3. PICK X \in SUBSET Entries : X = U \X Keys  BY DEF Entries
<1>4. /\ EditorsFit' /\ editor'[e].at = Quiet /\ editor'[e].owed = {}
      /\ \A f \in Editors : f # e => editor'[f] = editor[f]
  BY <1>1, Going DEF Offices
<1>5. \A x \in Entries : Covers(e, x) => x \in X  BY <1>1, <1>2, <1>3 DEF Covers, Entries
<1>6. \A f \in Editors, x \in Entries : f # e /\ Covers(f, x) => Covers(f, x)'
  BY <1>1, <1>4 DEF Covers, database
<1>7. Lost(X)  BY <1>2, <1>3 DEF EditorDies
<1> QED  BY <1>1, <1>4, <1>5, <1>6, <1>7, LostKeys, RemovalStep

\* Steps of an administrator that only look at the database.
LEMMA ListingKeeps ==
  ASSUME CacheInv, NEW e \in Editors, CountUsers(e) \/ ListMembers(e)
  PROVE  CacheInv'
<1>1. UNCHANGED database /\ UNCHANGED refresh /\ UNCHANGED store /\ reader' = reader
  BY DEF CountUsers, ListMembers
<1>2. /\ cached' \in [Entries -> Nat \cup {Absent}] /\ LostIsStale'
      /\ failed' = failed /\ overtaken' = overtaken
      /\ \A x \in Entries : cached'[x] \in {cached[x], Absent}
  BY <1>1 DEF CacheInv, CacheFits, LostIsStale, Stale, database, store
<1>3. ASSUME NEW at \in Offices, NEW U \in SUBSET Accounts, Goes(e, at, U),
             at \in {Quiet, "count"} => U = {},
             \A x \in Entries : Covers(e, x) => x[1] \in U /\ at \notin {"list", "super"}
      PROVE  CacheInv'
  <2>1. /\ EditorsFit' /\ editor'[e].at = at /\ editor'[e].owed = U
        /\ \A f \in Editors : f # e => editor'[f] = editor[f]
    BY <1>3, Going
  <2>2. \A f \in Editors, x \in Entries : Covers(f, x) => Covers(f, x)'
    BY <1>1, <1>3, <2>1 DEF Covers, database
  <2> QED  BY <1>1, <1>2, <2>1, <2>2, RemovalStep
<1>4. CASE CountUsers(e)
  <2>1. editor[e].owed = {} /\ Goes(e, "count", {})  BY <1>4 DEF CountUsers, AtRest
  <2>2. \A x \in Entries : ~Covers(e, x)  BY <2>1 DEF Covers
  <2> QED  BY <1>3, <2>1, <2>2 DEF Offices
<1>5. CASE ListMembers(e)
  <2>1. /\ editor[e].at = "list" /\ members \subseteq Accounts
        /\ IF members = {} THEN Goes(e, Quiet, {}) ELSE Goes(e, "pipe", members)
    BY <1>5 DEF ListMembers, CacheInv, DatabaseFits
  <2>2. \A x \in Entries : Covers(e, x) => x[1] \in members  BY <2>1 DEF Covers
  <2> QED  BY <1>3, <2>1, <2>2 DEF Offices, Quiet
<1> QED  BY <1>4, <1>5

\* Changes: whose keys grow old is owed a DEL, known to be lost, or queued.
LEMMA ChangeStep ==
  ASSUME CacheInv, NEW U \in SUBSET Accounts, Touch(U), cached' = cached, overtaken' = overtaken,
         UNCHANGED <<reader, worker, sweptAt>>, members' \subseteq Accounts, members' # {} => role',
         EditorsFit', OutboxFits', LostIsStale',
         \A x \in Entries : Stale(x)' => Excused(x)' \/ Queued(x)' \/ (Stale(x) /\ x[1] \notin U),
         \A x \in Entries : Stale(x) /\ x[1] \notin U /\ Excused(x) => Excused(x)',
         \A u \in Accounts \ U : outbox'[u] = outbox[u]
  PROVE  CacheInv'
<1>1. DatabaseFits'  BY Touched DEF DatabaseFits
<1>2. CacheFits' /\ ReadersFit' /\ WorkersFit'  BY TouchedFits
<1>3. \A x \in Entries : x[1] \notin U /\ Queued(x) => Queued(x)'
  BY EntryParts DEF Queued, Swept
<1>4. StaleIsExplained'  BY <1>3 DEF CacheInv, StaleIsExplained
<1> QED  BY <1>1, <1>2, <1>4 DEF CacheInv

LEMMA SetMembershipKeeps ==
  ASSUME CacheInv, NEW e \in Editors, NEW u \in Accounts, SetMembership(e, u)
  PROVE  CacheInv'
<1>1. PICK U \in SUBSET Accounts : U = {u}  OBVIOUS
<1>2. /\ editor[e] = AtRest /\ role /\ Touch(U) /\ Goes(e, "perms", U) /\ role' = role
      /\ members' = IF u \in members THEN members \ {u} ELSE members \cup {u}
      /\ UNCHANGED store /\ reader' = reader /\ UNCHANGED refresh
  BY <1>1 DEF SetMembership
<1>3. members' \subseteq Accounts /\ \A v \in Accounts : v # u => (v \in members' <=> v \in members)
  BY <1>2 DEF CacheInv, DatabaseFits
<1>4. /\ EditorsFit' /\ editor'[e].at = "perms" /\ editor'[e].owed = U
      /\ \A f \in Editors : f # e => editor'[f] = editor[f]
  BY <1>2, Going DEF Offices, Quiet
<1>5. \A x \in Entries : Stale(x) => Stale(x)'
  BY <1>2, TouchedFits DEF store, refresh
<1>6. LostIsStale'  BY <1>2, <1>5 DEF CacheInv, LostIsStale, store
<1>7. \A x \in Entries : Stale(x)' => Stale(x) \/ x[1] \in U
  BY <1>2, TouchedFits DEF store, refresh
<1>8. \A x \in Entries : x[1] \in U => Excused(x)'  BY <1>4 DEF Excused, Covers
<1>9. \A x \in Entries : x[1] \notin U /\ Excused(x) => Excused(x)'
  BY <1>1, <1>2, <1>3, <1>4, EntryParts DEF Excused, Covers, AtRest, store
<1>10. OutboxFits'
  <2>1. \A v \in Accounts : truth[v] <= truth'[v] /\ truth[v] \in Nat /\ truth'[v] \in Nat
    BY <1>2, Touched DEF CacheInv, DatabaseFits
  <2> QED  BY <1>2, <2>1 DEF CacheInv, OutboxFits, QueuedChangeIsSwept, refresh
<1> QED  BY <1>2, <1>3, <1>4, <1>6, <1>7, <1>8, <1>9, <1>10, ChangeStep DEF store, refresh

\* Steps that leave the queue alone leave it fit.
LEMMA QueueStays ==
  ASSUME CacheInv, NEW U \in SUBSET Accounts, Touch(U), UNCHANGED <<outbox, queuedAt, sweptAt>>
  PROVE  OutboxFits'
<1>1. \A v \in Accounts : truth[v] <= truth'[v] /\ truth[v] \in Nat /\ truth'[v] \in Nat
  BY Touched DEF CacheInv, DatabaseFits
<1> QED  BY <1>1 DEF CacheInv, OutboxFits, QueuedChangeIsSwept

LEMMA ChangeRoleKeeps ==
  ASSUME CacheInv, NEW e \in Editors, ChangeRole(e)
  PROVE  CacheInv'
<1>1. PICK U \in SUBSET Accounts : U = members  BY DEF CacheInv, DatabaseFits
<1>2. /\ editor[e] = AtRest /\ role /\ Touch(U) /\ Goes(e, "list", U) /\ role' = role
      /\ members' = members /\ UNCHANGED store /\ reader' = reader /\ UNCHANGED refresh
  BY <1>1 DEF ChangeRole
<1>3. /\ EditorsFit' /\ editor'[e].at = "list" /\ editor'[e].owed = U
      /\ \A f \in Editors : f # e => editor'[f] = editor[f]
  BY <1>2, Going DEF Offices, Quiet
<1>4. \A x \in Entries : (Stale(x) => Stale(x)') /\ (Stale(x)' => Stale(x) \/ x[1] \in U)
  BY <1>2, TouchedFits DEF store, refresh
<1>5. LostIsStale'  BY <1>2, <1>4 DEF CacheInv, LostIsStale, store
<1>6. \A x \in Entries : x[1] \in U => Excused(x)'  BY <1>1, <1>2, <1>3 DEF Excused, Covers
<1>7. \A x \in Entries : x[1] \notin U /\ Excused(x) => Excused(x)'
  BY <1>2, <1>3 DEF Excused, Covers, AtRest, store
<1>8. OutboxFits'  BY <1>2, QueueStays DEF refresh
<1>9. members' \subseteq Accounts /\ (members' # {} => role')  BY <1>1, <1>2
<1> QED  BY <1>2, <1>3, <1>4, <1>5, <1>6, <1>7, <1>8, <1>9, ChangeStep DEF store, refresh

\* Whoever gets the role between the count and the deletion is known to be lost.
LEMMA DeleteRoleKeeps ==
  ASSUME CacheInv, NEW e \in Editors, DeleteRole(e)
  PROVE  CacheInv'
<1>1. PICK U \in SUBSET Accounts : U = members  BY DEF CacheInv, DatabaseFits
<1>2. /\ editor[e].at = "count" /\ Touch(U) /\ Goes(e, "list", {}) /\ members' = {}
      /\ UNCHANGED <<cached, overtaken, reader>> /\ UNCHANGED refresh
      /\ failed' = failed \cup {x \in U \X Keys : cached[x] # Absent}
  BY <1>1 DEF DeleteRole
<1>3. editor[e].owed = {}  BY <1>2 DEF CacheInv, EditorsFit
<1>4. /\ EditorsFit' /\ editor'[e].at = "list" /\ editor'[e].owed = {}
      /\ \A f \in Editors : f # e => editor'[f] = editor[f]
  BY <1>2, Going DEF Offices, Quiet
<1>5. \A x \in Entries : (Stale(x) => Stale(x)') /\ (Stale(x)' => Stale(x) \/ x[1] \in U)
  BY <1>2, TouchedFits DEF refresh
<1>6. \A x \in Entries : x[1] \in U /\ cached[x] # Absent => Stale(x)'
  <2>1. \A u \in Accounts : truth[u] <= changes /\ truth[u] \in Nat /\ (u \in U => truth'[u] = changes + 1)
    BY <1>2, Touched DEF CacheInv, DatabaseFits
  <2>2. \A x \in Entries : cached[x] # Absent => cached[x] \in Nat /\ cached[x] <= truth[x[1]]
    BY DEF CacheInv, CacheFits, Held
  <2>3. changes \in Nat  BY DEF CacheInv, DatabaseFits
  <2> QED  BY <1>2, <2>1, <2>2, <2>3, EntryParts DEF Stale
<1>7. LostIsStale'
  <2>1. \A x \in U \X Keys : x \in Entries /\ x[1] \in U  BY DEF Entries
  <2> QED  BY <1>2, <1>5, <1>6, <2>1 DEF CacheInv, LostIsStale
<1>8. \A x \in Entries : Stale(x)' /\ x[1] \in U => Excused(x)'
  <2>1. \A x \in Entries : x[1] \in U => x \in U \X Keys  BY DEF Entries
  <2> QED  BY <1>2, <2>1 DEF Excused, Stale
<1>9. \A x \in Entries : x[1] \notin U /\ Excused(x) => Excused(x)'
  BY <1>1, <1>2, <1>3, <1>4 DEF Excused, Covers
<1>10. OutboxFits'  BY <1>2, QueueStays DEF refresh
<1>11. members' \subseteq Accounts /\ (members' # {} => role')  BY <1>2
<1> QED  BY <1>2, <1>4, <1>5, <1>7, <1>8, <1>9, <1>10, <1>11, ChangeStep DEF refresh

\* What a worker has listed is older than a change that is queued now.
LEMMA ListedIsOlder ==
  ASSUME CacheInv, NEW w \in Workers, worker[w].at \in {"super", "complete"}
  PROVE  /\ worker[w].rows[1] \in Listed /\ worker[w].rows # <<>> /\ Item(w) = worker[w].rows[1]
         /\ worker[w].rows[1].revision <= truth[worker[w].rows[1].user]
<1>1. worker[w].rows \in Seq(Listed) /\ RowsFit(worker[w], truth, sweptAt)  BY DEF CacheInv, WorkersFit
<1>2. worker[w].rows # <<>>  BY <1>1 DEF RowsFit, Quiet
<1>3. 1 \in 1 .. Len(worker[w].rows)  BY <1>1, <1>2, LenProperties, EmptySeq
<1>4. worker[w].rows[1] \in Listed  BY <1>1, <1>3, ElementOfSeq
<1>5. Item(w) = worker[w].rows[1]  BY <1>1, <1>2 DEF Item
<1> QED  BY <1>1, <1>2, <1>3, <1>4, <1>5 DEF RowsFit

LEMMA QueueKeeps ==
  ASSUME CacheInv, NEW u \in Accounts, QueuePermissionRefresh(u)
  PROVE  CacheInv'
<1>1. PICK U \in SUBSET Accounts : U = {u}  OBVIOUS
<1>2. /\ Touch(U) /\ UNCHANGED <<role, members, reader, editor, worker, sweptAt>> /\ UNCHANGED store
      /\ outbox' = [outbox EXCEPT ![u] = changes + 1] /\ queuedAt' = [queuedAt EXCEPT ![u] = changes + 1]
  BY <1>1 DEF QueuePermissionRefresh
<1>3. /\ changes \in Nat /\ truth \in [Accounts -> Nat] /\ truth' \in [Accounts -> Nat]
      /\ \A v \in Accounts : truth[v] <= changes /\ truth[v] <= truth'[v]
      /\ truth'[u] = changes + 1
  BY <1>1, <1>2, Touched DEF CacheInv, DatabaseFits
<1>4. /\ outbox' \in [Accounts -> Nat] /\ outbox'[u] = changes + 1
      /\ \A v \in Accounts : v # u => outbox'[v] = outbox[v]
  BY <1>2, <1>3 DEF CacheInv, OutboxFits
<1>5. OutboxFits'
  <2>1. /\ queuedAt' \in [Accounts -> Nat] /\ queuedAt'[u] = changes + 1
        /\ \A v \in Accounts : v # u => queuedAt'[v] = queuedAt[v]
    BY <1>2, <1>3 DEF CacheInv, OutboxFits
  <2>2. ASSUME NEW v \in Accounts
        PROVE  /\ outbox'[v] = 0 \/ outbox'[v] = queuedAt'[v]
               /\ queuedAt'[v] <= truth'[v] /\ sweptAt'[v] <= truth'[v]
               /\ outbox'[v] = 0 => sweptAt'[v] >= queuedAt'[v]
    <3>0. sweptAt[v] \in Nat /\ sweptAt[v] <= truth[v] /\ truth[v] \in Nat /\ truth'[v] \in Nat
      BY <1>3 DEF CacheInv, OutboxFits
    <3>1. CASE v = u  BY <1>2, <1>3, <1>4, <2>1, <3>0, <3>1
    <3>2. CASE v # u
      <4>1. /\ outbox[v] = 0 \/ outbox[v] = queuedAt[v]
            /\ queuedAt[v] <= truth[v] /\ sweptAt[v] <= truth[v] /\ queuedAt[v] \in Nat /\ truth[v] \in Nat /\ truth'[v] \in Nat
            /\ outbox[v] = 0 => sweptAt[v] >= queuedAt[v]
        BY <1>3 DEF CacheInv, OutboxFits, QueuedChangeIsSwept
      <4> QED  BY <1>2, <1>3, <1>4, <2>1, <3>0, <3>2, <4>1
    <3> QED  BY <3>1, <3>2
  <2>3. sweptAt' \in [Accounts -> Nat]  BY <1>2 DEF CacheInv, OutboxFits
  <2> QED  BY <1>4, <2>1, <2>2, <2>3 DEF OutboxFits, QueuedChangeIsSwept
<1>6. \A x \in Entries : (Stale(x) => Stale(x)') /\ (Stale(x)' => Stale(x) \/ x[1] \in U)
  BY <1>2, TouchedFits DEF store
<1>7. LostIsStale'  BY <1>2, <1>6 DEF CacheInv, LostIsStale, store
<1>8. ASSUME NEW w \in Workers, NEW x \in Entries, x[1] = u, Swept(w, x)' PROVE FALSE
  <2>1. /\ worker[w].at \in {"super", "complete"} /\ worker[w].rows[1].user = u
        /\ worker[w].rows[1].revision = changes + 1
    BY <1>2, <1>4, <1>8 DEF Swept
  <2>2. worker[w].rows[1].revision <= truth[u]  BY <2>1, ListedIsOlder
  <2> QED  BY <1>3, <2>1, <2>2
<1>9. \A x \in Entries : x[1] \in U => Queued(x)'
  BY <1>1, <1>3, <1>4, <1>8 DEF Queued
<1>10. \A x \in Entries : Excused(x) => Excused(x)'  BY <1>2 DEF Excused, Covers, store
<1>11. EditorsFit'  BY <1>2 DEF CacheInv, EditorsFit
<1>12. members' \subseteq Accounts /\ (members' # {} => role')  BY <1>2 DEF CacheInv, DatabaseFits
<1>13. \A v \in Accounts \ U : outbox'[v] = outbox[v]  BY <1>1, <1>4
<1> QED  BY <1>2, <1>5, <1>6, <1>7, <1>9, <1>10, <1>11, <1>12, <1>13, ChangeStep DEF store

\* A step of a worker: what it now counts as swept is known or not stale.
LEMMA WorkerStep ==
  ASSUME CacheInv, NEW w \in Workers, NEW at \in Sweeps, NEW todo \in Seq(Listed),
         Works(w, at, todo), RowsFit([at |-> at, rows |-> todo], truth, sweptAt'),
         UNCHANGED database, UNCHANGED <<reader, editor, queuedAt>>,
         cached' \in [Entries -> Nat \cup {Absent}],
         \A x \in Entries : cached'[x] \in {cached[x], Absent}, LostIsStale', OutboxFits',
         \A u \in Accounts : sweptAt[u] <= sweptAt'[u],
         \A x \in Entries : Stale(x)' => x \in failed' \cup overtaken' \/ x \notin failed \cup overtaken,
         \A x \in Entries :
           Stale(x)' /\ ~Excused(x)' /\ Queued(x) => outbox'[x[1]] = outbox[x[1]] /\ ~Swept(w, x)'
  PROVE  CacheInv'
<1>1. DatabaseFits' /\ ReadersFit' /\ EditorsFit' /\ CacheFits'
  BY DEF CacheInv, DatabaseFits, ReadersFit, EditorsFit, CacheFits, Held, database
<1>2. WorkersFit'
  <2>1. \A v \in Workers : worker[v].rows \in Seq(Listed) /\ RowsFit(worker[v], truth, sweptAt)
    BY DEF CacheInv, WorkersFit
  <2>2. sweptAt \in [Accounts -> Nat] /\ sweptAt' \in [Accounts -> Nat]
    BY DEF CacheInv, OutboxFits
  <2>3. ASSUME NEW v \in Workers PROVE RowsFit(worker[v], truth, sweptAt')
    <3>1. CASE worker[v].at \notin {"super", "complete"}  BY <2>1, <3>1 DEF RowsFit
    <3>2. CASE worker[v].at \in {"super", "complete"}
      <4>1. PICK y \in Listed : y = worker[v].rows[1]  BY <3>2, ListedIsOlder
      <4>2. y.revision <= sweptAt[y.user]  BY <2>1, <3>2, <4>1 DEF RowsFit
      <4>3. y.revision <= sweptAt'[y.user]  BY <2>2, <4>2 DEF Listed
      <4> QED  BY <2>1, <4>1, <4>3 DEF RowsFit
    <3> QED  BY <3>1, <3>2
  <2>4. worker \in [Workers -> [at : Sweeps, rows : Seq(Listed)]]  BY DEF CacheInv, WorkersFit
  <2>5. /\ worker' \in [Workers -> [at : Sweeps, rows : Seq(Listed)]]
        /\ worker'[w] = [at |-> at, rows |-> todo]
        /\ \A v \in Workers : v # w => worker'[v] = worker[v]
    BY <2>4 DEF Works
  <2>6. truth' = truth  BY DEF database
  <2> QED  BY <2>3, <2>5, <2>6 DEF WorkersFit
<1>3. StaleIsExplained'
  <2>1. SUFFICES ASSUME NEW x \in Entries, Stale(x)', ~Excused(x)' PROVE Queued(x)'
    BY DEF StaleIsExplained
  <2>2. Stale(x)  BY <2>1 DEF Stale, database
  <2>3. ~Excused(x)  BY <2>1 DEF Excused, Covers, database
  <2>4. Queued(x)  BY <2>2, <2>3 DEF CacheInv, StaleIsExplained
  <2>5. outbox'[x[1]] = outbox[x[1]] /\ ~Swept(w, x)'  BY <2>1, <2>4
  <2>6. \A v \in Workers : v # w => ~Swept(v, x)'
    BY <2>4, <2>5 DEF Works, Queued, Swept, CacheInv, WorkersFit
  <2> QED  BY <2>4, <2>5, <2>6 DEF Queued
<1> QED  BY <1>1, <1>2, <1>3 DEF CacheInv

LEMMA RefreshesKeeps ==
  ASSUME CacheInv, NEW w \in Workers, PermissionRefreshes(w)
  PROVE  CacheInv'
<1>1. PICK S : S = {[user |-> u, revision |-> outbox[u]] : u \in Rows}  OBVIOUS
<1>2. PICK todo \in SetToSeqs(S) : Works(w, "perms", todo)  BY <1>1 DEF PermissionRefreshes
<1>3. /\ Rows # {} /\ UNCHANGED database /\ UNCHANGED store
      /\ UNCHANGED <<reader, editor, outbox, queuedAt, sweptAt>>
  BY DEF PermissionRefreshes
<1>4. IsFiniteSet(S)
  <2>1. Rows \subseteq Accounts /\ IsFiniteSet(Rows)
    BY CacheAssumption, FS_Subset DEF Rows, CacheAssumption
  <2>2. PICK f : f = [u \in Rows |-> [user |-> u, revision |-> outbox[u]]]  OBVIOUS
  <2>3. f \in Surjection(Rows, S)  BY <1>1, <2>2 DEF Surjection
  <2> QED  BY <2>1, <2>3, FS_Surjection
<1>5. S # {} /\ S \subseteq Listed
  <2>1. outbox \in [Accounts -> Nat] /\ Rows \subseteq Accounts  BY DEF CacheInv, OutboxFits, Rows
  <2>2. \A u \in Rows : [user |-> u, revision |-> outbox[u]] \in Listed  BY <2>1 DEF Listed
  <2>3. S # {}  BY <1>1, <1>3
  <2> QED  BY <1>1, <2>2, <2>3
<1>6. PICK n \in Nat : n = Cardinality(S) /\ n > 0
  <2>1. Cardinality(S) \in Nat /\ Cardinality(S) # 0  BY <1>4, <1>5, FS_CardinalityType, FS_EmptySet
  <2> QED  BY <2>1
<1>7. todo \in [1 .. n -> S]  BY <1>2, <1>6 DEF SetToSeqs
<1>8. todo \in Seq(Listed) /\ Len(todo) = n /\ todo # <<>>
  <2>1. todo \in [1 .. n -> Listed]  BY <1>5, <1>7
  <2>2. todo \in Seq(Listed)  BY <2>1, SeqDef
  <2>3. Len(todo) = n  BY <2>1, <2>2, LenProperties
  <2>4. Len(<<>>) = 0  BY EmptySeq
  <2> QED  BY <1>6, <2>2, <2>3, <2>4
<1>9. \A i \in 1 .. Len(todo) : todo[i].revision <= truth[todo[i].user]
  <2>1. SUFFICES ASSUME NEW i \in 1 .. n PROVE todo[i].revision <= truth[todo[i].user]  BY <1>8
  <2>2. PICK u \in Accounts : todo[i] = [user |-> u, revision |-> outbox[u]]
    BY <1>1, <1>7 DEF Rows
  <2>3. outbox[u] \in {0, queuedAt[u]} /\ queuedAt[u] <= truth[u] /\ truth[u] \in Nat
    BY DEF CacheInv, OutboxFits, DatabaseFits
  <2> QED  BY <2>2, <2>3
<1>10. RowsFit([at |-> "perms", rows |-> todo], truth, sweptAt')  BY <1>8, <1>9 DEF RowsFit, Quiet
<1>11. /\ cached' \in [Entries -> Nat \cup {Absent}] /\ LostIsStale' /\ OutboxFits'
       /\ \A x \in Entries : cached'[x] \in {cached[x], Absent}
       /\ \A u \in Accounts : sweptAt[u] <= sweptAt'[u]
  BY <1>3 DEF CacheInv, CacheFits, LostIsStale, Stale, OutboxFits, QueuedChangeIsSwept, store, database
<1>12. \A x \in Entries : ~Swept(w, x)'
  BY <1>2, <1>8 DEF Swept, Works, CacheInv, WorkersFit
<1>13. "perms" \in Sweeps  BY DEF Sweeps
<1>14. \A x \in Entries : Stale(x)' => x \in failed' \cup overtaken' \/ x \notin failed \cup overtaken
  BY <1>3 DEF store
<1> QED  BY <1>2, <1>3, <1>8, <1>10, <1>11, <1>12, <1>13, <1>14, WorkerStep

\* What a worker at work holds.
LEMMA WorkerAt ==
  ASSUME CacheInv, NEW w \in Workers, worker[w].at # Quiet
  PROVE  /\ worker[w].rows \in Seq(Listed) /\ worker[w].rows # <<>> /\ Item(w) = worker[w].rows[1]
         /\ Item(w) \in Listed /\ Item(w).user \in Accounts /\ Item(w).revision \in Nat
         /\ Item(w).revision <= truth[Item(w).user]
         /\ RowsFit(worker[w], truth, sweptAt)
<1>1. worker[w].rows \in Seq(Listed) /\ RowsFit(worker[w], truth, sweptAt)  BY DEF CacheInv, WorkersFit
<1>2. worker[w].rows # <<>>  BY <1>1 DEF RowsFit
<1>3. 1 \in 1 .. Len(worker[w].rows)  BY <1>1, <1>2, LenProperties, EmptySeq
<1>4. worker[w].rows[1] \in Listed  BY <1>1, <1>3, ElementOfSeq
<1>5. Item(w) = worker[w].rows[1]  BY <1>1, <1>2 DEF Item
<1> QED  BY <1>1, <1>2, <1>3, <1>4, <1>5 DEF RowsFit, Listed

LEMMA SweepPermsKeeps ==
  ASSUME CacheInv, NEW w \in Workers, SweepPerms(w)
  PROVE  CacheInv'
<1>1. PICK u : u = Item(w).user  OBVIOUS
<1>2. PICK X : X = {<<u, "perms">>}  OBVIOUS
<1>3. /\ worker[w].at = "perms" /\ Removed(X) /\ Works(w, "super", worker[w].rows)
      /\ sweptAt' = [sweptAt EXCEPT ![u] = truth[u]]
      /\ UNCHANGED database /\ UNCHANGED <<reader, editor, outbox, queuedAt>>
  BY <1>1, <1>2 DEF SweepPerms
<1>4. /\ worker[w].rows \in Seq(Listed) /\ worker[w].rows # <<>> /\ u \in Accounts
      /\ worker[w].rows[1].user = u /\ worker[w].rows[1].revision <= truth[u]
      /\ RowsFit(worker[w], truth, sweptAt)
  BY <1>1, <1>3, WorkerAt DEF Quiet
<1>5. /\ \A v \in Accounts : outbox[v] \in {0, queuedAt[v]} /\ queuedAt[v] <= truth[v]
      /\ \A v \in Accounts : outbox[v] = 0 => sweptAt[v] >= queuedAt[v]
      /\ \A v \in Accounts : truth[v] \in Nat /\ sweptAt[v] \in Nat /\ queuedAt[v] \in Nat
      /\ sweptAt \in [Accounts -> Nat]
  BY DEF CacheInv, OutboxFits, DatabaseFits, QueuedChangeIsSwept
<1>6. /\ sweptAt' \in [Accounts -> Nat] /\ sweptAt'[u] = truth[u]
      /\ \A v \in Accounts : sweptAt[v] <= sweptAt'[v] /\ sweptAt'[v] <= truth[v]
  BY <1>3, <1>4, <1>5 DEF CacheInv, OutboxFits
<1>7. OutboxFits'
  <2>1. \A v \in Accounts : outbox[v] = 0 => sweptAt'[v] >= queuedAt[v]  BY <1>5, <1>6
  <2>2. outbox \in [Accounts -> Nat] /\ queuedAt \in [Accounts -> Nat]  BY DEF CacheInv, OutboxFits
  <2> QED  BY <1>3, <1>5, <1>6, <2>1, <2>2 DEF OutboxFits, QueuedChangeIsSwept, database
<1>8. RowsFit([at |-> "super", rows |-> worker[w].rows], truth, sweptAt')
  BY <1>4, <1>6 DEF RowsFit, Quiet
<1>9. /\ cached' \in [Entries -> Nat \cup {Absent}] /\ LostIsStale'
      /\ \A x \in Entries : cached'[x] \in {cached[x], Absent}
      /\ \A x \in Entries : Stale(x)' => Stale(x) /\ x \notin X
      /\ failed' = failed \ X /\ overtaken' = overtaken \ X
  BY <1>3, RemovedKeys
<1>10. \A x \in Entries : Stale(x)' => ~Swept(w, x)'
  <2>1. worker'[w].at = "super" /\ worker'[w].rows = worker[w].rows
    BY <1>3 DEF Works, CacheInv, WorkersFit
  <2>2. \A x \in Entries : x[1] = u /\ x[2] = "perms" => x \in X  BY <1>2 DEF Entries
  <2> QED  BY <1>4, <1>9, <2>1, <2>2 DEF Swept
<1>11. "super" \in Sweeps  BY DEF Sweeps
<1>12. \A x \in Entries : Stale(x)' => x \in failed' \cup overtaken' \/ x \notin failed \cup overtaken
  BY <1>9
<1> QED  BY <1>3, <1>4, <1>6, <1>7, <1>8, <1>9, <1>10, <1>11, <1>12, WorkerStep

LEMMA SweepSuperKeeps ==
  ASSUME CacheInv, NEW w \in Workers, SweepSuper(w)
  PROVE  CacheInv'
<1>1. PICK u : u = Item(w).user  OBVIOUS
<1>2. /\ worker[w].at = "super" /\ Works(w, "complete", worker[w].rows)
      /\ UNCHANGED database /\ UNCHANGED <<reader, editor, outbox, queuedAt, sweptAt>>
      /\ Removed({<<u, "super">>}) \/ Lost({<<u, "super">>})
  BY <1>1 DEF SweepSuper
<1>3. /\ worker[w].rows \in Seq(Listed) /\ worker[w].rows # <<>> /\ u \in Accounts
      /\ worker[w].rows[1].user = u /\ RowsFit(worker[w], truth, sweptAt)
  BY <1>1, <1>2, WorkerAt DEF Quiet
<1>4. PICK X \in SUBSET Entries : X = {<<u, "super">>}
  <2>1. <<u, "super">> \in Entries  BY <1>3 DEF Entries, Keys
  <2> QED  BY <2>1
<1>5. \A x \in Entries : x[1] = u /\ x[2] = "super" => x \in X  BY <1>4 DEF Entries
<1>6. /\ cached' \in [Entries -> Nat \cup {Absent}] /\ LostIsStale'
      /\ \A x \in Entries : cached'[x] \in {cached[x], Absent}
      /\ \A x \in Entries : Stale(x)' /\ x \in X => x \in failed'
      /\ \A x \in Entries : Stale(x)' => x \in failed' \cup overtaken' \/ x \notin failed \cup overtaken
  <2>1. CASE Removed(X)  BY <1>2, <2>1, RemovedKeys
  <2>2. CASE Lost(X)  BY <1>2, <2>2, LostKeys
  <2> QED  BY <1>2, <1>4, <2>1, <2>2
<1>7. OutboxFits' /\ \A v \in Accounts : sweptAt[v] <= sweptAt'[v]
  BY <1>2 DEF CacheInv, OutboxFits, QueuedChangeIsSwept, database
<1>8. RowsFit([at |-> "complete", rows |-> worker[w].rows], truth, sweptAt')
  BY <1>2, <1>3 DEF RowsFit, Quiet
<1>9. ASSUME NEW x \in Entries, Stale(x)', ~Excused(x)', Queued(x) PROVE ~Swept(w, x)'
  <2>1. worker'[w].at = "complete" /\ worker'[w].rows = worker[w].rows
    BY <1>2 DEF Works, CacheInv, WorkersFit
  <2>2. x \notin X  BY <1>6, <1>9 DEF Excused
  <2>3. x[2] \in Keys  BY EntryParts
  <2>4. CASE x[1] # u  BY <1>3, <2>1, <2>4 DEF Swept
  <2>5. CASE x[1] = u
    <3>1. x[2] = "perms"  BY <1>5, <2>2, <2>3, <2>5 DEF Keys
    <3>2. ~Swept(w, x)  BY <1>9 DEF Queued
    <3> QED  BY <1>2, <2>1, <3>1, <3>2 DEF Swept
  <2> QED  BY <2>4, <2>5
<1>10. "complete" \in Sweeps  BY DEF Sweeps
<1> QED  BY <1>2, <1>3, <1>6, <1>7, <1>8, <1>9, <1>10, WorkerStep

\* Where a worker goes after a row, or when it stops.
LEMMA NextRowFits ==
  ASSUME CacheInv, NEW w \in Workers, worker[w].at # Quiet, NextRow(w)
  PROVE  \E at \in {Quiet, "perms"}, todo \in Seq(Listed) :
           Works(w, at, todo) /\ RowsFit([at |-> at, rows |-> todo], truth, sweptAt)
<1>1. /\ worker[w].rows \in Seq(Listed) /\ worker[w].rows # <<>>
      /\ \A i \in 1 .. Len(worker[w].rows) : worker[w].rows[i].revision <= truth[worker[w].rows[i].user]
  BY WorkerAt DEF RowsFit
<1>2. CASE Works(w, Quiet, <<>>)
  <2>1. <<>> \in Seq(Listed) /\ Len(<<>>) = 0  BY EmptySeq
  <2>2. RowsFit([at |-> Quiet, rows |-> <<>>], truth, sweptAt)  BY <2>1 DEF RowsFit, Quiet
  <2> QED  BY <1>2, <2>1, <2>2
<1>3. CASE Len(worker[w].rows) # 1 /\ Works(w, "perms", Tail(worker[w].rows))
  <2>1. PICK todo : todo = Tail(worker[w].rows)  OBVIOUS
  <2>2. /\ todo \in Seq(Listed) /\ Len(todo) = Len(worker[w].rows) - 1
        /\ \A i \in 1 .. Len(todo) : todo[i] = worker[w].rows[i + 1]
        /\ Len(worker[w].rows) \in Nat /\ Len(todo) \in Nat
    BY <1>1, <2>1, HeadTailProperties, LenProperties
  <2>3. Len(worker[w].rows) # 0  BY <1>1, EmptySeq
  <2>4. todo # <<>>
    <3>1. Len(todo) # 0  BY <1>3, <2>2, <2>3
    <3>2. Len(<<>>) = 0  BY EmptySeq
    <3> QED  BY <3>1, <3>2
  <2>5. \A i \in 1 .. Len(todo) : i + 1 \in 1 .. Len(worker[w].rows)  BY <2>2
  <2>6. \A i \in 1 .. Len(todo) : todo[i].revision <= truth[todo[i].user]  BY <1>1, <2>2, <2>5
  <2>7. RowsFit([at |-> "perms", rows |-> todo], truth, sweptAt)  BY <2>4, <2>6 DEF RowsFit, Quiet
  <2> QED  BY <1>3, <2>1, <2>2, <2>7
<1> QED  BY <1>2, <1>3 DEF NextRow

\* A worker that turns to another row or stops has swept nothing yet.
LEMMA TurnStep ==
  ASSUME CacheInv, NEW w \in Workers, NEW at \in {Quiet, "perms"}, NEW todo \in Seq(Listed),
         Works(w, at, todo), RowsFit([at |-> at, rows |-> todo], truth, sweptAt),
         UNCHANGED database, UNCHANGED <<reader, editor, queuedAt, sweptAt>>, UNCHANGED store, OutboxFits',
         \A x \in Entries : Queued(x) => outbox'[x[1]] = outbox[x[1]]
  PROVE  CacheInv'
<1>1. /\ cached' \in [Entries -> Nat \cup {Absent}] /\ LostIsStale'
      /\ \A x \in Entries : cached'[x] \in {cached[x], Absent}
      /\ \A u \in Accounts : sweptAt[u] <= sweptAt'[u]
  BY DEF CacheInv, CacheFits, LostIsStale, Stale, OutboxFits, store, database
<1>2. \A x \in Entries : ~Swept(w, x)'
  BY DEF Swept, Works, CacheInv, WorkersFit, Quiet
<1>3. at \in Sweeps  BY DEF Sweeps
<1>4. \A x \in Entries : Stale(x)' => x \in failed' \cup overtaken' \/ x \notin failed \cup overtaken
  BY DEF store
<1> QED  BY <1>1, <1>2, <1>3, <1>4, WorkerStep

LEMMA CompleteKeeps ==
  ASSUME CacheInv, NEW w \in Workers, CompletePermissionRefresh(w)
  PROVE  CacheInv'
<1>1. PICK u : u = Item(w).user  OBVIOUS
<1>2. PICK r : r = Item(w).revision  OBVIOUS
<1>3. /\ worker[w].at = "complete" /\ NextRow(w) /\ UNCHANGED database /\ UNCHANGED store
      /\ UNCHANGED <<reader, editor, queuedAt, sweptAt>>
      /\ outbox' = [outbox EXCEPT ![u] = IF outbox[u] = r THEN 0 ELSE outbox[u]]
  BY <1>1, <1>2 DEF CompletePermissionRefresh
<1>4. /\ u \in Accounts /\ r \in Nat /\ worker[w].rows[1].user = u /\ worker[w].rows[1].revision = r
      /\ r <= sweptAt[u]
  BY <1>1, <1>2, <1>3, WorkerAt DEF Quiet, RowsFit
<1>5. /\ outbox' \in [Accounts -> Nat] /\ \A v \in Accounts : v # u => outbox'[v] = outbox[v]
      /\ outbox'[u] = IF outbox[u] = r THEN 0 ELSE outbox[u]
  BY <1>3, <1>4 DEF CacheInv, OutboxFits
<1>6. OutboxFits'
  <2>1. ASSUME NEW v \in Accounts
        PROVE  /\ outbox'[v] = 0 \/ outbox'[v] = queuedAt[v]
               /\ outbox'[v] = 0 => sweptAt[v] >= queuedAt[v]
    <3>1. /\ outbox[v] = 0 \/ outbox[v] = queuedAt[v]
          /\ outbox[v] = 0 => sweptAt[v] >= queuedAt[v]
          /\ queuedAt[v] \in Nat /\ sweptAt[v] \in Nat
      BY DEF CacheInv, OutboxFits, QueuedChangeIsSwept
    <3> QED  BY <1>4, <1>5, <3>1
  <2> QED  BY <1>3, <1>5, <2>1 DEF CacheInv, OutboxFits, QueuedChangeIsSwept, database
<1>7. \A x \in Entries : Queued(x) => outbox'[x[1]] = outbox[x[1]]
  BY <1>3, <1>4, <1>5, EntryParts DEF Queued, Swept
<1>8. worker[w].at # Quiet  BY <1>3 DEF Quiet
<1>9. PICK at \in {Quiet, "perms"}, todo \in Seq(Listed) :
        Works(w, at, todo) /\ RowsFit([at |-> at, rows |-> todo], truth, sweptAt)
  BY <1>3, <1>8, NextRowFits
<1> QED  BY <1>3, <1>6, <1>7, <1>9, TurnStep

LEMMA WorkerStopsKeeps ==
  ASSUME CacheInv, NEW w \in Workers, WorkerStops(w)
  PROVE  CacheInv'
<1>1. /\ Works(w, Quiet, <<>>) /\ UNCHANGED database /\ UNCHANGED store
      /\ UNCHANGED <<reader, editor, queuedAt, sweptAt, outbox>>
  BY DEF WorkerStops
<1>2. <<>> \in Seq(Listed) /\ Len(<<>>) = 0  BY EmptySeq
<1>3. RowsFit([at |-> Quiet, rows |-> <<>>], truth, sweptAt)  BY <1>2 DEF RowsFit, Quiet
<1>4. OutboxFits'  BY <1>1 DEF CacheInv, OutboxFits, QueuedChangeIsSwept, database
<1> QED  BY <1>1, <1>2, <1>3, <1>4, TurnStep

LEMMA CacheSteps == CacheInv /\ [CacheNext]_cacheVars => CacheInv'
<1> SUFFICES ASSUME CacheInv, [CacheNext]_cacheVars PROVE CacheInv'  OBVIOUS
<1>1. CASE UNCHANGED cacheVars
  <2>1. UNCHANGED database /\ UNCHANGED store /\ UNCHANGED refresh /\ UNCHANGED <<reader, editor>>
    BY <1>1 DEF cacheVars, database, store, refresh
  <2>2. CacheFits' /\ ReadersFit' /\ EditorsFit' /\ LostIsStale'
    BY <2>1 DEF CacheInv, CacheFits, ReadersFit, EditorsFit, LostIsStale, Stale, database, store
  <2>3. \A x \in Entries : Stale(x)' => Excused(x)' \/ (Stale(x) /\ ~Excused(x))
    BY <2>1 DEF Stale, Excused, Covers, database, store
  <2> QED  BY <2>1, <2>2, <2>3, StoreStep
<1>2. ASSUME NEW r \in Readers, Query(r) \/ Fill(r) PROVE CacheInv'  BY <1>2, QueryKeeps, FillKeeps
<1>3. ASSUME NEW r \in Readers, NEW u \in Accounts, NEW K \in (SUBSET Keys) \ {{}}, LookUp(r, u, K)
      PROVE  CacheInv'
  BY <1>3, LookUpKeeps
<1>4. ASSUME NEW e \in Editors,
             \/ DelPerms(e) \/ DelSuper(e) \/ ChangeRole(e) \/ CountUsers(e) \/ DeleteRole(e)
             \/ ListMembers(e) \/ DelPipeline(e) \/ EditorDies(e)
      PROVE  CacheInv'
  BY <1>4, DelPermsKeeps, DelSuperKeeps, ChangeRoleKeeps, ListingKeeps, DeleteRoleKeeps,
     DelPipelineKeeps, EditorDiesKeeps
<1>5. ASSUME NEW w \in Workers, WorkerMoves(w) \/ WorkerStops(w) PROVE CacheInv'
  BY <1>5, RefreshesKeeps, SweepPermsKeeps, SweepSuperKeeps, CompleteKeeps, WorkerStopsKeeps
     DEF WorkerMoves
<1> QED
  BY <1>1, <1>2, <1>3, <1>4, <1>5, ExpireKeeps, SetMembershipKeeps, QueueKeeps DEF CacheNext

\* For any number of accounts, requests, administrators and workers, and however loads,
\* changes, deletions and failures interleave: an outdated key still has its DEL to come,
\* or its loss is known, or a load overtook the change; and no queued row goes without a
\* DEL after it (rbac/service/cache_service.go, member/service/admission_reminders.go).
THEOREM OutdatedKeysAreExplained == CacheSpec => []StaleIsOnItsWayOut
<1>1. CacheInv => StaleIsOnItsWayOut
  <2> SUFFICES ASSUME CacheInv PROVE StaleIsOnItsWayOut  OBVIOUS
  <2>1. \A x \in Entries : cached[x] # Absent => cached[x] \in 0 .. truth[x[1]]
    BY EntryParts DEF CacheInv, CacheFits, Held, DatabaseFits
  <2>2. \A w \in Workers : (worker[w].at = Quiet) <=> (worker[w].rows = <<>>)
    BY DEF CacheInv, WorkersFit, RowsFit
  <2>3. CacheTypeOK
    BY <2>1, <2>2 DEF CacheTypeOK, CacheInv, LostIsStale, DatabaseFits, OutboxFits
  <2>4. StaleHasAReason
    BY DEF StaleHasAReason, CacheInv, StaleIsExplained, Excused, Covers, Queued
  <2> QED  BY <2>3, <2>4 DEF StaleIsOnItsWayOut, CacheInv, OutboxFits
<1> QED  BY <1>1, CacheStarts, CacheSteps, PTL DEF CacheSpec
=============================================================================
