---------------------------- MODULE MeetingVote ----------------------------
(***************************************************************************)
(* One meeting and its votes (internal/meeting/service).  Every change     *)
(* runs in a transaction that first locks the meeting row (LockMeeting,    *)
(* LockVote), so each is one step; only the expiry job works in several,   *)
(* a list read without the lock and then one transaction per vote.         *)
(***************************************************************************)
EXTENDS Naturals, Sequences, FiniteSetsExt, Functions

CONSTANTS
  People, Organizer,
  Votes, Options,
  Kinds,            \* the kinds each vote is created with: equal, weighted, anonymous
  Never,            \* the end of a vote without a duration
  MaxWeight,        \* the weights of the positions
  MaxClock, MaxEdits, MaxJobFailures   \* bounds

ASSUME MeetingAssumption ==
  /\ Organizer \in People /\ Never \notin Nat /\ MaxWeight \in Nat /\ MaxClock \in Nat
  /\ IsFiniteSet(People) /\ IsFiniteSet(Votes) /\ IsFiniteSet(Options)

VARIABLES
  meeting,          \* Meeting.Status, or "gone" after DeleteMeeting
  attendees, attended,
  vote,             \* the rows of the votes
  electors,         \* meeting_vote_electors: the frozen weight of each elector
  receipts,         \* meeting_vote_receipts: who has voted
  tally,            \* CalculateVoteResult of the records
  standing,         \* each account: active, and the weight of its position
  due,              \* ids the expiry job listed and has not handled
  clock, edits, jobFailures

meetingVars == <<meeting, attendees, attended, vote, electors, receipts, tally,
                 standing, due, clock, edits, jobFailures>>
people == <<meeting, attendees, attended, standing, edits>>
polls == <<vote, electors, receipts, tally>>
job == <<due, jobFailures>>

NoVote == [status |-> "none", end |-> Never, kind |-> "equal"]
NoBallots == [o \in Options |-> [count |-> 0, weight |-> 0]]

MeetingInit ==
  /\ meeting = "pending" /\ attendees = {Organizer} /\ attended = {}
  /\ vote = [v \in Votes |-> NoVote] /\ electors = [v \in Votes |-> <<>>]
  /\ receipts = [v \in Votes |-> {}] /\ tally = [v \in Votes |-> NoBallots]
  /\ standing = [p \in People |-> [active |-> TRUE, weight |-> 1]]
  /\ due = <<>> /\ clock = 0 /\ edits = 0 /\ jobFailures = 0

\* canCreateVote, canCheckinMeeting, canCancelMeeting
LiveMeeting == meeting \in {"pending", "ongoing"}
Open(v) == vote[v].status = "open"
Due(v) == vote[v].end # Never /\ vote[v].end <= clock

(* Attendance *)
AddAttendee(p) ==
  /\ LiveMeeting /\ p \notin attendees /\ attendees' = attendees \cup {p}
  /\ UNCHANGED <<meeting, attended, standing, edits, polls, job, clock>>

RemoveAttendee(p) ==
  /\ LiveMeeting /\ p \in attendees \ {Organizer} /\ p \notin attended
  /\ \A v \in Votes : p \notin receipts[v] /\ ~(Open(v) /\ p \in DOMAIN electors[v])
  /\ attendees' = attendees \ {p}
  /\ UNCHANGED <<meeting, attended, standing, edits, polls, job, clock>>

CheckIn(p) ==
  /\ LiveMeeting /\ p \in attendees \ attended /\ attended' = attended \cup {p}
  /\ UNCHANGED <<meeting, attendees, standing, edits, polls, job, clock>>

(* The life of the meeting *)
StartMeeting ==
  /\ meeting = "pending" /\ meeting' = "ongoing"
  /\ UNCHANGED <<attendees, attended, standing, edits, polls, job, clock>>

\* closeMeetingVotes: an end that has passed is kept.
AllClosed == vote' = [v \in Votes |->
  IF Open(v) THEN [vote[v] EXCEPT !.status = "closed", !.end = IF Due(v) THEN @ ELSE clock]
  ELSE vote[v]]

EndMeeting ==
  /\ meeting = "ongoing" /\ meeting' = "ended" /\ AllClosed
  /\ UNCHANGED <<attendees, attended, standing, edits, electors, receipts, tally, job, clock>>

\* Faulty: the votes of a cancelled meeting are left as they are.
CancelLeavingVotes ==
  /\ LiveMeeting /\ meeting' = "cancelled"
  /\ UNCHANGED <<attendees, attended, standing, edits, polls, job, clock>>

CancelMeeting ==
  /\ LiveMeeting /\ meeting' = "cancelled" /\ AllClosed
  /\ UNCHANGED <<attendees, attended, standing, edits, electors, receipts, tally, job, clock>>

DeleteMeeting ==
  /\ meeting \in {"pending", "cancelled"} /\ \A v \in Votes : vote[v] = NoVote
  /\ meeting' = "gone"
  /\ UNCHANGED <<attendees, attended, standing, edits, polls, job, clock>>

(* Votes *)
\* An anonymous vote is a weighted one whose ballots count once each.
WeightOf(p, kind) == IF kind = "equal" THEN 1 ELSE standing[p].weight

\* freezeElectorate: the active attendees that count for something.
Electorate(kind) ==
  LET E == {p \in attendees : standing[p].active /\ WeightOf(p, kind) > 0}
  IN  [p \in E |-> WeightOf(p, kind)]

CreateVote(v, kind, end) ==
  /\ LiveMeeting /\ vote[v] = NoVote /\ DOMAIN Electorate(kind) # {}
  /\ vote' = [vote EXCEPT ![v] = [status |-> "open", end |-> end, kind |-> kind]]
  /\ electors' = [electors EXCEPT ![v] = Electorate(kind)]
  /\ UNCHANGED <<people, receipts, tally, job, clock>>

Count(v, p, o, w) ==
  /\ receipts' = [receipts EXCEPT ![v] = @ \cup {p}]
  /\ tally' = [tally EXCEPT ![v][o] = [count |-> @.count + 1,
                 weight |-> @.weight + IF vote[v].kind = "anonymous" THEN 1 ELSE w]]
  /\ UNCHANGED <<people, vote, electors, job, clock>>

\* Faulty: the weight of today instead of the frozen one.
CastVoteAtTodaysWeight(v, p, o) ==
  /\ LiveMeeting /\ Open(v) /\ ~Due(v) /\ p \in attendees
  /\ p \in DOMAIN electors[v] \ receipts[v]
  /\ Count(v, p, o, WeightOf(p, vote[v].kind))

\* Faulty: the end of the vote is left to the expiry job.
CastVoteUntilClosed(v, p, o) ==
  /\ LiveMeeting /\ Open(v) /\ p \in attendees /\ p \in DOMAIN electors[v] \ receipts[v]
  /\ Count(v, p, o, electors[v][p])

\* A ballot for a due vote closes it and is refused, which takes the closing back.
CastVote(v, p, o) ==
  /\ LiveMeeting /\ Open(v) /\ ~Due(v) /\ p \in attendees
  /\ p \in DOMAIN electors[v] \ receipts[v]
  /\ Count(v, p, o, electors[v][p])

CloseVote(v) ==
  /\ Open(v) /\ vote' = [vote EXCEPT ![v].status = "closed", ![v].end = clock]
  /\ UNCHANGED <<people, electors, receipts, tally, job, clock>>

\* ensureExpiredClosed, in every look at a vote or its result.
ViewVote(v) ==
  /\ Open(v) /\ Due(v) /\ vote' = [vote EXCEPT ![v].status = "closed"]
  /\ UNCHANGED <<people, electors, receipts, tally, job, clock>>

(* The expiry job *)
DueVotes == {v \in Votes : Open(v) /\ Due(v)}

ListDueVotes ==
  /\ due = <<>> /\ DueVotes # {}
  /\ \E s \in [1..Cardinality(DueVotes) -> DueVotes] :
       /\ IsInjective(s) /\ due' = s
       /\ \A i, j \in DOMAIN s : i < j => vote[s[i]].end <= vote[s[j]].end
  /\ UNCHANGED <<people, polls, jobFailures, clock>>

\* Faulty: votes of a meeting that has started only.
CloseExpiredOfOngoing ==
  /\ due # <<>> /\ due' = Tail(due)
  /\ vote' = IF Open(Head(due)) /\ meeting = "ongoing"
             THEN [vote EXCEPT ![Head(due)].status = "closed"] ELSE vote
  /\ UNCHANGED <<people, electors, receipts, tally, jobFailures, clock>>

CloseExpiredVote ==
  /\ due # <<>> /\ due' = Tail(due)
  /\ vote' = IF Open(Head(due)) THEN [vote EXCEPT ![Head(due)].status = "closed"] ELSE vote
  /\ UNCHANGED <<people, electors, receipts, tally, jobFailures, clock>>

\* A transaction that fails ends this run of the job.
JobFails ==
  /\ due # <<>> /\ jobFailures < MaxJobFailures
  /\ due' = <<>> /\ jobFailures' = jobFailures + 1
  /\ UNCHANGED <<people, polls, clock>>

(* The world around: time, accounts, positions and their weights *)
Tick == clock < MaxClock /\ clock' = clock + 1 /\ UNCHANGED <<people, polls, job>>

EditStanding(p) ==
  /\ edits < MaxEdits /\ edits' = edits + 1
  /\ \E s \in [active : BOOLEAN, weight : 0..MaxWeight] : standing' = [standing EXCEPT ![p] = s]
  /\ UNCHANGED <<meeting, attendees, attended, polls, job, clock>>

MeetingNext ==
  \/ \E p \in People : AddAttendee(p) \/ RemoveAttendee(p) \/ CheckIn(p) \/ EditStanding(p)
  \/ StartMeeting \/ EndMeeting \/ CancelMeeting \/ DeleteMeeting
  \/ \E v \in Votes :
       \/ CloseVote(v) \/ ViewVote(v)
       \/ \E kind \in Kinds[v], end \in (clock + 1)..MaxClock \cup {Never} : CreateVote(v, kind, end)
       \/ \E p \in People, o \in Options : CastVote(v, p, o)
  \/ ListDueVotes \/ CloseExpiredVote \/ JobFails \/ Tick

MeetingSpec == MeetingInit /\ [][MeetingNext]_meetingVars

-----------------------------------------------------------------------------
\* Every variable keeps its shape.
MeetingTypeOK ==
  /\ meeting \in {"pending", "ongoing", "ended", "cancelled", "gone"}
  /\ attended \subseteq attendees /\ attendees \subseteq People
  /\ \A v \in Votes :
       /\ vote[v].status \in {"none", "open", "closed"}
       /\ vote[v].end \in 0..MaxClock \cup {Never}
       /\ DOMAIN electors[v] \subseteq People /\ receipts[v] \subseteq People
       /\ \A o \in Options : tally[v][o].count \in Nat /\ tally[v][o].weight \in Nat
  /\ due \in Seq(Votes) /\ clock \in 0..MaxClock

Counts(v) == [o \in Options |-> tally[v][o].count]
Weights(v) == [o \in Options |-> tally[v][o].weight]

\* The result counts every voter once, with the weight frozen when the vote was
\* opened, however positions and weights changed between the ballots.
TallyIsOfElectors ==
  \A v \in Votes :
    /\ receipts[v] \subseteq DOMAIN electors[v]
    /\ SumFunctionOnSet(Counts(v), Options) = Cardinality(receipts[v])
    /\ SumFunctionOnSet(Weights(v), Options) =
         IF vote[v].kind = "anonymous" THEN Cardinality(receipts[v])
         ELSE SumFunctionOnSet(electors[v], receipts[v])

\* Who may still vote cannot be taken off the list, nor who has voted.
ElectorsStayInvited ==
  \A v \in Votes : /\ receipts[v] \subseteq attendees
                   /\ Open(v) => DOMAIN electors[v] \subseteq attendees

\* A vote is open only while its meeting is to come or going on.
OpenVoteHasLiveMeeting == \A v \in Votes : Open(v) => LiveMeeting

\* The electorate and its weights are frozen when the vote is opened, for as long
\* as it is open, which is while the meeting is to come or going on.
ElectorateIsFrozen ==
  MeetingTypeOK /\ TallyIsOfElectors /\ ElectorsStayInvited /\ OpenVoteHasLiveMeeting

\* Nothing is counted once the vote is closed or its end has passed, and a
\* closed vote stays closed.
ResultIsFinal ==
  [][\A v \in Votes :
       vote[v].status = "closed" \/ (Open(v) /\ Due(v)) =>
         /\ tally'[v] = tally[v] /\ receipts'[v] = receipts[v]
         /\ vote[v].status = "closed" => vote'[v] = vote[v]]_meetingVars

\* A vote whose end has passed is closed also when nobody looks at it.
DueVoteIsClosed == \A v \in Votes : (Open(v) /\ Due(v)) ~> ~Open(v)
=============================================================================
