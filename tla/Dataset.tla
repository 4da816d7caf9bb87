-------------------------------- MODULE Dataset --------------------------------
(***************************************************************************)
(* The offline dataset of the baseline (experiments/baseline/collect.ts,    *)
(* observations.ts, decimal.ts): records of cases, written by whoever ran   *)
(* them and in any order, are refused as a whole or reported row by row.    *)
(* A time is a tick, a tenth of a second; an amount of seconds is a decimal *)
(* number as JavaScript prints it.  Free text, hashes and references are    *)
(* left out, and so are fields that no other field is compared with.        *)
(***************************************************************************)
EXTENDS Integers, Sequences, FiniteSets, SequencesExt

CONSTANTS RegistrationLists,   \* sequences of frozen registrations
          RunsOf(_),           \* the run records a registration may be given
          Null,
          MaxPhysical,         \* maxInferenceAttempts
          MaxElapsed,          \* elapsedMs, also the length of a scope
          FollowUpWindow,      \* seven days
          Finest               \* bound on the digits after an amount's decimal point

IsDecimal(d) == d \in [units : Int, scale : 0..Finest]
IsRun(run) ==
    /\ run.startedAt \in Int \cup {Null} /\ run.endedAt \in Int \cup {Null}
    /\ DOMAIN run.intervals = 1..Len(run.intervals) /\ Len(run.intervals) \in Nat
    /\ \A n \in DOMAIN run.intervals :
        LET i == run.intervals[n]
        IN /\ i.start \in Int \cup {Null} /\ i.end \in Int \cup {Null}
           /\ i.duration = Null \/ IsDecimal(i.duration)
           /\ i.confidence \in {"measured", "estimated", "unknown"}
IsRegistration(r) ==
    /\ r.cap = Null \/ IsDecimal(r.cap)
    /\ \A check \in r.checks : check.revisions \in {"base", "candidate", "both"}

ASSUME DatasetAssumption ==
    /\ Finest \in Nat
    /\ \A list \in RegistrationLists : \A r \in ToSet(list) :
        IsRegistration(r) /\ \A run \in RunsOf(r) : IsRun(run)

VARIABLES registrations, supplied, collected

datasetVars == <<registrations, supplied, collected>>

---------------------------------------------------------------------------
(* decimal.ts: no rounding enters a sum or a comparison *)

Tenfold(power, n) == 10 * power
PowerOfTen(k) == FoldLeft(Tenfold, 1, [n \in 1..k |-> n])
Plus(sum, amount) == sum + amount
SumOf(amounts) == FoldLeft(Plus, 0, amounts)

AtScale(d, scale) == d.units * PowerOfTen(scale - d.scale)
AddDecimals(ds) ==
    LET scale == Max({0} \cup {ds[i].scale : i \in DOMAIN ds})
    IN [units |-> SumOf([i \in DOMAIN ds |-> AtScale(ds[i], scale)]), scale |-> scale]
NoSeconds == [units |-> 0, scale |-> 0]
DecimalExcess(d, maximum) ==
    LET difference == AddDecimals(<<d, [maximum EXCEPT !.units = -@]>>)
    IN [difference EXCEPT !.units = IF @ > 0 THEN @ ELSE 0]
\* (end - start) / 1000
Seconds(ticks) == IF ticks % 10 = 0 THEN [units |-> ticks \div 10, scale |-> 0]
                                    ELSE [units |-> ticks, scale |-> 1]

---------------------------------------------------------------------------
(* observations.ts *)

\* The durations of a phase; an interval of the other adds nothing.
Durations(run, phase, confidence) ==
    [n \in DOMAIN run.intervals |->
        IF run.intervals[n].phase = phase /\ run.intervals[n].confidence = confidence
        THEN run.intervals[n].duration ELSE NoSeconds]
EffortDecimals(run, phase) ==
    LET rows == {n \in DOMAIN run.intervals : run.intervals[n].phase = phase}
    IN [total |-> AddDecimals(<<AddDecimals(Durations(run, phase, "measured")),
                                AddDecimals(Durations(run, phase, "estimated"))>>),
        complete |-> /\ rows # {} /\ phase \in run.coverage
                     /\ \A n \in rows : run.intervals[n].confidence # "unknown"]

Started(run) == run.startedAt # Null
Operations(run) == FlattenSeq([n \in DOMAIN run.attempts |-> run.attempts[n].operations])
FinalAttempt(run) == run.attempts[Len(run.attempts)]
DeclaredRevisions(check) == IF check.revisions = "both" THEN {"base", "candidate"} ELSE {check.revisions}

TimesFit(run) ==
    IF Started(run)
    THEN /\ run.registration.feasible
         /\ run.endedAt # Null /\ run.endedAt >= run.startedAt /\ run.startedAt >= run.registration.frozenAt
         /\ run.scope.startedAt = run.startedAt
         /\ run.scope.deadlineAt - run.startedAt = MaxElapsed
         /\ run.waiting # Null /\ run.elapsed # Null => run.waiting <= run.elapsed
    ELSE /\ run.status = "blocked" /\ run.attempts = <<>>
         /\ Null = run.endedAt /\ Null = run.elapsed /\ Null = run.waiting /\ Null = run.scope

AttemptsFit(run) ==
    /\ Started(run) => run.attempts # <<>>
    /\ \A n \in DOMAIN run.attempts :
        LET a == run.attempts[n]
        IN /\ a.startedAt >= run.startedAt /\ a.endedAt >= a.startedAt /\ a.endedAt <= run.endedAt
           /\ n > 1 => a.startedAt >= run.attempts[n - 1].endedAt

CountsFit(run) ==
    LET operations == Operations(run)
    IN Started(run) =>
        /\ IF run.scope.complete THEN run.scope.physical = Len(operations)
           ELSE run.scope.physical # Null => run.scope.physical >= Len(operations)
        /\ ~run.scope.complete \/ (\E n \in DOMAIN operations : operations[n] = "unknown")
            => run.scope.quiescence = "unknown"

ChecksFit(run) ==
    \A c \in run.checks :
        /\ \E declared \in run.registration.checks :
            declared.id = c.id /\ c.revision \in DeclaredRevisions(declared)
        /\ c.attempt = Null \/ \E n \in DOMAIN run.attempts : run.attempts[n].id = c.attempt
        /\ c.revision = "base" => c.artifact = Null

IntervalsFit(run) ==
    \A n \in DOMAIN run.intervals :
        LET i == run.intervals[n]
        IN IF i.confidence = "unknown" THEN Null = i.start /\ Null = i.end /\ Null = i.duration
           ELSE /\ i.duration # Null
                /\ i.start # Null \/ i.end # Null \/ i.confidence = "measured" =>
                    i.start # Null /\ i.end # Null /\ i.end >= i.start
                /\ i.confidence = "measured" => i.duration = Seconds(i.end - i.start)

LabelFits(run) ==
    LET a == run.acceptance
    IN /\ a.decision = Null => Null = a.labelledAt /\ Null = a.breach /\ Null = a.artifact
       /\ a.decision # Null => Started(run) /\ a.labelledAt >= run.endedAt
       /\ a.decision = "accepted" => ~a.breach /\ a.met
       /\ run.followUp # Null =>
            /\ a.decision = "accepted" /\ run.followUp.startedAt >= a.labelledAt
            /\ run.followUp.dueAt - run.followUp.startedAt = FollowUpWindow
            /\ run.followUp.completedAt # Null => run.followUp.completedAt >= run.followUp.dueAt

AcceptedFits(run) ==
    /\ run.acceptance.decision = "accepted" /\ Started(run)
    /\ run.scope.quiescence = "confirmed" /\ run.scope.complete
    /\ run.scope.physical \in 1..MaxPhysical
    /\ run.elapsed # Null /\ run.elapsed <= MaxElapsed /\ run.endedAt - run.startedAt <= MaxElapsed
    /\ FinalAttempt(run).status = "completed" /\ FinalAttempt(run).artifact = run.acceptance.artifact
    /\ \A check \in run.registration.checks : check.required =>
        \A revision \in DeclaredRevisions(check) : \E c \in run.checks :
            /\ c.id = check.id /\ c.revision = revision
            /\ revision = "candidate" => c.attempt = FinalAttempt(run).id /\ c.artifact = run.acceptance.artifact
    /\ run.registration.cap # Null =>
        LET e == EffortDecimals(run, "trial")
        IN e.complete /\ DecimalExcess(e.total, run.registration.cap).units = 0

ValidateRun(run) ==
    /\ TimesFit(run) /\ AttemptsFit(run) /\ CountsFit(run) /\ ChecksFit(run)
    /\ IntervalsFit(run) /\ LabelFits(run)
    /\ run.status = "accepted" => AcceptedFits(run)
    /\ run.status = "rejected" => run.acceptance.decision = "rejected"

---------------------------------------------------------------------------
(* collect.ts *)

\* One record per registered case, and a scope of its own for each started one.
OneRecordEach(runs) ==
    /\ {runs[n].registration : n \in DOMAIN runs} = ToSet(registrations)
    /\ Len(runs) = Len(registrations)
    /\ \A n, o \in DOMAIN runs :
        n # o /\ Started(runs[n]) /\ Started(runs[o]) => runs[n].scope.id # runs[o].scope.id

\* Intervals are sorted by their starts, and stay in the order they were given where those are equal.
StartsBefore(runs, n, i, m, j) ==
    LET first == runs[n].intervals[i].start
        second == runs[m].intervals[j].start
    IN first < second \/ (first = second /\ (n < m \/ (n = m /\ i < j)))
OperatorsAreSerial(runs) ==
    \A n, m \in DOMAIN runs : \A i \in DOMAIN runs[n].intervals, j \in DOMAIN runs[m].intervals :
        LET x == runs[n].intervals[i]
            y == runs[m].intervals[j]
        IN x.start # Null /\ y.start # Null /\ x.operator = y.operator /\ StartsBefore(runs, n, i, m, j) =>
            y.start >= x.end

Overlap(r, s) ==
    LET later == Max({r.startedAt, s.startedAt})
        earlier == Min({r.endedAt, s.endedAt})
    IN later < earlier
\* Slip: a case is compared with the one started before it, and not with every other.
NeighboursOverlap(runs, n) ==
    \E o \in DOMAIN runs : /\ runs[o].startedAt <= runs[n].startedAt /\ o # n
                           /\ \A p \in DOMAIN runs \ {n, o} : Started(runs[p]) =>
                                runs[p].startedAt <= runs[o].startedAt \/ runs[p].startedAt >= runs[n].startedAt
                           /\ runs[o].origin = runs[n].origin /\ Overlap(runs[o], runs[n])
Concurrent(runs, n) ==
    \E o \in DOMAIN runs \ {n} :
        Started(runs[o]) /\ runs[o].origin = runs[n].origin /\ Overlap(runs[o], runs[n])
AfterUnknown(runs, n) ==
    \E o \in DOMAIN runs : /\ Started(runs[o]) /\ runs[o].origin = runs[n].origin
                           /\ runs[o].startedAt < runs[n].startedAt
                           /\ runs[o].scope.quiescence = "unknown"
Replaces(run) ==
    \E n \in DOMAIN run.attempts : \E o \in DOMAIN run.attempts[n].operations :
        /\ run.attempts[n].operations[o] = "unknown"
        /\ o < Len(run.attempts[n].operations) \/ n < Len(run.attempts)
Violations(runs, n) ==
    IF ~Started(runs[n]) THEN {}
    ELSE (IF AfterUnknown(runs, n) THEN {"started-after-unknown-original"} ELSE {})
         \cup (IF Concurrent(runs, n) THEN {"concurrent-case"} ELSE {})
         \cup (IF Replaces(runs[n]) THEN {"replacement-after-unknown-original"} ELSE {})

Above(value, maximum) == IF value > maximum THEN value - maximum ELSE 0
Row(runs, n) ==
    LET run == runs[n]
        trial == EffortDecimals(run, "trial")
        operations == Len(Operations(run))
        counted == IF Started(run) /\ run.scope.physical # Null THEN run.scope.physical ELSE 0
        least == IF operations > counted THEN operations ELSE counted
    IN [origin |-> run.origin, started |-> Started(run), status |-> run.status,
        outputLabel |-> run.acceptance.decision,
        violations |-> Violations(runs, n),
        accepted |-> run.status = "accepted" /\ Violations(runs, n) = {},
        overrun |-> Above(least, MaxPhysical),
        excess |-> IF run.registration.cap = Null \/ ~trial.complete THEN Null
                   ELSE DecimalExcess(trial.total, run.registration.cap),
        followUpComplete |-> run.followUp # Null /\ run.followUp.completedAt # Null]

Total(runs, phase) ==
    LET cohort == {n \in DOMAIN runs : runs[n].origin = "operator"}
    IN IF cohort # {} /\ \A n \in cohort : EffortDecimals(runs[n], phase).complete
       THEN AddDecimals([n \in DOMAIN runs |->
                IF n \in cohort THEN EffortDecimals(runs[n], phase).total ELSE NoSeconds])
       ELSE Null

Report(runs) ==
    LET rows == [n \in DOMAIN runs |-> Row(runs, n)]
        trial == Total(runs, "trial")
        followUp == Total(runs, "follow-up")
    IN [rows |-> rows, trial |-> trial,
        allIn |-> IF /\ trial # Null /\ followUp # Null
                     /\ \A n \in DOMAIN rows : rows[n].origin = "operator" =>
                            rows[n].outputLabel # "accepted" \/ rows[n].followUpComplete
                  THEN AddDecimals(<<trial, followUp>>) ELSE Null]

---------------------------------------------------------------------------
DatasetInit == registrations = <<>> /\ supplied = <<>> /\ collected = Null

\* The cases are registered before any is run.
Register ==
    /\ registrations = <<>>
    /\ registrations' \in RegistrationLists
    /\ UNCHANGED <<supplied, collected>>

\* Whoever ran a case hands in its record.
Supply(run) ==
    /\ collected = Null /\ Len(supplied) < Len(registrations)
    /\ supplied' = Append(supplied, run)
    /\ UNCHANGED <<registrations, collected>>

CollectDataset ==
    /\ collected = Null /\ supplied # <<>>
    /\ collected' = IF /\ OneRecordEach(supplied)
                       /\ \A n \in DOMAIN supplied : ValidateRun(supplied[n])
                       /\ OperatorsAreSerial(supplied)
                    THEN Report(supplied) ELSE [rows |-> <<>>, trial |-> Null, allIn |-> Null]
    /\ UNCHANGED <<registrations, supplied>>

DatasetNext ==
    \/ Register
    \/ \E registration \in ToSet(registrations) : \E run \in RunsOf(registration) : Supply(run)
    \/ CollectDataset

---------------------------------------------------------------------------
InstantsOf(start, end) == start..(end - 1)
Ticks(d) == AtScale(d, Finest)
WorkedIn(run, phases) ==
    SumOf([n \in DOMAIN run.intervals |->
        IF run.intervals[n].phase \in phases THEN Ticks(run.intervals[n].duration) ELSE 0])
WorkedBy(cohort, phases) ==
    SumOf([n \in DOMAIN supplied |-> IF n \in cohort THEN WorkedIn(supplied[n], phases) ELSE 0])

(***************************************************************************)
(* Of a case that is reported accepted within its bounds: no other case of  *)
(* its cohort ran at any instant it ran, nothing that ended unheard was     *)
(* begun before it or replaced within it, the exact effort is within the    *)
(* cap and every required check saw the accepted artifact.  A total that is *)
(* reported is the exact sum of everything recorded for the cohort, and     *)
(* counts no instant of an operator twice (collectDataset, validateRun,     *)
(* addDecimals).                                                            *)
(***************************************************************************)
AcceptedRowIsTrue(n) ==
    LET run == supplied[n]
        cohort == {o \in DOMAIN supplied : supplied[o].origin = run.origin /\ Started(supplied[o])}
    IN /\ \A o \in cohort \ {n} :
            InstantsOf(run.startedAt, run.endedAt)
                \cap InstantsOf(supplied[o].startedAt, supplied[o].endedAt) = {}
       /\ \A o \in cohort : supplied[o].startedAt <= run.startedAt /\ (o = n \/ supplied[o].startedAt < run.startedAt) =>
            "unknown" \notin ToSet(Operations(supplied[o]))
       /\ Len(Operations(run)) \in 1..MaxPhysical
       /\ run.registration.cap # Null => WorkedIn(run, {"trial"}) <= Ticks(run.registration.cap)
       /\ \A check \in run.registration.checks : check.required /\ check.revisions # "base" =>
            \E c \in run.checks : c.id = check.id /\ c.artifact = run.acceptance.artifact
TotalsAreTrue ==
    LET cohort == {n \in DOMAIN supplied : supplied[n].origin = "operator"}
    IN /\ collected.trial # Null => Ticks(collected.trial) = WorkedBy(cohort, {"trial"})
       /\ collected.allIn # Null => Ticks(collected.allIn) = WorkedBy(cohort, {"trial", "follow-up"})
OperatorsWorkOnce ==
    \A n, m \in DOMAIN supplied : \A i \in DOMAIN supplied[n].intervals, j \in DOMAIN supplied[m].intervals :
        LET x == supplied[n].intervals[i]
            y == supplied[m].intervals[j]
        IN x.confidence = "measured" /\ y.confidence = "measured" /\ x.operator = y.operator /\ <<n, i>> # <<m, j>> =>
            InstantsOf(x.start, x.end) \cap InstantsOf(y.start, y.end) = {}
DatasetTellsTheTruth ==
    collected # Null =>
        /\ \A n \in DOMAIN collected.rows : collected.rows[n].accepted => AcceptedRowIsTrue(n)
        /\ TotalsAreTrue
        /\ collected.rows # <<>> => OperatorsWorkOnce
=============================================================================
