---------------------------- MODULE BoundaryProofs ----------------------------
(***************************************************************************)
(* What TLAPS proves of the inference boundary and its policy gate, for    *)
(* every value of the constants: what the journal tells of the provider,   *)
(* whatever crashes at whatever await, and the ledger it implements.       *)
(*                                                                         *)
(* The argument goes bottom up.  Good(j, p, o) is what a journal j must    *)
(* hold given what became of each request upstream and of its output; one  *)
(* lemma per operation on journals keeps it.  BoundaryInv adds what the    *)
(* queue, the answers not yet read and the policy in force must hold.      *)
(* GateMove and HandlerMove are what a step of either may do at all: every *)
(* action is shown to be one, and the two to keep the invariant, once.     *)
(***************************************************************************)
EXTENDS Boundary, FiniteSetTheorems, SequenceTheorems, WellFoundedInduction, NaturalsInduction, TLAPS

-----------------------------------------------------------------------------
(* The journal: what the operations of the gate keep of it, given what p    *)
(* tells of each request upstream and o of the output released to it.       *)

Positions(j) == DOMAIN j.decisions
Known(j) == Reserved(j) \cup Decided(j)
Spent(j, p, a) == {r \in Requests : AttemptOf[r] = a /\ (p[r] # "none" \/ r \in Known(j))}
Succeeded(j) == {j.decisions[i].request : i \in {k \in Positions(j) : j.decisions[k].verdict = "validated_success"}}

\* Every reservation is of the policy in force.
OneEpoch(j) == \A r \in Reserved(j) : j.reservations[r].epoch = j.epoch

\* There is room for the decision of every request that has none yet.
RoomToDecide(j) ==
    IF Receipts THEN Len(j.decisions) + Cardinality(Reserved(j) \ Decided(j)) <= MaxDecisions
    ELSE j.decisions = <<>>

DecidedOnce(j) == Cardinality(Decided(j)) = Len(j.decisions)

SendsAgree(j) ==
    \A i \in Positions(j) :
        LET d == j.decisions[i] IN
        /\ (d.verdict = "never_sent") = (d.send = "reserved")
        /\ d.request \in Reserved(j) =>
              j.reservations[d.request].send = d.send /\ d.verdict = "validated_success"

\* A decision stands before another request of its chain only if that request extends it.
Chained(j) ==
    Planner => \A i \in Positions(j) :
        /\ \A r \in Reserved(j) \ Decided(j) :
              ChainOf[j.decisions[i].request] = ChainOf[r] => Extends(j.decisions[i], r)
        /\ \A k \in Positions(j) :
              i < k /\ ChainOf[j.decisions[i].request] = ChainOf[j.decisions[k].request] =>
                 Extends(j.decisions[i], j.decisions[k].request)

\* One reservation at a time, and only the last decision is of a request still reserved.
OneAtATime(j) ==
    Serial =>
        /\ \A r, s \in Reserved(j) : r = s
        /\ \A i \in Positions(j) : j.decisions[i].request \in Reserved(j) => i = Len(j.decisions)

Limited(j) == \A a \in Attempts : Cardinality(ReservedBy(j, a)) <= Concurrency

\* What may be under way is reserved as possibly sent; what is over is not forgotten.
HoldsWork(j, p) ==
    \A r \in Requests :
        /\ p[r] \in {"sent", "running"} => r \in Reserved(j)
        /\ Receipts /\ p[r] # "none" =>
              /\ r \in Known(j)
              /\ r \in Reserved(j) => j.reservations[r].send = "send_possible"

\* Verdicts are what happened.
VerdictsTrue(j, p) ==
    \A i \in Positions(j) :
        LET r == j.decisions[i].request IN
        /\ j.decisions[i].verdict = "never_sent" => p[r] = "none"
        /\ j.decisions[i].verdict = "validated_success" => p[r] = "success"
        /\ j.decisions[i].verdict = "quiescent_failure" => p[r] \in {"success", "failure"}

CountsCover(j, p) == \A a \in Attempts : Cardinality(Spent(j, p, a)) <= j.counts[a]

DeliveriesTrue(j, o) ==
    \A i \in Positions(j) :
        j.decisions[i].delivery = "completed" => o[j.decisions[i].request] = "all"

Good(j, p, o) ==
    /\ j \in Journal
    /\ OneEpoch(j) /\ RoomToDecide(j) /\ DecidedOnce(j) /\ SendsAgree(j) /\ Chained(j)
    /\ OneAtATime(j) /\ Limited(j)
    /\ HoldsWork(j, p) /\ VerdictsTrue(j, p) /\ CountsCover(j, p) /\ DeliveriesTrue(j, o)

-----------------------------------------------------------------------------
(* The parts of a journal. *)

\* Sets of requests are finite.
LEMMA FiniteRequests == \A S \in SUBSET Requests : IsFiniteSet(S) /\ Cardinality(S) \in Nat
  BY CallersAssumption, FS_Subset, FS_CardinalityType

\* A larger set of requests has no smaller count.
LEMMA CardinalityGrows ==
    \A S, T \in SUBSET Requests : S \subseteq T => Cardinality(S) <= Cardinality(T)
  BY FiniteRequests, FS_Subset

\* What one more request does to a count.
LEMMA CardinalityAdds ==
    \A S \in SUBSET Requests : \A r \in Requests :
        Cardinality(S \cup {r}) = IF r \in S THEN Cardinality(S) ELSE Cardinality(S) + 1
  BY FiniteRequests, FS_AddElement

\* What one request less does to a count.
LEMMA CardinalityDrops ==
    \A S \in SUBSET Requests : \A r \in Requests :
        Cardinality(S \ {r}) = IF r \in S THEN Cardinality(S) - 1 ELSE Cardinality(S)
  BY FiniteRequests, FS_RemoveElement

\* The types of what a journal holds.
LEMMA JournalParts ==
    ASSUME NEW j \in Journal
    PROVE  /\ j.phase \in {"closed", "active", "draining", "mutating"}
           /\ j.epoch \in Nat
           /\ j.reservations \in [Requests -> Reservation \cup {None}]
           /\ j.counts \in [Attempts -> 0 .. RequestCount]
           /\ j.decisions \in Seq(Decision)
           /\ Len(j.decisions) \in Nat /\ Positions(j) = 1 .. Len(j.decisions)
           /\ \A i \in Positions(j) : j.decisions[i] \in Decision /\ j.decisions[i].request \in Decided(j)
           /\ Reserved(j) \in SUBSET Requests /\ Decided(j) \in SUBSET Requests
           /\ Known(j) \in SUBSET Requests
           /\ \A r \in Reserved(j) : j.reservations[r] \in Reservation
<1>1. /\ j.phase \in {"closed", "active", "draining", "mutating"}
      /\ j.epoch \in Nat
      /\ j.reservations \in [Requests -> Reservation \cup {None}]
      /\ j.counts \in [Attempts -> 0 .. RequestCount]
      /\ j.decisions \in Seq(Decision)
  BY DEF Journal
<1>2. Len(j.decisions) \in Nat /\ Positions(j) = 1 .. Len(j.decisions)
  BY <1>1 DEF Positions
<1>3. \A i \in Positions(j) : j.decisions[i] \in Decision /\ j.decisions[i].request \in Decided(j)
  BY <1>1, <1>2 DEF Positions, Decided
<1>4. \A i \in Positions(j) : j.decisions[i].request \in Requests
  BY <1>3 DEF Decision
<1>5. Reserved(j) \in SUBSET Requests /\ Decided(j) \in SUBSET Requests
  BY <1>4 DEF Reserved, Decided, Positions
<1>6. \A r \in Reserved(j) : j.reservations[r] \in Reservation
  BY <1>1 DEF Reserved
<1>7. QED
  BY <1>1, <1>2, <1>3, <1>5, <1>6 DEF Known

\* A record of such parts is a journal.
LEMMA JournalIs ==
    ASSUME NEW ph \in {"closed", "active", "draining", "mutating"}, NEW e \in Nat,
           NEW res \in [Requests -> Reservation \cup {None}],
           NEW cnt \in [Attempts -> 0 .. RequestCount], NEW dec \in Seq(Decision)
    PROVE  [phase |-> ph, epoch |-> e, reservations |-> res, counts |-> cnt, decisions |-> dec] \in Journal
  BY DEF Journal

\* Fewer reservations, in the same or another phase, epoch or outcome.
LEMMA GoodShrinks ==
    ASSUME NEW p, NEW o, NEW j, Good(j, p, o), NEW k \in Journal,
           k.decisions = j.decisions, k.counts = j.counts,
           Reserved(k) \subseteq Reserved(j),
           \A r \in Reserved(k) : k.reservations[r].send = j.reservations[r].send,
           OneEpoch(k),
           \A r \in Reserved(j) \ Reserved(k) :
              /\ p[r] \notin {"sent", "running"}
              /\ Receipts /\ p[r] # "none" => r \in Decided(j)
    PROVE  Good(k, p, o)
<1>1. j \in Journal
  BY DEF Good
<1>2. Decided(k) = Decided(j) /\ Positions(k) = Positions(j) /\ Known(k) \subseteq Known(j)
  BY DEF Decided, Positions, Known
<1>3. RoomToDecide(k)
  <2>1. Cardinality(Reserved(k) \ Decided(k)) <= Cardinality(Reserved(j) \ Decided(j))
    BY <1>1, <1>2, JournalParts, CardinalityGrows
  <2>2. /\ Cardinality(Reserved(k) \ Decided(k)) \in Nat
        /\ Cardinality(Reserved(j) \ Decided(j)) \in Nat
    BY <1>1, JournalParts, FiniteRequests
  <2>3. QED
    BY <1>1, <2>1, <2>2, JournalParts, LimitsAssumption DEF Good, RoomToDecide
<1>4. DecidedOnce(k) /\ SendsAgree(k) /\ OneAtATime(k)
  BY <1>2 DEF Good, DecidedOnce, SendsAgree, OneAtATime
<1>5. Chained(k)
  BY <1>2 DEF Good, Chained
<1>6. Limited(k)
  <2>1. ASSUME NEW a \in Attempts PROVE Cardinality(ReservedBy(k, a)) <= Concurrency
    <3>1. ReservedBy(k, a) \subseteq ReservedBy(j, a) /\ ReservedBy(j, a) \in SUBSET Requests
      BY DEF ReservedBy, Reserved
    <3>2. Cardinality(ReservedBy(j, a)) <= Concurrency
      BY DEF Good, Limited
    <3>3. QED
      BY <3>1, <3>2, CardinalityGrows, FiniteRequests, LimitsAssumption
  <2>2. QED
    BY <2>1 DEF Limited
<1>7. HoldsWork(k, p)
  BY <1>2 DEF Good, HoldsWork, Known
<1>8. VerdictsTrue(k, p) /\ DeliveriesTrue(k, o)
  BY <1>2 DEF Good, VerdictsTrue, DeliveriesTrue
<1>9. CountsCover(k, p)
  <2>1. ASSUME NEW a \in Attempts PROVE Cardinality(Spent(k, p, a)) <= k.counts[a]
    <3>1. Spent(k, p, a) \subseteq Spent(j, p, a) /\ Spent(j, p, a) \in SUBSET Requests
      BY <1>2 DEF Spent
    <3>2. Cardinality(Spent(j, p, a)) <= j.counts[a] /\ j.counts[a] \in Nat
      BY <1>1, JournalParts, LimitsAssumption DEF Good, CountsCover
    <3>3. QED
      BY <3>1, <3>2, CardinalityGrows, FiniteRequests
  <2>2. QED
    BY <2>1 DEF CountsCover
<1>10. QED
  BY <1>3, <1>4, <1>5, <1>6, <1>7, <1>8, <1>9 DEF Good

\* One more decision, of a reservation that is released unless it succeeded.
LEMMA GoodDecides ==
    ASSUME NEW p, NEW o, NEW j, Good(j, p, o), Receipts,
           NEW r \in Reserved(j) \ Decided(j), NEW d \in Decision,
           d.request = r, d.send = j.reservations[r].send, d.delivery = "unobserved",
           (d.verdict = "never_sent") = (d.send = "reserved"),
           d.verdict = "never_sent" => p[r] = "none",
           d.verdict = "validated_success" => p[r] = "success",
           d.verdict = "quiescent_failure" => p[r] \in {"success", "failure"},
           NEW k \in Journal,
           k.decisions = Append(j.decisions, d), k.counts = j.counts, k.epoch = j.epoch,
           \/ Reserved(k) = Reserved(j) /\ d.verdict = "validated_success"
           \/ Reserved(k) = Reserved(j) \ {r} /\ p[r] \notin {"sent", "running"},
           \A s \in Reserved(k) : k.reservations[s] = j.reservations[s]
    PROVE  Good(k, p, o)
<1> DEFINE n == Len(j.decisions)
<1>1. /\ j \in Journal /\ n \in Nat /\ Positions(j) = 1 .. n
      /\ Reserved(j) \in SUBSET Requests /\ Decided(j) \in SUBSET Requests /\ r \in Requests
      /\ j.decisions \in Seq(Decision)
  BY JournalParts DEF Good
<1>2. /\ Len(k.decisions) = n + 1 /\ Positions(k) = 1 .. (n + 1)
      /\ \A i \in Positions(j) : k.decisions[i] = j.decisions[i]
      /\ k.decisions[n + 1] = d
  BY <1>1 DEF Positions
<1>3. Positions(k) = Positions(j) \cup {n + 1}
  BY <1>1, <1>2
<1>4. Decided(k) = Decided(j) \cup {r}
  <2>1. Decided(k) = {k.decisions[i].request : i \in Positions(j) \cup {n + 1}}
    BY <1>3 DEF Decided, Positions
  <2>2. Decided(j) = {k.decisions[i].request : i \in Positions(j)}
    BY <1>2 DEF Decided, Positions
  <2>3. {k.decisions[i].request : i \in Positions(j) \cup {n + 1}}
          = {k.decisions[i].request : i \in Positions(j)} \cup {k.decisions[n + 1].request}
    OBVIOUS
  <2>4. QED
    BY <2>1, <2>2, <2>3, <1>2
<1>5. Known(k) = Known(j) /\ Reserved(k) \ Decided(k) = (Reserved(j) \ Decided(j)) \ {r}
  BY <1>4 DEF Known
<1>6. \A i \in Positions(j) : j.decisions[i].request # r
  BY <1>1, JournalParts
<1> HIDE DEF n
<1>7. OneEpoch(k)
  BY DEF Good, OneEpoch
<1>8. RoomToDecide(k)
  <2>1. Cardinality(Reserved(k) \ Decided(k)) = Cardinality(Reserved(j) \ Decided(j)) - 1
    BY <1>1, <1>5, CardinalityDrops
  <2>2. n + Cardinality(Reserved(j) \ Decided(j)) <= MaxDecisions
        /\ Cardinality(Reserved(j) \ Decided(j)) \in Nat
    BY <1>1, FiniteRequests DEF Good, RoomToDecide, n
  <2>3. QED
    BY <1>1, <1>2, <2>1, <2>2, LimitsAssumption DEF RoomToDecide
<1>9. DecidedOnce(k)
  <2>1. Cardinality(Decided(k)) = Cardinality(Decided(j)) + 1
    BY <1>1, <1>4, CardinalityAdds
  <2>2. QED
    BY <1>2, <2>1 DEF Good, DecidedOnce, n
<1>10. SendsAgree(k)
  <2>1. ASSUME NEW i \in Positions(j)
        PROVE  LET c == k.decisions[i] IN
               /\ (c.verdict = "never_sent") = (c.send = "reserved")
               /\ c.request \in Reserved(k) =>
                     k.reservations[c.request].send = c.send /\ c.verdict = "validated_success"
    <3> DEFINE c == j.decisions[i]
    <3>1. /\ (c.verdict = "never_sent") = (c.send = "reserved")
          /\ c.request \in Reserved(j) =>
                j.reservations[c.request].send = c.send /\ c.verdict = "validated_success"
      BY DEF Good, SendsAgree
    <3>2. k.decisions[i] = c
      BY <1>2
    <3>3. c.request \in Reserved(k) => c.request \in Reserved(j) /\ k.reservations[c.request] = j.reservations[c.request]
      OBVIOUS
    <3> HIDE DEF c
    <3>4. QED
      BY <3>1, <3>2, <3>3
  <2>2. d.request \in Reserved(k) => k.reservations[r].send = d.send /\ d.verdict = "validated_success"
    OBVIOUS
  <2>3. QED
    BY <1>2, <1>3, <2>1, <2>2 DEF SendsAgree
<1>11. OneAtATime(k)
  <2>1. ASSUME Serial, NEW i \in Positions(k), k.decisions[i].request \in Reserved(k)
        PROVE  i = n + 1
    <3>1. ASSUME i \in Positions(j) PROVE FALSE
      <4>1. j.decisions[i].request \in Reserved(j) /\ j.decisions[i].request # r
        BY <1>2, <1>6, <2>1, <3>1
      <4>2. QED
        BY <4>1, <2>1 DEF Good, OneAtATime
    <3>2. QED
      BY <1>3, <3>1
  <2>2. Serial => \A s, t \in Reserved(k) : s = t
    BY DEF Good, OneAtATime
  <2>3. QED
    BY <1>2, <2>1, <2>2 DEF OneAtATime
<1>12. Chained(k)
  <2> SUFFICES ASSUME Planner PROVE Chained(k)
    BY DEF Chained
  <2>1. Reserved(k) \ Decided(k) = {}
    BY <1>5, ModesAssumption DEF Good, OneAtATime
  <2>2. ASSUME NEW i \in Positions(k), NEW m \in Positions(k), i < m,
               ChainOf[k.decisions[i].request] = ChainOf[k.decisions[m].request]
        PROVE  Extends(k.decisions[i], k.decisions[m].request)
    <3>1. i \in Positions(j)
      BY <1>1, <1>2, <2>2
    <3>2. CASE m \in Positions(j)
      BY <1>2, <2>2, <3>1, <3>2 DEF Good, Chained
    <3>3. CASE m = n + 1
      BY <1>2, <2>2, <3>1, <3>3 DEF Good, Chained
    <3>4. QED
      BY <1>3, <3>2, <3>3
  <2>3. QED
    BY <2>1, <2>2 DEF Chained
<1>13. Limited(k)
  <2>1. ASSUME NEW a \in Attempts PROVE Cardinality(ReservedBy(k, a)) <= Concurrency
    <3>1. ReservedBy(k, a) \subseteq ReservedBy(j, a) /\ ReservedBy(j, a) \in SUBSET Requests
      BY DEF ReservedBy, Reserved
    <3>2. Cardinality(ReservedBy(j, a)) <= Concurrency
      BY DEF Good, Limited
    <3>3. QED
      BY <3>1, <3>2, CardinalityGrows, FiniteRequests, LimitsAssumption
  <2>2. QED
    BY <2>1 DEF Limited
<1>14. HoldsWork(k, p)
  <2>1. ASSUME NEW s \in Requests PROVE p[s] \in {"sent", "running"} => s \in Reserved(k)
    <3>1. p[s] \in {"sent", "running"} => s \in Reserved(j)
      BY DEF Good, HoldsWork
    <3>2. QED
      BY <3>1
  <2>2. ASSUME NEW s \in Requests, p[s] # "none"
        PROVE  s \in Known(k) /\ (s \in Reserved(k) => k.reservations[s].send = "send_possible")
    BY <1>5, <2>2 DEF Good, HoldsWork
  <2>3. QED
    BY <2>1, <2>2 DEF HoldsWork
<1>15. VerdictsTrue(k, p) /\ DeliveriesTrue(k, o)
  BY <1>2, <1>3 DEF Good, VerdictsTrue, DeliveriesTrue
<1>16. CountsCover(k, p)
  BY <1>5 DEF Good, CountsCover, Spent
<1>17. QED
  BY <1>7, <1>8, <1>9, <1>10, <1>11, <1>12, <1>13, <1>14, <1>15, <1>16 DEF Good

\* A reservation is marked as possibly sent.
LEMMA GoodMarks ==
    ASSUME NEW p, NEW o, NEW j, Good(j, p, o), NEW r \in Reserved(j),
           j.reservations[r].send = "reserved",
           NEW k \in Journal, k.decisions = j.decisions, k.counts = j.counts, k.epoch = j.epoch,
           Reserved(k) = Reserved(j), k.reservations[r].send = "send_possible",
           k.reservations[r].epoch = j.reservations[r].epoch,
           \A s \in Reserved(j) \ {r} : k.reservations[s] = j.reservations[s]
    PROVE  Good(k, p, o)
<1>1. Decided(k) = Decided(j) /\ Positions(k) = Positions(j) /\ Known(k) = Known(j)
  BY DEF Decided, Positions, Known
<1>2. \A i \in Positions(j) : j.decisions[i].request # r
  BY DEF Good, SendsAgree
<1>3. OneEpoch(k)
  BY DEF Good, OneEpoch
<1>4. RoomToDecide(k) /\ DecidedOnce(k) /\ OneAtATime(k)
  BY <1>1 DEF Good, RoomToDecide, DecidedOnce, OneAtATime
<1>5. SendsAgree(k)
  BY <1>1, <1>2 DEF Good, SendsAgree
<1>6. Chained(k)
  BY <1>1 DEF Good, Chained
<1>7. Limited(k) /\ CountsCover(k, p)
  BY <1>1 DEF Good, Limited, ReservedBy, CountsCover, Spent
<1>8. HoldsWork(k, p)
  BY <1>1 DEF Good, HoldsWork
<1>9. VerdictsTrue(k, p) /\ DeliveriesTrue(k, o)
  BY <1>1 DEF Good, VerdictsTrue, DeliveriesTrue
<1>10. QED
  BY <1>3, <1>4, <1>5, <1>6, <1>7, <1>8, <1>9 DEF Good

\* Decisions of one chain, if there are any, have a last one.
LEMMA LastPosition ==
    ASSUME NEW n \in Nat, NEW I \in SUBSET (1 .. n), I # {}
    PROVE  \E i \in I : \A k \in I : k <= i
<1> DEFINE R == OpToRel(<, Nat)
           T == {n - i : i \in I}
<1>1. T \subseteq Nat /\ T # {}
  <2>1. \A i \in I : n - i \in Nat
    OBVIOUS
  <2>2. PICK i \in I : TRUE
    OBVIOUS
  <2>3. n - i \in T
    OBVIOUS
  <2>4. QED
    BY <2>1, <2>3
<1>2. PICK m \in T : \A l \in T : <<l, m>> \notin R
  <2> HIDE DEF R, T
  <2>1. IsWellFoundedOn(R, Nat)
    BY NatLessThanWellFounded DEF R
  <2>2. QED
    BY <1>1, <2>1, WFMin
<1>3. PICK i \in I : m = n - i
  OBVIOUS
<1>4. ASSUME NEW k \in I PROVE k <= i
  <2>1. n - k \in T /\ n - k \in Nat /\ m \in Nat
    OBVIOUS
  <2>2. CASE n - k < m
    <3>1. <<n - k, m>> \in Nat \X Nat /\ <<n - k, m>>[1] = n - k /\ <<n - k, m>>[2] = m
      BY <2>1
    <3>2. <<n - k, m>> \in R
      BY <2>2, <3>1 DEF OpToRel
    <3>3. QED
      BY <1>2, <2>1, <3>2
  <2>3. QED
    BY <1>3, <2>2
<1>5. QED
  BY <1>4

\* What the last decision of a chain lets follow, every decision of it lets follow.
LEMMA ContinuesAll ==
    ASSUME NEW p, NEW o, NEW j, Good(j, p, o), Planner, NEW r \in Requests, Continues(j, r),
           NEW i \in Positions(j), ChainOf[j.decisions[i].request] = ChainOf[r]
    PROVE  Extends(j.decisions[i], r)
<1> DEFINE I == Chain(j, ChainOf[r])
<1>1. j \in Journal
  BY DEF Good
<1>2. I \in SUBSET (1 .. Len(j.decisions)) /\ i \in I /\ Len(j.decisions) \in Nat
  BY <1>1, JournalParts DEF Chain, Positions
<1>3. PICK l \in I : \A k \in I : k <= l
  <2> HIDE DEF I
  <2>1. QED
    BY <1>2, LastPosition
<1>4. Extends(j.decisions[l], r)
  BY <1>3 DEF Continues
<1>5. CASE i = l
  BY <1>4, <1>5
<1>6. CASE i # l
  <2>1. i < l /\ l \in Positions(j) /\ ChainOf[j.decisions[l].request] = ChainOf[r]
    BY <1>2, <1>3, <1>6 DEF Chain, Positions
  <2>2. Extends(j.decisions[i], j.decisions[l].request)
    BY <2>1 DEF Good, Chained
  <2>3. QED
    BY <1>4, <2>2 DEF Extends
<1>7. QED
  BY <1>5, <1>6

\* A request nobody knew is reserved, within all limits.
LEMMA GoodReserves ==
    ASSUME NEW p, NEW o, NEW j, Good(j, p, o), NEW r \in Requests, r \notin Known(j),
           p[r] = "none", Continues(j, r),
           Receipts => Len(j.decisions) + Cardinality(Reserved(j)) < MaxDecisions,
           Serial => Reserved(j) = {},
           Cardinality(ReservedBy(j, AttemptOf[r])) < Concurrency,
           j.counts[AttemptOf[r]] < RequestCount,
           NEW k \in Journal, k.decisions = j.decisions, k.epoch = j.epoch,
           k.counts[AttemptOf[r]] = j.counts[AttemptOf[r]] + 1,
           \A a \in Attempts \ {AttemptOf[r]} : k.counts[a] = j.counts[a],
           Reserved(k) = Reserved(j) \cup {r}, k.reservations[r].epoch = k.epoch,
           \A s \in Reserved(j) : k.reservations[s] = j.reservations[s]
    PROVE  Good(k, p, o)
<1>1. /\ j \in Journal /\ Len(j.decisions) \in Nat
      /\ Reserved(j) \in SUBSET Requests /\ Decided(j) \in SUBSET Requests
      /\ j.counts \in [Attempts -> 0 .. RequestCount]
      /\ AttemptOf[r] \in Attempts
      /\ \A i \in Positions(j) : j.decisions[i].request \in Decided(j)
  BY JournalParts, CallersAssumption DEF Good
<1>2. /\ Decided(k) = Decided(j) /\ Positions(k) = Positions(j) /\ Known(k) = Known(j) \cup {r}
      /\ r \notin Decided(j) /\ r \notin Reserved(j)
      /\ Reserved(k) \ Decided(k) = (Reserved(j) \ Decided(j)) \cup {r}
  BY DEF Decided, Positions, Known
<1>3. OneEpoch(k)
  BY DEF Good, OneEpoch
<1>4. RoomToDecide(k)
  <2>1. Cardinality((Reserved(j) \ Decided(j)) \cup {r}) = Cardinality(Reserved(j) \ Decided(j)) + 1
    BY <1>1, <1>2, CardinalityAdds
  <2>2. Cardinality(Reserved(j) \ Decided(j)) <= Cardinality(Reserved(j))
    BY <1>1, CardinalityGrows
  <2>3. Cardinality(Reserved(j) \ Decided(j)) \in Nat /\ Cardinality(Reserved(j)) \in Nat
    BY <1>1, FiniteRequests
  <2>4. Cardinality(Reserved(k) \ Decided(k)) = Cardinality(Reserved(j) \ Decided(j)) + 1
    BY <1>2, <2>1
  <2>5. Receipts => Len(j.decisions) + Cardinality(Reserved(k) \ Decided(k)) <= MaxDecisions
    BY <1>1, <2>2, <2>3, <2>4, LimitsAssumption
  <2>6. ~Receipts => k.decisions = <<>>
    BY DEF Good, RoomToDecide
  <2>7. QED
    BY <2>5, <2>6 DEF RoomToDecide
<1>5. DecidedOnce(k)
  BY <1>2 DEF Good, DecidedOnce
<1>6. SendsAgree(k)
  BY <1>1, <1>2 DEF Good, SendsAgree
<1>7. Chained(k)
  <2>1. ASSUME Planner, NEW i \in Positions(k), NEW s \in Reserved(k) \ Decided(k),
               ChainOf[j.decisions[i].request] = ChainOf[s]
        PROVE  Extends(j.decisions[i], s)
    <3>1. s = r
      BY <1>2, <2>1, ModesAssumption
    <3>2. QED
      BY <1>2, <2>1, <3>1, ContinuesAll
  <2>2. QED
    BY <1>2, <2>1 DEF Good, Chained
<1>8. OneAtATime(k)
  BY <1>1, <1>2 DEF Good, OneAtATime
<1>9. Limited(k)
  <2>1. ASSUME NEW a \in Attempts PROVE Cardinality(ReservedBy(k, a)) <= Concurrency
    <3>1. ReservedBy(j, a) \in SUBSET Requests /\ Cardinality(ReservedBy(j, a)) \in Nat
      BY FiniteRequests DEF ReservedBy, Reserved
    <3>2. CASE a = AttemptOf[r]
      <4>1. ReservedBy(k, a) = ReservedBy(j, a) \cup {r} /\ r \notin ReservedBy(j, a)
        BY <1>2, <3>2 DEF ReservedBy
      <4>2. Cardinality(ReservedBy(k, a)) = Cardinality(ReservedBy(j, a)) + 1
        BY <3>1, <4>1, CardinalityAdds
      <4>3. Cardinality(ReservedBy(j, a)) < Concurrency
        BY <3>2
      <4>4. QED
        BY <3>1, <4>2, <4>3, LimitsAssumption
    <3>3. CASE a # AttemptOf[r]
      <4>1. ReservedBy(k, a) = ReservedBy(j, a)
        BY <3>3 DEF ReservedBy
      <4>2. QED
        BY <4>1 DEF Good, Limited
    <3>4. QED
      BY <3>2, <3>3
  <2>2. QED
    BY <2>1 DEF Limited
<1>10. HoldsWork(k, p)
  <2>1. ASSUME NEW s \in Requests
        PROVE  /\ p[s] \in {"sent", "running"} => s \in Reserved(k)
               /\ Receipts /\ p[s] # "none" =>
                     s \in Known(k) /\ (s \in Reserved(k) => k.reservations[s].send = "send_possible")
    <3>1. CASE s = r
      BY <3>1
    <3>2. CASE s # r
      BY <1>2, <3>2 DEF Good, HoldsWork
    <3>3. QED
      BY <3>1, <3>2
  <2>2. QED
    BY <2>1 DEF HoldsWork
<1>11. VerdictsTrue(k, p) /\ DeliveriesTrue(k, o)
  BY <1>2 DEF Good, VerdictsTrue, DeliveriesTrue
<1>12. CountsCover(k, p)
  <2>1. ASSUME NEW a \in Attempts PROVE Cardinality(Spent(k, p, a)) <= k.counts[a]
    <3>1. /\ Spent(j, p, a) \in SUBSET Requests /\ Cardinality(Spent(j, p, a)) <= j.counts[a]
          /\ Cardinality(Spent(j, p, a)) \in Nat
      BY FiniteRequests DEF Spent, Good, CountsCover
    <3>2. CASE a = AttemptOf[r]
      <4>1. Spent(k, p, a) = Spent(j, p, a) \cup {r} /\ r \notin Spent(j, p, a)
        BY <1>2, <3>2 DEF Spent
      <4>2. Cardinality(Spent(k, p, a)) = Cardinality(Spent(j, p, a)) + 1
        BY <3>1, <4>1, CardinalityAdds
      <4>3. k.counts[a] = j.counts[a] + 1 /\ j.counts[a] \in Nat
        BY <1>1, <3>2, LimitsAssumption
      <4>4. QED
        BY <3>1, <4>2, <4>3, <4>1, FiniteRequests
    <3>3. CASE a # AttemptOf[r]
      <4>1. Spent(k, p, a) = Spent(j, p, a) /\ k.counts[a] = j.counts[a]
        BY <1>1, <1>2, <3>3 DEF Spent
      <4>2. QED
        BY <3>1, <4>1
    <3>4. QED
      BY <3>2, <3>3
  <2>2. QED
    BY <2>1 DEF CountsCover
<1>13. QED
  BY <1>3, <1>4, <1>5, <1>6, <1>7, <1>8, <1>9, <1>10, <1>11, <1>12 DEF Good

\* The delivery of the last decision is observed.
LEMMA GoodDelivers ==
    ASSUME NEW p, NEW o, NEW j, Good(j, p, o), NEW r \in Requests, r \notin Reserved(j),
           Planner => /\ Reserved(j) = {}
                      /\ \A i \in Positions(j) : j.decisions[i].request = r => i = Len(j.decisions),
           NEW k \in Journal, k.counts = j.counts, k.epoch = j.epoch, k.reservations = j.reservations,
           Len(k.decisions) = Len(j.decisions),
           \A i \in Positions(j) :
              /\ k.decisions[i].request = j.decisions[i].request
              /\ k.decisions[i].verdict = j.decisions[i].verdict
              /\ k.decisions[i].send = j.decisions[i].send
              /\ j.decisions[i].request # r => k.decisions[i] = j.decisions[i]
              /\ j.decisions[i].request = r =>
                    (k.decisions[i].delivery = "completed" => o[r] = "all")
    PROVE  Good(k, p, o)
<1>1. /\ j \in Journal /\ Len(j.decisions) \in Nat /\ Positions(j) = 1 .. Len(j.decisions)
      /\ \A i \in Positions(j) : j.decisions[i] \in Decision
  BY JournalParts DEF Good
<1>2. Positions(k) = Positions(j)
  BY <1>1 DEF Positions, Journal
<1>3. \A i \in Positions(j) :
         /\ k.decisions[i].request = j.decisions[i].request
         /\ k.decisions[i].verdict = j.decisions[i].verdict
         /\ k.decisions[i].send = j.decisions[i].send
         /\ j.decisions[i].request # r => k.decisions[i] = j.decisions[i]
         /\ j.decisions[i].request = r =>
               (k.decisions[i].delivery = "completed" => o[r] = "all")
  OBVIOUS
<1>4. Decided(k) = Decided(j)
  BY <1>2, <1>3 DEF Decided, Positions
<1>5. Reserved(k) = Reserved(j) /\ Known(k) = Known(j)
  BY <1>4 DEF Reserved, Known
<1>6. OneEpoch(k) /\ RoomToDecide(k) /\ DecidedOnce(k)
  <2>1. j.decisions = <<>> => k.decisions = <<>>
    BY <1>1, EmptySeq DEF Journal
  <2>2. QED
    BY <1>4, <1>5, <2>1 DEF Good, OneEpoch, RoomToDecide, DecidedOnce
<1>7. SendsAgree(k)
  BY <1>2, <1>3, <1>5 DEF Good, SendsAgree
<1>8. OneAtATime(k)
  BY <1>2, <1>3, <1>5 DEF Good, OneAtATime
<1>9. Chained(k)
  <2>1. ASSUME Planner, NEW i \in Positions(j), NEW m \in Positions(j), i < m,
               ChainOf[j.decisions[i].request] = ChainOf[j.decisions[m].request]
        PROVE  Extends(k.decisions[i], k.decisions[m].request)
    <3>1. j.decisions[i].request # r
      BY <1>1, <2>1
    <3>2. Extends(j.decisions[i], j.decisions[m].request)
      BY <2>1 DEF Good, Chained
    <3>3. QED
      BY <1>3, <3>1, <3>2
  <2>2. QED
    BY <1>2, <1>3, <1>5, <2>1 DEF Chained
<1>10. Limited(k) /\ CountsCover(k, p)
  BY <1>5 DEF Good, Limited, ReservedBy, CountsCover, Spent
<1>11. HoldsWork(k, p)
  BY <1>5 DEF Good, HoldsWork
<1>12. VerdictsTrue(k, p)
  BY <1>2, <1>3 DEF Good, VerdictsTrue
<1>13. DeliveriesTrue(k, o)
  BY <1>2, <1>3 DEF Good, DeliveriesTrue
<1>14. QED
  BY <1>6, <1>7, <1>8, <1>9, <1>10, <1>11, <1>12, <1>13 DEF Good

\* A good journal stays good when the provider moves on and output is released.
LEMMA GoodStays ==
    ASSUME NEW p, NEW o, NEW j, Good(j, p, o), NEW q, NEW u,
           \A r \in Requests : /\ p[r] = "none" <=> q[r] = "none"
                               /\ q[r] \in {"sent", "running"} => p[r] \in {"sent", "running"}
                               /\ p[r] \in {"success", "failure"} => q[r] = p[r],
           \A r \in Requests : o[r] = "all" => u[r] = "all"
    PROVE  Good(j, q, u)
<1>1. j \in Journal /\ \A i \in Positions(j) : j.decisions[i].request \in Requests
  BY JournalParts DEF Good
<1>2. HoldsWork(j, q)
  BY DEF Good, HoldsWork
<1>3. VerdictsTrue(j, q) /\ DeliveriesTrue(j, u)
  BY <1>1 DEF Good, VerdictsTrue, DeliveriesTrue
<1>4. \A a : Spent(j, q, a) = Spent(j, p, a)
  BY DEF Spent
<1>5. CountsCover(j, q)
  BY <1>4 DEF Good, CountsCover
<1>6. QED
  BY <1>1, <1>2, <1>3, <1>5 DEF Good

\* It stays good when a request it holds as possibly sent is sent.
LEMMA GoodSends ==
    ASSUME NEW p, NEW o, NEW j, Good(j, p, o), NEW r \in Reserved(j), p[r] = "none",
           Receipts => j.reservations[r].send = "send_possible",
           NEW q, q[r] = "sent", \A s \in Requests \ {r} : q[s] = p[s]
    PROVE  Good(j, q, o)
<1>1. /\ j \in Journal /\ \A i \in Positions(j) : j.decisions[i].request \in Requests
      /\ \A i \in Positions(j) : j.decisions[i] \in Decision
  BY JournalParts DEF Good
<1>2. r \in Known(j) /\ r \in Requests
  BY DEF Known, Reserved
<1>3. HoldsWork(j, q)
  BY <1>2 DEF Good, HoldsWork
<1>4. \A i \in Positions(j) : j.decisions[i].request # r
  <2>1. ASSUME NEW i \in Positions(j), j.decisions[i].request = r PROVE FALSE
    <3>1. Receipts
      BY <2>1 DEF Good, RoomToDecide, Positions
    <3>2. j.decisions[i].verdict = "validated_success"
      BY <2>1 DEF Good, SendsAgree
    <3>3. QED
      BY <2>1, <3>2 DEF Good, VerdictsTrue
  <2>2. QED
    BY <2>1
<1>5. VerdictsTrue(j, q)
  BY <1>1, <1>4 DEF Good, VerdictsTrue
<1>6. \A a : Spent(j, q, a) = Spent(j, p, a)
  BY <1>2 DEF Spent
<1>7. CountsCover(j, q)
  BY <1>6 DEF Good, CountsCover
<1>8. QED
  BY <1>3, <1>5, <1>7 DEF Good

\* A good journal is one that the next process accepts.
LEMMA GoodIsValid ==
    ASSUME NEW p, NEW o, NEW j, Good(j, p, o)
    PROVE  ValidJournal(j)
<1>1. /\ j \in Journal /\ Len(j.decisions) \in Nat /\ Positions(j) = 1 .. Len(j.decisions)
      /\ \A i \in Positions(j) : j.decisions[i].request \in Decided(j)
      /\ Reserved(j) \in SUBSET Requests /\ Decided(j) \in SUBSET Requests
      /\ j.counts \in [Attempts -> 0 .. RequestCount]
  BY JournalParts DEF Good
<1>2. \A r \in Reserved(j) : j.reservations[r].epoch = j.epoch
  BY DEF Good, OneEpoch
<1>3. Len(j.decisions) <= MaxDecisions
  <2>1. Cardinality(Reserved(j) \ Decided(j)) \in Nat
    BY <1>1, FiniteRequests
  <2>2. QED
    BY <1>1, <2>1, LimitsAssumption, EmptySeq DEF Good, RoomToDecide
<1>4. \A i \in Positions(j) :
         LET d == j.decisions[i] IN
         /\ (d.verdict = "never_sent") = (d.send = "reserved")
         /\ j.reservations[d.request] # None => j.reservations[d.request].send = d.send
  BY <1>1 DEF Good, SendsAgree, Reserved
<1>5. ASSUME Planner, NEW i \in Positions(j),
             NEW next \in (Reserved(j) \ Decided(j)) \cup
                             {j.decisions[k].request : k \in (i + 1) .. Len(j.decisions)},
             ChainOf[j.decisions[i].request] = ChainOf[next]
      PROVE  Extends(j.decisions[i], next)
  <2>1. CASE next \in Reserved(j) \ Decided(j)
    BY <1>5, <2>1 DEF Good, Chained
  <2>2. ASSUME NEW k \in (i + 1) .. Len(j.decisions), next = j.decisions[k].request
        PROVE  Extends(j.decisions[i], next)
    <3>1. k \in Positions(j) /\ i < k
      BY <1>1
    <3>2. QED
      BY <1>5, <2>2, <3>1 DEF Good, Chained
  <2>3. QED
    BY <1>5, <2>1, <2>2
<1>6. ASSUME NEW a \in Attempts
      PROVE  j.counts[a] >= Cardinality({r \in Reserved(j) \cup Decided(j) : AttemptOf[r] = a})
  <2>1. {r \in Reserved(j) \cup Decided(j) : AttemptOf[r] = a} \subseteq Spent(j, p, a)
        /\ Spent(j, p, a) \in SUBSET Requests
    BY <1>1 DEF Spent, Known
  <2>2. Cardinality(Spent(j, p, a)) <= j.counts[a] /\ j.counts[a] \in Nat
    BY <1>1, LimitsAssumption DEF Good, CountsCover
  <2>3. QED
    BY <2>1, <2>2, CardinalityGrows, FiniteRequests
<1>7. QED
  BY <1>2, <1>3, <1>4, <1>5, <1>6 DEF ValidJournal, Good, DecidedOnce, Positions

-----------------------------------------------------------------------------
(* What each operation of the gate does to the journal. *)

\* k forgets no success of j, and knows no request j does not.
Follows(k, j) ==
    k \in Journal /\ Known(k) \subseteq Known(j) /\ Succeeded(j) \subseteq Succeeded(k)

\* A change of phase alone leaves a journal as good as it was.
LEMMA PhaseParts ==
    ASSUME NEW p, NEW o, NEW j \in Journal, NEW ph \in {"closed", "active", "draining", "mutating"},
           NEW k, k = [j EXCEPT !.phase = ph]
    PROVE  /\ Follows(k, j) /\ k.phase = ph /\ k.epoch = j.epoch
           /\ k.reservations = j.reservations /\ k.decisions = j.decisions
           /\ Reserved(k) = Reserved(j)
           /\ Good(j, p, o) => Good(k, p, o)
<1>1. /\ k \in Journal /\ k.phase = ph /\ k.epoch = j.epoch /\ k.counts = j.counts
      /\ k.reservations = j.reservations /\ k.decisions = j.decisions
  BY DEF Journal
<1>2. Reserved(k) = Reserved(j) /\ Known(k) = Known(j) /\ Succeeded(k) = Succeeded(j)
  BY <1>1 DEF Reserved, Known, Decided, Succeeded, Positions
<1>3. ASSUME Good(j, p, o) PROVE Good(k, p, o)
  <2>1. OneEpoch(k)
    BY <1>1, <1>2, <1>3 DEF Good, OneEpoch
  <2>2. QED
    BY <1>1, <1>2, <1>3, <2>1, GoodShrinks
<1>4. QED
  BY <1>1, <1>2, <1>3 DEF Follows

\* What the release of some reservations changes, and what it leaves.
LEMMA ReleaseParts ==
    ASSUME NEW j \in Journal, NEW S, NEW k, k = Release(j, S)
    PROVE  /\ Follows(k, j) /\ k.phase = j.phase /\ k.epoch = j.epoch
           /\ k.counts = j.counts /\ k.decisions = j.decisions
           /\ Reserved(k) = Reserved(j) \ S
           /\ \A s \in Reserved(k) : k.reservations[s] = j.reservations[s]
<1>1. /\ k.phase = j.phase /\ k.epoch = j.epoch /\ k.counts = j.counts /\ k.decisions = j.decisions
      /\ k.reservations = [r \in Requests |-> IF r \in S THEN None ELSE j.reservations[r]]
      /\ k \in Journal
  BY DEF Journal, Release
<1>2. /\ Reserved(k) = Reserved(j) \ S
      /\ \A s \in Reserved(k) : k.reservations[s] = j.reservations[s]
  BY <1>1 DEF Reserved
<1>3. Known(k) \subseteq Known(j) /\ Succeeded(k) = Succeeded(j)
  BY <1>1, <1>2 DEF Known, Decided, Succeeded, Positions
<1>4. QED
  BY <1>1, <1>2, <1>3 DEF Follows

\* Reservations may be released of what is neither under way nor, with receipts, undecided.
LEMMA GoodRelease ==
    ASSUME NEW p, NEW o, NEW j, Good(j, p, o), NEW S,
           \A r \in Reserved(j) \cap S :
              /\ p[r] \notin {"sent", "running"}
              /\ Receipts /\ p[r] # "none" => r \in Decided(j)
    PROVE  Good(Release(j, S), p, o)
<1>1. j \in Journal
  BY DEF Good
<1>2. PICK k : k = Release(j, S)
  OBVIOUS
<1>3. /\ k \in Journal /\ k.epoch = j.epoch /\ k.counts = j.counts /\ k.decisions = j.decisions
      /\ Reserved(k) = Reserved(j) \ S
      /\ \A s \in Reserved(k) : k.reservations[s] = j.reservations[s]
  BY <1>1, <1>2, ReleaseParts DEF Follows
<1>4. OneEpoch(k)
  BY <1>3 DEF Good, OneEpoch
<1>5. Good(k, p, o)
  BY <1>3, <1>4, GoodShrinks
<1>6. QED
  BY <1>2, <1>5

\* What one more decision changes, and what it leaves.
LEMMA PushParts ==
    ASSUME NEW j \in Journal, NEW d \in Decision, NEW k, k = Push(j, d)
    PROVE  /\ k \in Journal /\ k.phase = j.phase /\ k.epoch = j.epoch
           /\ k.counts = j.counts /\ k.reservations = j.reservations
           /\ k.decisions = Append(j.decisions, d)
           /\ Reserved(k) = Reserved(j)
           /\ Decided(k) = Decided(j) \cup {d.request}
           /\ Succeeded(j) \subseteq Succeeded(k)
           /\ d.verdict = "validated_success" => d.request \in Succeeded(k)
           /\ \A i \in Positions(k) : k.decisions[i].request = d.request =>
                 i = Len(k.decisions) \/ d.request \in Decided(j)
<1>1. /\ k.phase = j.phase /\ k.epoch = j.epoch /\ k.counts = j.counts
      /\ k.reservations = j.reservations /\ k.decisions = Append(j.decisions, d)
      /\ k \in Journal
  <2>1. Append(j.decisions, d) \in Seq(Decision)
    BY JournalParts, AppendProperties
  <2>2. QED
    BY <2>1 DEF Journal, Push
<1> DEFINE n == Len(j.decisions)
<1>2. j.decisions \in Seq(Decision) /\ n \in Nat /\ Positions(j) = 1 .. n
  BY JournalParts
<1>3. /\ Len(k.decisions) = n + 1 /\ Positions(k) = 1 .. (n + 1)
      /\ \A i \in Positions(j) : k.decisions[i] = j.decisions[i]
      /\ k.decisions[n + 1] = d
  BY <1>1, <1>2 DEF Positions
<1>4. Positions(k) = Positions(j) \cup {n + 1}
  BY <1>2, <1>3
<1> HIDE DEF n
<1>5. Decided(k) = Decided(j) \cup {d.request}
  <2>1. Decided(k) = {k.decisions[i].request : i \in Positions(j) \cup {n + 1}}
    BY <1>4 DEF Decided, Positions
  <2>2. Decided(j) = {k.decisions[i].request : i \in Positions(j)}
    BY <1>3 DEF Decided, Positions
  <2>3. {k.decisions[i].request : i \in Positions(j) \cup {n + 1}}
          = {k.decisions[i].request : i \in Positions(j)} \cup {k.decisions[n + 1].request}
    OBVIOUS
  <2>4. QED
    BY <2>1, <2>2, <2>3, <1>3
<1>6. Succeeded(j) \subseteq Succeeded(k)
  BY <1>3, <1>4 DEF Succeeded
<1>7. d.verdict = "validated_success" => d.request \in Succeeded(k)
  BY <1>3, <1>4 DEF Succeeded
<1>8. \A i \in Positions(k) : k.decisions[i].request = d.request =>
         i = Len(k.decisions) \/ d.request \in Decided(j)
  BY <1>3, <1>4, JournalParts
<1>9. QED
  BY <1>1, <1>5, <1>6, <1>7, <1>8 DEF Reserved

\* The decision of a reservation nobody has delivered yet.
LEMMA UndeliveredIs ==
    ASSUME NEW j \in Journal, NEW r \in Reserved(j), NEW v \in Verdicts
    PROVE  /\ Undelivered(j, r, v) \in Decision
           /\ Undelivered(j, r, v).request = r /\ Undelivered(j, r, v).verdict = v
           /\ Undelivered(j, r, v).send = j.reservations[r].send
           /\ Undelivered(j, r, v).delivery = "unobserved"
<1>1. r \in Requests /\ j.reservations[r] \in Reservation
  BY JournalParts
<1>2. j.reservations[r].send \in Sends
  BY <1>1 DEF Reservation
<1>3. QED
  BY <1>1, <1>2 DEF Undelivered, Decision

\* finalize records a success and keeps the reservation.
LEMMA GoodRecord ==
    ASSUME NEW p, NEW o, NEW j, Good(j, p, o), Receipts, NEW r \in Reserved(j), p[r] = "success",
           NEW k, k = RecordDecision(j, r, "validated_success")
    PROVE  /\ Good(k, p, o) /\ Follows(k, j) /\ r \in Succeeded(k)
           /\ k.phase = j.phase /\ k.epoch = j.epoch /\ k.reservations = j.reservations
           /\ Reserved(k) = Reserved(j)
<1>1. j \in Journal /\ j.reservations[r].send = "send_possible"
  BY DEF Good, HoldsWork, Reserved
<1>2. CASE r \in Decided(j)
  <2>1. k = j
    BY <1>2 DEF RecordDecision
  <2>2. r \in Succeeded(j)
    BY <1>2 DEF Good, SendsAgree, Succeeded, Decided, Positions
  <2>3. QED
    BY <1>1, <2>1, <2>2 DEF Follows
<1>3. CASE r \notin Decided(j)
  <2>1. PICK d : d = Undelivered(j, r, "validated_success")
    OBVIOUS
  <2>2. /\ d \in Decision /\ d.request = r /\ d.verdict = "validated_success"
        /\ d.send = "send_possible" /\ d.delivery = "unobserved"
    BY <1>1, <2>1, UndeliveredIs DEF Verdicts
  <2>3. k = Push(j, d)
    BY <1>3, <2>1 DEF RecordDecision
  <2>4. /\ k \in Journal /\ k.phase = j.phase /\ k.epoch = j.epoch
        /\ k.counts = j.counts /\ k.reservations = j.reservations
        /\ k.decisions = Append(j.decisions, d)
        /\ Reserved(k) = Reserved(j) /\ Decided(k) = Decided(j) \cup {r}
        /\ Succeeded(j) \subseteq Succeeded(k) /\ r \in Succeeded(k)
    BY <1>1, <2>2, <2>3, PushParts
  <2>5. Good(k, p, o)
    BY <1>1, <1>3, <2>2, <2>4, GoodDecides
  <2>6. Known(k) \subseteq Known(j)
    BY <2>4 DEF Known
  <2>7. QED
    BY <2>4, <2>5, <2>6 DEF Follows
<1>4. QED
  BY <1>2, <1>3

\* A reservation that is over, or never left, is recorded as that and released.
LEMMA GoodLeave ==
    ASSUME NEW p, NEW o, NEW j, Good(j, p, o), Receipts, NEW r \in Reserved(j),
           \/ j.reservations[r].send = "reserved"
           \/ p[r] \in {"success", "failure"},
           NEW k, k = Leave(j, r)
    PROVE  /\ Good(k, p, o) /\ Follows(k, j)
           /\ k.phase = j.phase /\ k.epoch = j.epoch
           /\ Reserved(k) = Reserved(j) \ {r}
           /\ \A s \in Reserved(k) : k.reservations[s] = j.reservations[s]
           /\ Planner => /\ Reserved(k) = {}
                         /\ \A i \in Positions(k) : k.decisions[i].request = r => i = Len(k.decisions)
<1>1. /\ j \in Journal /\ j.reservations[r] \in Reservation /\ r \in Requests
      /\ j.reservations[r].send \in Sends
      /\ j.reservations[r].send = "reserved" => p[r] = "none"
      /\ p[r] \notin {"sent", "running"}
  <2>1. j \in Journal /\ j.reservations[r] \in Reservation /\ r \in Requests
    BY JournalParts DEF Good
  <2>2. j.reservations[r].send = "reserved" => p[r] = "none"
    BY <2>1 DEF Good, HoldsWork
  <2>3. QED
    BY <2>1, <2>2 DEF Reservation
<1> DEFINE v == IF j.reservations[r].send = "reserved" THEN "never_sent" ELSE "quiescent_failure"
<1>2. PICK m : m = RecordDecision(j, r, v)
  OBVIOUS
<1>3. k = Release(m, {r})
  BY <1>2 DEF Leave
<1>4. CASE r \in Decided(j)
  <2>1. m = j
    BY <1>2, <1>4 DEF RecordDecision
  <2>2. Good(k, p, o)
    BY <1>1, <1>3, <1>4, <2>1, GoodRelease
  <2>3. /\ Follows(k, j) /\ k.phase = j.phase /\ k.epoch = j.epoch
        /\ k.decisions = j.decisions
        /\ Reserved(k) = Reserved(j) \ {r}
        /\ \A s \in Reserved(k) : k.reservations[s] = j.reservations[s]
    BY <1>1, <1>3, <2>1, ReleaseParts
  <2>4. Planner => /\ Reserved(k) = {}
                   /\ \A i \in Positions(k) : k.decisions[i].request = r => i = Len(k.decisions)
    BY <2>3, ModesAssumption DEF Good, OneAtATime, Positions
  <2>5. QED
    BY <2>2, <2>3, <2>4
<1>5. CASE r \notin Decided(j)
  <2>1. PICK d : d = Undelivered(j, r, v)
    OBVIOUS
  <2>2. /\ d \in Decision /\ d.request = r /\ d.verdict = v
        /\ d.send = j.reservations[r].send /\ d.delivery = "unobserved"
    BY <1>1, <2>1, UndeliveredIs DEF Verdicts
  <2>3. m = Push(j, d)
    BY <1>2, <1>5, <2>1 DEF RecordDecision
  <2>4. /\ m \in Journal /\ m.phase = j.phase /\ m.epoch = j.epoch
        /\ m.counts = j.counts /\ m.reservations = j.reservations
        /\ m.decisions = Append(j.decisions, d)
        /\ Reserved(m) = Reserved(j) /\ Decided(m) = Decided(j) \cup {r}
        /\ Succeeded(j) \subseteq Succeeded(m)
        /\ \A i \in Positions(m) : m.decisions[i].request = r => i = Len(m.decisions)
    BY <1>1, <1>5, <2>2, <2>3, PushParts
  <2>5. /\ Follows(k, m) /\ k.phase = m.phase /\ k.epoch = m.epoch /\ k.counts = m.counts
        /\ k.decisions = m.decisions
        /\ Reserved(k) = Reserved(m) \ {r}
        /\ \A s \in Reserved(k) : k.reservations[s] = m.reservations[s]
    BY <1>3, <2>4, ReleaseParts
  <2>6. Follows(k, j)
    BY <2>4, <2>5 DEF Follows, Known
  <2>7. Good(k, p, o)
    <3>1. k \in Journal
      BY <2>5 DEF Follows
    <3> HIDE DEF v
    <3>2. /\ v = "never_sent" <=> d.send = "reserved"
          /\ v = "never_sent" => p[r] = "none"
          /\ v # "validated_success"
          /\ v = "quiescent_failure" => p[r] \in {"success", "failure"}
      BY <1>1, <2>2 DEF v
    <3>3. QED
      BY <1>1, <1>5, <2>2, <2>4, <2>5, <3>1, <3>2, GoodDecides
  <2>8. Planner => /\ Reserved(k) = {}
                   /\ \A i \in Positions(k) : k.decisions[i].request = r => i = Len(k.decisions)
    BY <2>4, <2>5, ModesAssumption DEF Good, OneAtATime, Positions
  <2>9. QED
    BY <2>4, <2>5, <2>6, <2>7, <2>8
<1>6. QED
  BY <1>4, <1>5

\* What a recorded delivery changes, and what it leaves.
LEMMA DeliveredParts ==
    ASSUME NEW j \in Journal, NEW r, NEW outcome \in Outcomes \ {"active"},
           NEW k, k = Delivered(j, r, outcome)
    PROVE  /\ Follows(k, j) /\ k.phase = j.phase /\ k.epoch = j.epoch
           /\ k.counts = j.counts /\ k.reservations = j.reservations
           /\ Reserved(k) = Reserved(j)
           /\ Len(k.decisions) = Len(j.decisions)
           /\ \A i \in Positions(j) :
                 /\ k.decisions[i].request = j.decisions[i].request
                 /\ k.decisions[i].verdict = j.decisions[i].verdict
                 /\ k.decisions[i].send = j.decisions[i].send
                 /\ j.decisions[i].request # r => k.decisions[i] = j.decisions[i]
                 /\ j.decisions[i].request = r => k.decisions[i].delivery = outcome
<1> DEFINE n == Len(j.decisions)
           e(i) == IF j.decisions[i].request = r
                   THEN [j.decisions[i] EXCEPT !.delivery = outcome] ELSE j.decisions[i]
<1>1. n \in Nat /\ Positions(j) = 1 .. n /\ \A i \in 1 .. n : j.decisions[i] \in Decision
  BY JournalParts
<1>2. k = [j EXCEPT !.decisions = [i \in 1 .. n |-> e(i)]]
  BY <1>1 DEF Delivered, Positions
<1>3. \A i \in 1 .. n : e(i) \in Decision
  BY <1>1 DEF Decision
<1> HIDE DEF e, n
<1>4. [i \in 1 .. n |-> e(i)] \in Seq(Decision) /\ Len([i \in 1 .. n |-> e(i)]) = n
  BY <1>1, <1>3, IsASeq
<1>5. /\ k \in Journal /\ k.phase = j.phase /\ k.epoch = j.epoch
      /\ k.counts = j.counts /\ k.reservations = j.reservations
      /\ k.decisions = [i \in 1 .. n |-> e(i)]
  BY <1>2, <1>4 DEF Journal
<1>6. Positions(k) = Positions(j) /\ \A i \in Positions(j) : k.decisions[i] = e(i)
  BY <1>1, <1>5 DEF Positions
<1>7. \A i \in Positions(j) :
         /\ k.decisions[i].request = j.decisions[i].request
         /\ k.decisions[i].verdict = j.decisions[i].verdict
         /\ k.decisions[i].send = j.decisions[i].send
         /\ j.decisions[i].request # r => k.decisions[i] = j.decisions[i]
         /\ j.decisions[i].request = r => k.decisions[i].delivery = outcome
  BY <1>1, <1>6 DEF e, Decision
<1>8. Reserved(k) = Reserved(j) /\ Known(k) = Known(j) /\ Succeeded(k) = Succeeded(j)
  <2>1. Reserved(k) = Reserved(j)
    BY <1>5 DEF Reserved
  <2>2. Decided(k) = Decided(j)
    BY <1>6, <1>7 DEF Decided, Positions
  <2>3. Succeeded(k) = Succeeded(j)
    BY <1>6, <1>7 DEF Succeeded
  <2>4. QED
    BY <2>1, <2>2, <2>3 DEF Known
<1>9. QED
  BY <1>4, <1>5, <1>7, <1>8 DEF Follows, n

\* finish records what became of a request, and of its delivery.
LEMMA GoodConclude ==
    ASSUME NEW p, NEW o, NEW j, Good(j, p, o), Receipts, NEW r \in Reserved(j),
           \/ j.reservations[r].send = "reserved"
           \/ p[r] \in {"success", "failure"},
           NEW outcome \in Outcomes \ {"active"}, outcome = "completed" => o[r] = "all",
           NEW k, k = Conclude(j, r, outcome)
    PROVE  /\ Good(k, p, o) /\ Follows(k, j)
           /\ k.phase = j.phase /\ k.epoch = j.epoch
<1>1. PICK m : m = Leave(j, r)
  OBVIOUS
<1>2. /\ Good(m, p, o) /\ Follows(m, j)
      /\ m.phase = j.phase /\ m.epoch = j.epoch
      /\ Reserved(m) = Reserved(j) \ {r}
      /\ Planner => /\ Reserved(m) = {}
                    /\ \A i \in Positions(m) : m.decisions[i].request = r => i = Len(m.decisions)
  BY <1>1, GoodLeave
<1>3. k = Delivered(m, r, outcome) /\ r \in Requests
  BY <1>1 DEF Conclude, Reserved
<1>4. /\ Follows(k, m) /\ k.phase = m.phase /\ k.epoch = m.epoch
      /\ k.counts = m.counts /\ k.reservations = m.reservations
      /\ Len(k.decisions) = Len(m.decisions)
      /\ \A i \in Positions(m) :
            /\ k.decisions[i].request = m.decisions[i].request
            /\ k.decisions[i].verdict = m.decisions[i].verdict
            /\ k.decisions[i].send = m.decisions[i].send
            /\ m.decisions[i].request # r => k.decisions[i] = m.decisions[i]
            /\ m.decisions[i].request = r => k.decisions[i].delivery = outcome
  BY <1>2, <1>3, DeliveredParts DEF Follows
<1>5. Good(k, p, o)
  <2>1. r \notin Reserved(m) /\ k \in Journal
    BY <1>2, <1>4 DEF Follows
  <2>2. Planner => /\ Reserved(m) = {}
                   /\ \A i \in Positions(m) : m.decisions[i].request = r => i = Len(m.decisions)
    BY <1>2
  <2>3. Good(m, p, o) /\ r \in Requests
    BY <1>2, <1>3
  <2>4. /\ k.counts = m.counts /\ k.epoch = m.epoch /\ k.reservations = m.reservations
        /\ Len(k.decisions) = Len(m.decisions)
    BY <1>4
  <2>5. \A i \in Positions(m) :
            /\ k.decisions[i].request = m.decisions[i].request
            /\ k.decisions[i].verdict = m.decisions[i].verdict
            /\ k.decisions[i].send = m.decisions[i].send
            /\ m.decisions[i].request # r => k.decisions[i] = m.decisions[i]
            /\ m.decisions[i].request = r =>
                  (k.decisions[i].delivery = "completed" => o[r] = "all")
    BY <1>4
  <2>6. QED
    BY <2>1, <2>2, <2>3, <2>4, <2>5, GoodDelivers
<1>6. QED
  BY <1>2, <1>4, <1>5 DEF Follows

\* Admission reserves.
LEMMA GoodReserve ==
    ASSUME NEW p, NEW o, NEW j, Good(j, p, o), NEW r \in Requests, r \notin Known(j),
           p[r] = "none", Continues(j, r), j.epoch # 0,
           Receipts => Len(j.decisions) + Cardinality(Reserved(j)) < MaxDecisions,
           Serial => Reserved(j) = {},
           Cardinality(ReservedBy(j, AttemptOf[r])) < Concurrency,
           j.counts[AttemptOf[r]] < RequestCount,
           NEW k, k = Reserve(j, r)
    PROVE  /\ Good(k, p, o) /\ k.phase = j.phase /\ k.epoch = j.epoch
           /\ Known(k) = Known(j) \cup {r} /\ Succeeded(k) = Succeeded(j)
           /\ Reserved(k) = Reserved(j) \cup {r} /\ k.reservations[r].send = "reserved"
           /\ \A s \in Reserved(j) : k.reservations[s] = j.reservations[s]
<1> DEFINE new == [epoch |-> j.epoch, outcome |-> "active", send |-> "reserved"]
           a == AttemptOf[r]
<1>1. /\ j \in Journal /\ j.epoch \in Nat /\ a \in Attempts
      /\ j.reservations \in [Requests -> Reservation \cup {None}]
      /\ j.counts \in [Attempts -> 0 .. RequestCount]
  BY JournalParts, CallersAssumption DEF Good
<1>2. new \in Reservation /\ new # None
  BY <1>1, NoneAssumption DEF Reservation, Outcomes, Sends
<1>3. j.counts[a] \in Nat /\ j.counts[a] + 1 \in 0 .. RequestCount
  BY <1>1, LimitsAssumption
<1> HIDE DEF new
<1>4. /\ k.phase = j.phase /\ k.epoch = j.epoch /\ k.decisions = j.decisions
      /\ k.counts = [j.counts EXCEPT ![a] = @ + 1]
      /\ k.reservations = [j.reservations EXCEPT ![r] = new]
  BY <1>1 DEF Reserve, Journal, new
<1>5. k \in Journal
  <2>1. k.counts \in [Attempts -> 0 .. RequestCount]
    BY <1>1, <1>3, <1>4
  <2>2. k.reservations \in [Requests -> Reservation \cup {None}]
    BY <1>1, <1>2, <1>4
  <2>3. k = [phase |-> j.phase, epoch |-> j.epoch, reservations |-> k.reservations,
             counts |-> k.counts, decisions |-> j.decisions]
    BY <1>1, <1>4 DEF Reserve, Journal
  <2>4. QED
    BY <1>1, <2>1, <2>2, <2>3 DEF Journal
<1>6. /\ Reserved(k) = Reserved(j) \cup {r} /\ k.reservations[r] = new
      /\ \A s \in Reserved(j) : k.reservations[s] = j.reservations[s]
  <2>1. r \notin Reserved(j)
    BY DEF Known
  <2>2. k.reservations[r] = new /\ \A s \in Requests \ {r} : k.reservations[s] = j.reservations[s]
    BY <1>1, <1>4
  <2>3. QED
    BY <1>2, <2>1, <2>2 DEF Reserved
<1>7. new.epoch = j.epoch /\ new.send = "reserved"
  BY DEF new
<1>8. Good(k, p, o)
  <2>1. /\ k.reservations[r].epoch = k.epoch
        /\ k.counts[AttemptOf[r]] = j.counts[AttemptOf[r]] + 1
        /\ \A b \in Attempts \ {AttemptOf[r]} : k.counts[b] = j.counts[b]
    BY <1>1, <1>4, <1>6, <1>7
  <2>2. QED
    BY <1>4, <1>5, <1>6, <2>1, GoodReserves
<1>9. Known(k) = Known(j) \cup {r} /\ Succeeded(k) = Succeeded(j)
  BY <1>4, <1>6 DEF Known, Decided, Succeeded, Positions
<1>10. QED
  BY <1>4, <1>6, <1>7, <1>8, <1>9

\* The two fields of a reservation that change.
LEMMA ReservationParts ==
    ASSUME NEW j \in Journal, NEW r \in Reserved(j), NEW k, NEW s \in Sends, NEW x \in Outcomes,
           \/ k = [j EXCEPT !.reservations[r].send = s]
           \/ k = [j EXCEPT !.reservations[r].outcome = x]
    PROVE  /\ Follows(k, j) /\ k.phase = j.phase /\ k.epoch = j.epoch
           /\ k.counts = j.counts /\ k.decisions = j.decisions
           /\ Reserved(k) = Reserved(j)
           /\ \A q \in Reserved(j) : q # r => k.reservations[q] = j.reservations[q]
           /\ k.reservations[r].epoch = j.reservations[r].epoch
           /\ k = [j EXCEPT !.reservations[r].send = s] => k.reservations[r].send = s
           /\ k = [j EXCEPT !.reservations[r].outcome = x] =>
                 k.reservations[r].send = j.reservations[r].send
<1>1. /\ j.reservations \in [Requests -> Reservation \cup {None}] /\ r \in Requests
      /\ j.reservations[r] \in Reservation /\ Reserved(j) \in SUBSET Requests
  BY JournalParts
<1> DEFINE old == j.reservations[r]
           marked == [old EXCEPT !.send = s]
           ended == [old EXCEPT !.outcome = x]
<1>2. /\ marked \in Reservation /\ marked.epoch = old.epoch /\ marked.send = s
      /\ ended \in Reservation /\ ended.epoch = old.epoch /\ ended.send = old.send
  BY <1>1 DEF Reservation
<1>3. /\ [j EXCEPT !.reservations[r].send = s] = [j EXCEPT !.reservations = [@ EXCEPT ![r] = marked]]
      /\ [j EXCEPT !.reservations[r].outcome = x] = [j EXCEPT !.reservations = [@ EXCEPT ![r] = ended]]
  OBVIOUS
<1> HIDE DEF marked, ended
<1>4. ASSUME NEW new \in Reservation, k = [j EXCEPT !.reservations = [@ EXCEPT ![r] = new]]
      PROVE  /\ k \in Journal /\ k.phase = j.phase /\ k.epoch = j.epoch
             /\ k.counts = j.counts /\ k.decisions = j.decisions
             /\ k.reservations[r] = new
             /\ \A q \in Requests : q # r => k.reservations[q] = j.reservations[q]
             /\ Reserved(k) = Reserved(j)
  <2>1. /\ k.phase = j.phase /\ k.epoch = j.epoch /\ k.counts = j.counts
        /\ k.decisions = j.decisions /\ k.reservations = [j.reservations EXCEPT ![r] = new]
    BY <1>4 DEF Journal
  <2>2. k.reservations \in [Requests -> Reservation \cup {None}]
    BY <1>1, <2>1
  <2>3. k \in Journal
    BY <1>4, <2>1, <2>2 DEF Journal
  <2>4. k.reservations[r] = new /\ \A q \in Requests : q # r => k.reservations[q] = j.reservations[q]
    BY <1>1, <2>1
  <2>5. Reserved(k) = Reserved(j)
    BY <1>1, <2>4, NoneAssumption DEF Reserved
  <2>6. QED
    BY <2>1, <2>3, <2>4, <2>5
<1>5. /\ k \in Journal /\ k.phase = j.phase /\ k.epoch = j.epoch
      /\ k.counts = j.counts /\ k.decisions = j.decisions
      /\ \A q \in Requests : q # r => k.reservations[q] = j.reservations[q]
      /\ Reserved(k) = Reserved(j)
  BY <1>2, <1>3, <1>4
<1>6. k = [j EXCEPT !.reservations[r].send = s] => k.reservations[r] = marked
  BY <1>2, <1>3, <1>4
<1>7. k = [j EXCEPT !.reservations[r].outcome = x] => k.reservations[r] = ended
  BY <1>2, <1>3, <1>4
<1>8. Known(k) = Known(j) /\ Succeeded(k) = Succeeded(j)
  BY <1>5 DEF Known, Decided, Succeeded, Positions
<1>9. QED
  BY <1>1, <1>2, <1>5, <1>6, <1>7, <1>8 DEF Follows

\* A reservation may be marked as possibly sent.
LEMMA GoodMark ==
    ASSUME NEW p, NEW o, NEW j, Good(j, p, o), NEW r, Sendable(j, r, "reserved"),
           NEW k, k = [j EXCEPT !.reservations[r].send = "send_possible"]
    PROVE  Good(k, p, o) /\ Follows(k, j) /\ Sendable(k, r, "send_possible")
           /\ k.phase = j.phase /\ k.epoch = j.epoch
<1>1. j \in Journal /\ r \in Reserved(j) /\ j.reservations[r].send = "reserved"
  BY DEF Good, Sendable
<1>2. /\ Follows(k, j) /\ k.phase = j.phase /\ k.epoch = j.epoch
      /\ k.counts = j.counts /\ k.decisions = j.decisions
      /\ Reserved(k) = Reserved(j)
      /\ \A q \in Reserved(j) : q # r => k.reservations[q] = j.reservations[q]
      /\ k.reservations[r].epoch = j.reservations[r].epoch
      /\ k.reservations[r].send = "send_possible"
  BY <1>1, ReservationParts DEF Sends, Outcomes
<1>3. Good(k, p, o)
  BY <1>1, <1>2, GoodMarks DEF Follows
<1>4. QED
  BY <1>1, <1>2, <1>3 DEF Sendable

\* A reservation may learn how its handler ended.
LEMMA GoodOutcome ==
    ASSUME NEW p, NEW o, NEW j, Good(j, p, o), NEW r \in Reserved(j), NEW x \in Outcomes,
           NEW k, k = [j EXCEPT !.reservations[r].outcome = x]
    PROVE  /\ Good(k, p, o) /\ Follows(k, j) /\ Reserved(k) = Reserved(j)
           /\ k.phase = j.phase /\ k.epoch = j.epoch
           /\ k.reservations[r].send = j.reservations[r].send
<1>1. j \in Journal
  BY DEF Good
<1>2. /\ Follows(k, j) /\ k.phase = j.phase /\ k.epoch = j.epoch
      /\ k.counts = j.counts /\ k.decisions = j.decisions
      /\ Reserved(k) = Reserved(j)
      /\ \A q \in Reserved(j) : q # r => k.reservations[q] = j.reservations[q]
      /\ k.reservations[r].epoch = j.reservations[r].epoch
      /\ k.reservations[r].send = j.reservations[r].send
  BY <1>1, ReservationParts DEF Sends
<1>3. OneEpoch(k)
  BY <1>2 DEF Good, OneEpoch
<1>4. Good(k, p, o)
  BY <1>2, <1>3, GoodShrinks DEF Follows
<1>5. QED
  BY <1>2, <1>4

-----------------------------------------------------------------------------
(* The gate and the handlers. *)

Awaited == [op : {"admit", "markSend", "finalize", "finish"}, request : Requests,
            outcome : Outcomes]
Operator == [op : {"activate", "replace", "close"}, request : {None}, outcome : {"active"}]

\* Where the handler of a request waits for an operation.
WaitsAt(op, label) ==
    \/ op = "admit" /\ label = "admitting"
    \/ op = "markSend" /\ label = "marking"
    \/ op = "finalize" /\ label = "finalizing"
    \/ op = "finish" /\ label = "finishing"

Waiting == {"admitting", "marking", "finalizing", "finishing"}
Handling == InFlight \cup {"finishing"}
Steps == {"turn", "settle", "retired", "receipt", "verdict", "drain", "mutate", "write", "tidy"}

BoundaryTypeOK ==
    /\ life \in {"down", "open", "closing", "closed"}
    /\ failed \in BOOLEAN /\ uncertain \in BOOLEAN /\ lock \in BOOLEAN /\ shut \in BOOLEAN
    /\ journal \in Journal /\ disk \in Journal
    /\ queue \in Seq(Awaited \cup Operator)
    /\ step \in Steps
    /\ reply \in [Requests -> {"ok", "denied", "held", None}]
    /\ aborted \in [Requests -> BOOLEAN]
    /\ scopes \in [Attempts -> {"none", "live", "ended"}]
    /\ bound \in [Attempts -> Nat]
    /\ provider \in [Requests -> {"none", "sent", "running", "success", "failure"}]
    /\ frozen \in Nat \ {0} /\ writer \in Nat
    /\ pc \in [Requests -> InFlight \cup {"new", "finishing", "done", "gone"}]
    /\ released \in [Requests -> {"none", "some", "all"}]

\* Every operation is awaited by the handler of its request.
JobsAwaited ==
    /\ \A i \in DOMAIN queue : queue[i].request # None =>
          /\ WaitsAt(queue[i].op, pc[queue[i].request])
          /\ reply[queue[i].request] = None
          /\ queue[i].op = "finish" => queue[i].outcome # "active"
          /\ queue[i].outcome = "completed" => released[queue[i].request] = "all"
    /\ \A i, k \in DOMAIN queue :
          queue[i].request = queue[k].request /\ queue[i].request # None => i = k

\* An answer is read before the next operation takes its turn.
RepliesAwaited == \A r \in Requests : reply[r] # None => step = "turn" /\ pc[r] \in Waiting

\* A gate that closes closes after everything that was queued.
QueueEnds ==
    /\ life \in {"down", "closed"} => queue = <<>>
    /\ queue = <<>> => step = "turn" /\ life # "closing"
    /\ \A i \in DOMAIN queue : queue[i].op = "close" <=> (life = "closing" /\ i = Len(queue))

\* A process that may still run a writer holds the lock; a handler has a scope.
LifeHolds ==
    /\ life = "down" => journal = EmptyJournal /\ ~uncertain
    /\ life \in {"open", "closing"} => lock
    /\ uncertain => /\ lock
                    /\ step \in {"turn", "tidy"} \/ (queue # <<>> /\ Head(queue).op = "close")
    /\ \A r \in Requests : pc[r] \in Handling => life # "down" /\ scopes[AttemptOf[r]] # "none"

\* What the step an operation is at says of the journal.
Fits(job, s, j, bindings) ==
    /\ s = "settle" => job.op = "activate" /\ j.phase = "closed"
    /\ s = "retired" => job.op = "admit" /\ ~Receipts /\ j.phase = "active" /\ j.epoch # 0
    /\ s = "receipt" => job.op = "finalize" /\ Sendable(j, job.request, "send_possible")
    /\ s = "verdict" => job.op = "finish" /\ job.request \in Reserved(j)
    /\ s = "drain" => job.op = "replace" /\ ~Receipts /\ j.phase = "draining"
    /\ s = "mutate" =>
          job.op = "replace" /\ ~Receipts /\ j.phase = "mutating" /\ Reserved(j) = {}
    /\ s = "write" =>
          /\ job.op = "admit" => /\ j.phase = "active" /\ job.request \in Reserved(j)
                                 /\ bindings[AttemptOf[job.request]] = j.epoch
          /\ job.op = "markSend" => Sendable(j, job.request, "send_possible")
          /\ job.op = "finalize" => job.request \in Succeeded(j)
          /\ job.op = "replace" /\ j.phase = "mutating" => Reserved(j) = {}
StepFits == queue # <<>> => Fits(Head(queue), step, journal, bound)

\* A request nobody has admitted yet is in no journal.
FreshUnknown ==
    /\ \A r \in Requests : pc[r] = "new" => r \notin Known(disk)
    /\ \A r \in Requests : pc[r] \in {"new", "body"} => r \notin Known(journal)
    /\ \A i \in DOMAIN queue : queue[i].op = "admit" /\ ~ (i = 1 /\ step = "write") =>
          queue[i].request \notin Known(journal)

\* What a handler may rely on once it was answered.
AnswersHold ==
    \A r \in Requests :
        /\ pc[r] \in {"new", "body", "admitting", "marking"} => provider[r] = "none"
        /\ pc[r] \in {"streaming", "finalizing", "releasing"} => provider[r] # "none"
        /\ pc[r] \in {"admitting", "marking"} /\ reply[r] = "ok" =>
              r \in Reserved(journal) /\ r \in Reserved(disk)
        /\ pc[r] = "marking" /\ reply[r] = "ok" =>
              /\ journal.reservations[r].send = "send_possible"
              /\ disk.reservations[r].send = "send_possible"
        /\ pc[r] \in {"marking", "finalizing", "releasing"} => Receipts
        /\ Receipts /\ (pc[r] = "releasing" \/ (pc[r] = "finalizing" /\ reply[r] = "ok")) =>
              r \in Succeeded(journal) /\ r \in Succeeded(disk)
        /\ Receipts /\ released[r] # "none" =>
              r \in Succeeded(disk) /\ (life # "down" => r \in Succeeded(journal))

\* The policy the router works by.
PolicyInForce ==
    /\ journal.phase \in {"active", "draining"} => journal.epoch = frozen /\ writer = 0
    /\ journal.phase = "mutating" =>
          queue # <<>> /\ Head(queue).op = "replace" /\ step \in {"write", "mutate"}
    /\ journal.phase = "mutating" /\ step = "write" => journal.epoch = frozen /\ writer = 0
    /\ writer # 0 => step = "mutate" \/ uncertain
    /\ Receipts => /\ frozen = 1 /\ writer = 0 /\ journal.epoch \in {0, 1} /\ disk.epoch \in {0, 1}
                   /\ journal.phase \in {"closed", "active"}
                   /\ \A a \in Attempts : bound[a] \in {0, 1}
    /\ \A a \in Attempts : scopes[a] # "none" => bound[a] # 0
    /\ \A r \in Requests : ~Receipts /\ pc[r] = "admitting" /\ reply[r] = "ok" =>
          bound[AttemptOf[r]] = frozen /\ writer = 0

GoodJournals == Good(disk, provider, released) /\ (life # "down" => Good(journal, provider, released))

BoundaryInv ==
    /\ BoundaryTypeOK /\ JobsAwaited /\ RepliesAwaited /\ QueueEnds /\ LifeHolds /\ StepFits
    /\ FreshUnknown /\ AnswersHold /\ PolicyInForce /\ GoodJournals

-----------------------------------------------------------------------------
(* A step of the gate. *)

\* The head and the tail of a queue.
LEMMA QueueParts ==
    ASSUME NEW S, NEW q \in Seq(S), q # <<>>
    PROVE  /\ Head(q) = q[1] /\ q[1] \in S /\ Len(q) \in Nat \ {0}
           /\ DOMAIN q = 1 .. Len(q) /\ 1 \in DOMAIN q
           /\ Tail(q) \in Seq(S) /\ Len(Tail(q)) = Len(q) - 1
           /\ DOMAIN Tail(q) = 1 .. Len(q) - 1
           /\ \A i \in DOMAIN Tail(q) : i + 1 \in DOMAIN q /\ Tail(q)[i] = q[i + 1]
  OBVIOUS

\* A queue with one more entry.
LEMMA AppendParts ==
    ASSUME NEW S, NEW q \in Seq(S), NEW e \in S
    PROVE  /\ Append(q, e) \in Seq(S) /\ Append(q, e) # <<>> /\ Len(q) \in Nat
           /\ Len(Append(q, e)) = Len(q) + 1
           /\ DOMAIN q = 1 .. Len(q) /\ DOMAIN Append(q, e) = DOMAIN q \cup {Len(q) + 1}
           /\ \A i \in DOMAIN q : Append(q, e)[i] = q[i]
           /\ Append(q, e)[Len(q) + 1] = e
           /\ q # <<>> => Head(Append(q, e)) = Head(q)
           /\ q = <<>> => Head(Append(q, e)) = e
<1>1. /\ Append(q, e) \in Seq(S) /\ Len(q) \in Nat
      /\ Len(Append(q, e)) = Len(q) + 1
      /\ DOMAIN q = 1 .. Len(q) /\ DOMAIN Append(q, e) = 1 .. Len(q) + 1
      /\ \A i \in DOMAIN q : Append(q, e)[i] = q[i]
      /\ Append(q, e)[Len(q) + 1] = e
  OBVIOUS
<1>2. Append(q, e) # <<>>
  BY <1>1
<1>3. DOMAIN Append(q, e) = DOMAIN q \cup {Len(q) + 1}
  BY <1>1
<1>4. Head(Append(q, e)) = Append(q, e)[1]
  BY <1>1, <1>2
<1>5. /\ q # <<>> => Head(Append(q, e)) = Head(q)
      /\ q = <<>> => Head(Append(q, e)) = e
  BY <1>1, <1>4
<1>6. QED
  BY <1>1, <1>2, <1>3, <1>5

\* The operation at the head of the queue, and the handler that waits for it.
LEMMA HeadParts ==
    ASSUME BoundaryInv, queue # <<>>
    PROVE  /\ Head(queue) = queue[1] /\ 1 \in DOMAIN queue
           /\ life \in {"open", "closing"}
           /\ Head(queue) \in Awaited \cup Operator
           /\ Head(queue).request = None <=> Head(queue).op \in {"activate", "replace", "close"}
           /\ Head(queue).request # None =>
                 /\ Head(queue).request \in Requests /\ Head(queue).outcome \in Outcomes
                 /\ Head(queue).op \in {"admit", "markSend", "finalize", "finish"}
                 /\ WaitsAt(Head(queue).op, pc[Head(queue).request])
                 /\ Head(queue).op = "finish" => Head(queue).outcome # "active"
                 /\ Head(queue).outcome = "completed" => released[Head(queue).request] = "all"
           /\ Head(queue).op = "close" => life = "closing" /\ Len(queue) = 1
           /\ step # "turn" => \A r \in Requests : reply[r] = None
           /\ Good(journal, provider, released)
<1>1. /\ Head(queue) = queue[1] /\ 1 \in DOMAIN queue /\ queue[1] \in Awaited \cup Operator
  BY QueueParts DEF BoundaryInv, BoundaryTypeOK
<1>2. life \in {"open", "closing"}
  BY DEF BoundaryInv, BoundaryTypeOK, QueueEnds
<1>3. /\ Head(queue).request = None <=> Head(queue).op \in {"activate", "replace", "close"}
      /\ Head(queue).request # None =>
            /\ Head(queue).request \in Requests /\ Head(queue).outcome \in Outcomes
            /\ Head(queue).op \in {"admit", "markSend", "finalize", "finish"}
  BY <1>1, CallersAssumption DEF Awaited, Operator
<1>4. Head(queue).request # None =>
                 /\ WaitsAt(Head(queue).op, pc[Head(queue).request])
                 /\ Head(queue).op = "finish" => Head(queue).outcome # "active"
                 /\ Head(queue).outcome = "completed" => released[Head(queue).request] = "all"
  BY <1>1 DEF BoundaryInv, JobsAwaited
<1>5. Head(queue).op = "close" => life = "closing" /\ Len(queue) = 1
  BY <1>1 DEF BoundaryInv, QueueEnds
<1>6. step # "turn" => \A r \in Requests : reply[r] = None
  BY DEF BoundaryInv, RepliesAwaited
<1>7. Good(journal, provider, released)
  BY <1>2 DEF BoundaryInv, GoodJournals
<1>8. QED
  BY <1>1, <1>2, <1>3, <1>4, <1>5, <1>6, <1>7

\* The operation goes on, or ends with an answer.
GoesOn ==
    /\ UNCHANGED <<queue, reply, life>>
    /\ \A r \in Requests : reply[r] = None
    /\ Head(queue).op = "admit" => step # "write"
Ends ==
    /\ queue' = Tail(queue) /\ step' = "turn"
    /\ life' = IF Head(queue).op = "close" THEN "closed" ELSE life
    /\ \E answer \in {"ok", "denied", "held"} :
          /\ reply' = [r \in Requests |-> IF r = Head(queue).request THEN answer ELSE reply[r]]
          /\ answer = "ok" /\ Head(queue).op \in {"admit", "markSend", "finalize"} =>
                disk' = journal /\ journal' = journal /\ step = "write"

\* What every step of the gate does.
Admits == Head(queue).op = "admit" /\ step' = "write"
GateMove ==
    /\ queue # <<>>
    /\ UNCHANGED <<callers, provider, frozen, pc, released>>
    /\ failed' \in BOOLEAN /\ uncertain' \in BOOLEAN /\ lock' \in BOOLEAN
    /\ writer' \in Nat /\ step' \in Steps
    /\ GoesOn \/ Ends
    /\ Good(journal', provider, released)
    /\ Succeeded(journal) \subseteq Succeeded(journal')
    /\ \A r \in Known(journal') : r \in Known(journal) \/ (r = Head(queue).request /\ Admits)
    /\ disk' \in {disk, journal}
    /\ \/ \A r \in Requests : reply[r] = None
       \/ disk' = disk /\ journal'.reservations = journal.reservations
    /\ uncertain' => lock' /\ (step' \in {"turn", "tidy"} \/ Head(queue).op = "close")
    /\ life' \in {"open", "closing"} => lock'
    /\ Fits(Head(queue), step', journal', bound)
    /\ journal'.phase \in {"active", "draining"} => journal'.epoch = frozen /\ writer' = 0
    /\ journal'.phase = "mutating" => Head(queue).op = "replace" /\ step' \in {"write", "mutate"}
    /\ journal'.phase = "mutating" /\ step' = "write" => journal'.epoch = frozen /\ writer' = 0
    /\ writer' # 0 => step' = "mutate" \/ (uncertain' /\ writer # 0)
    /\ Receipts => /\ writer' = 0 /\ journal'.epoch \in {0, 1}
                   /\ journal'.phase \in {"closed", "active"}

\* A step of the gate keeps the types.
LEMMA GateMoveTypes == BoundaryInv /\ GateMove => BoundaryTypeOK'
<1> SUFFICES ASSUME BoundaryInv, GateMove PROVE BoundaryTypeOK'
  OBVIOUS
<1> USE DEF GateMove
<1>1. BoundaryTypeOK /\ queue # <<>>
  BY DEF BoundaryInv
<1>2. journal' \in Journal /\ disk' \in Journal
  BY <1>1 DEF BoundaryTypeOK, Good
<1>3. queue' \in Seq(Awaited \cup Operator) /\ life' \in {"down", "open", "closing", "closed"}
  <2>1. CASE GoesOn
    BY <1>1, <2>1 DEF BoundaryTypeOK, GoesOn
  <2>2. CASE Ends
    <3>1. queue' \in Seq(Awaited \cup Operator)
      BY <1>1, <2>2, QueueParts DEF BoundaryTypeOK, Ends
    <3>2. QED
      BY <1>1, <2>2, <3>1 DEF BoundaryTypeOK, Ends
  <2>3. QED
    BY <2>1, <2>2
<1>4. reply' \in [Requests -> {"ok", "denied", "held", None}]
  BY <1>1 DEF BoundaryTypeOK, GoesOn, Ends
<1>5. QED
  BY <1>1, <1>2, <1>3, <1>4 DEF BoundaryTypeOK, callers

\* A step of the gate keeps the queue and what waits for its answers in order.
LEMMA GateMoveQueue ==
    BoundaryInv /\ GateMove =>
        JobsAwaited' /\ RepliesAwaited' /\ QueueEnds' /\ StepFits' /\ FreshUnknown'
<1> SUFFICES ASSUME BoundaryInv, GateMove
             PROVE  JobsAwaited' /\ RepliesAwaited' /\ QueueEnds' /\ StepFits' /\ FreshUnknown'
  OBVIOUS
<1>0. /\ queue # <<>> /\ queue \in Seq(Awaited \cup Operator)
      /\ JobsAwaited /\ RepliesAwaited /\ QueueEnds /\ FreshUnknown
      /\ step' \in Steps
  BY DEF BoundaryInv, BoundaryTypeOK, GateMove
<1>a. UNCHANGED <<pc, released>> /\ Fits(Head(queue), step', journal', bound) /\ bound' = bound
  BY DEF GateMove, callers
<1>b. /\ \A r \in Known(journal') : r \in Known(journal) \/ (r = Head(queue).request /\ Admits)
      /\ disk' \in {disk, journal}
  BY DEF GateMove
<1>h. /\ Head(queue) = queue[1] /\ 1 \in DOMAIN queue
      /\ life \in {"open", "closing"}
      /\ Head(queue).request # None => 
            /\ Head(queue).request \in Requests
            /\ WaitsAt(Head(queue).op, pc[Head(queue).request])
      /\ Head(queue).op = "close" => life = "closing" /\ Len(queue) = 1
      /\ Head(queue).op = "admit" => Head(queue).request # None
  BY <1>0, HeadParts
<1>f. /\ \A r \in Requests : pc'[r] = "new" => r \notin Known(disk')
      /\ \A r \in Requests : pc'[r] \in {"new", "body"} => r \notin Known(journal')
  BY <1>0, <1>a, <1>b, <1>h DEF FreshUnknown, Admits, WaitsAt
<1>1. CASE GoesOn
  <2>1. UNCHANGED <<queue, reply, life>> /\ \A r \in Requests : reply[r] = None
    BY <1>1 DEF GoesOn
  <2>2. JobsAwaited' /\ RepliesAwaited' /\ QueueEnds' /\ StepFits'
    BY <1>0, <1>a, <2>1 DEF JobsAwaited, RepliesAwaited, QueueEnds, StepFits
  <2>3. ASSUME NEW i \in DOMAIN queue, queue[i].op = "admit", ~ (i = 1 /\ step' = "write")
        PROVE  queue[i].request \notin Known(journal')
    <3>1. queue[i].request \notin Known(journal)
      <4>1. CASE i = 1
        <5>1. ~(i = 1 /\ step = "write")
          BY <1>1, <1>h, <2>3, <4>1 DEF GoesOn
        <5>2. QED
          BY <1>0, <2>3, <5>1 DEF FreshUnknown
      <4>2. CASE i # 1
        BY <1>0, <2>3, <4>2 DEF FreshUnknown
      <4>3. QED
        BY <4>1, <4>2
    <3>2. i # 1 /\ Admits => queue[i].request # Head(queue).request
      BY <1>0, <1>h DEF JobsAwaited, Admits
    <3>3. QED
      BY <1>b, <2>3, <3>1, <3>2 DEF Admits
  <2>4. FreshUnknown'
    BY <1>f, <2>1, <2>3 DEF FreshUnknown
  <2>5. QED
    BY <2>2, <2>4
<1>2. CASE Ends
  <2>1. /\ queue' = Tail(queue) /\ step' = "turn"
        /\ life' = IF Head(queue).op = "close" THEN "closed" ELSE life
    BY <1>2 DEF Ends
  <2>2. PICK answer \in {"ok", "denied", "held"} :
           reply' = [r \in Requests |-> IF r = Head(queue).request THEN answer ELSE reply[r]]
    BY <1>2 DEF Ends
  <2>3. /\ Len(queue) \in Nat \ {0} /\ DOMAIN queue = 1 .. Len(queue)
        /\ DOMAIN queue' = 1 .. Len(queue) - 1 /\ Len(queue') = Len(queue) - 1
        /\ \A i \in DOMAIN queue' : i + 1 \in DOMAIN queue /\ queue'[i] = queue[i + 1]
        /\ queue' = <<>> <=> Len(queue) = 1
    <3>1. queue' \in Seq(Awaited \cup Operator)
      BY <1>0, <2>1, QueueParts
    <3>2. /\ Len(queue) \in Nat \ {0} /\ DOMAIN queue = 1 .. Len(queue)
          /\ DOMAIN queue' = 1 .. Len(queue) - 1 /\ Len(queue') = Len(queue) - 1
          /\ \A i \in DOMAIN queue' : i + 1 \in DOMAIN queue /\ queue'[i] = queue[i + 1]
      BY <1>0, <2>1, QueueParts
    <3>3. queue' = <<>> <=> Len(queue) = 1
      BY <3>1, <3>2
    <3>4. QED
      BY <3>2, <3>3
  <2>4. \A i \in DOMAIN queue' : queue[i + 1].request # None =>
            queue[i + 1].request # Head(queue).request
    <3>1. ASSUME NEW i \in DOMAIN queue', queue[i + 1].request # None,
                 queue[i + 1].request = Head(queue).request
          PROVE  FALSE
      <4>1. i + 1 = 1
        BY <1>0, <1>h, <2>3, <3>1 DEF JobsAwaited
      <4>2. QED
        BY <2>3, <3>1, <4>1
    <3>2. QED
      BY <3>1
  <2>5. JobsAwaited'
    <3>1. ASSUME NEW i \in DOMAIN queue', queue'[i].request # None
          PROVE  /\ WaitsAt(queue'[i].op, pc'[queue'[i].request])
                 /\ reply'[queue'[i].request] = None
                 /\ queue'[i].op = "finish" => queue'[i].outcome # "active"
                 /\ queue'[i].outcome = "completed" => released'[queue'[i].request] = "all"
      <4>1. /\ i + 1 \in DOMAIN queue /\ queue'[i] = queue[i + 1]
            /\ queue[i + 1].request # Head(queue).request
        BY <2>3, <2>4, <3>1
      <4>2. queue[i + 1].request \in Requests
        BY <1>0, <3>1, <4>1 DEF Awaited, Operator
      <4>3. reply'[queue[i + 1].request] = reply[queue[i + 1].request]
        BY <2>2, <4>1, <4>2
      <4>4. QED
        BY <1>0, <1>a, <3>1, <4>1, <4>3 DEF JobsAwaited
    <3>2. ASSUME NEW i \in DOMAIN queue', NEW k \in DOMAIN queue',
                 queue'[i].request = queue'[k].request, queue'[i].request # None
          PROVE  i = k
      <4>1. i + 1 = k + 1
        BY <1>0, <2>3, <3>2 DEF JobsAwaited
      <4>2. QED
        BY <2>3, <4>1
    <3>3. QED
      BY <3>1, <3>2 DEF JobsAwaited
  <2>6. RepliesAwaited'
    <3>1. ASSUME NEW r \in Requests, reply'[r] # None PROVE pc[r] \in Waiting
      <4>1. CASE r = Head(queue).request
        BY <1>h, <4>1, CallersAssumption DEF WaitsAt, Waiting
      <4>2. CASE r # Head(queue).request
        BY <1>0, <2>2, <3>1, <4>2 DEF RepliesAwaited
      <4>3. QED
        BY <4>1, <4>2
    <3>2. QED
      BY <1>a, <2>1, <3>1 DEF RepliesAwaited
  <2>7. QueueEnds'
    <3>1. \A i \in DOMAIN queue' : queue'[i].op = "close" <=> (life' = "closing" /\ i = Len(queue'))
      <4>1. SUFFICES ASSUME NEW i \in DOMAIN queue'
                     PROVE  queue'[i].op = "close" <=> (life' = "closing" /\ i = Len(queue'))
        OBVIOUS
      <4>2. i + 1 \in DOMAIN queue /\ queue'[i] = queue[i + 1] /\ Len(queue) # 1
        BY <2>3
      <4>3. Head(queue).op # "close"
        BY <1>h, <4>2
      <4>4. queue[i + 1].op = "close" <=> (life = "closing" /\ i + 1 = Len(queue))
        BY <1>0, <4>2 DEF QueueEnds
      <4>5. i + 1 = Len(queue) <=> i = Len(queue')
        BY <2>3
      <4>6. QED
        BY <2>1, <4>2, <4>3, <4>4, <4>5
    <3>2. life' \in {"down", "closed"} => queue' = <<>>
      BY <1>h, <2>1, <2>3
    <3>3. queue' = <<>> => life' # "closing"
      <4>1. SUFFICES ASSUME queue' = <<>>, life = "closing" PROVE Head(queue).op = "close"
        BY <1>h, <2>1
      <4>2. QED
        BY <1>0, <1>h, <2>3, <4>1 DEF QueueEnds
    <3>4. QED
      BY <2>1, <3>1, <3>2, <3>3 DEF QueueEnds
  <2>8. StepFits'
    BY <2>1 DEF StepFits, Fits
  <2>9. FreshUnknown'
    <3>1. ASSUME NEW i \in DOMAIN queue', queue'[i].op = "admit"
          PROVE  queue'[i].request \notin Known(journal')
      <4>1. i + 1 \in DOMAIN queue /\ queue'[i] = queue[i + 1] /\ i + 1 # 1
        BY <2>3, <3>1
      <4>2. queue[i + 1].request \notin Known(journal)
        BY <1>0, <3>1, <4>1 DEF FreshUnknown
      <4>3. ~Admits
        BY <2>1 DEF Admits
      <4>4. QED
        BY <1>b, <4>1, <4>2, <4>3
    <3>2. QED
      BY <1>f, <3>1 DEF FreshUnknown
  <2>10. QED
    BY <2>5, <2>6, <2>7, <2>8, <2>9
<1>3. QED
  BY <1>1, <1>2 DEF GateMove

\* What the step answers is so.
LEMMA GateMoveAnswers ==
    BoundaryInv /\ GateMove => AnswersHold' /\ PolicyInForce' /\ LifeHolds' /\ GoodJournals'
<1> SUFFICES ASSUME BoundaryInv, GateMove
             PROVE  AnswersHold' /\ PolicyInForce' /\ LifeHolds' /\ GoodJournals'
  OBVIOUS
<1>0. /\ queue # <<>> /\ AnswersHold /\ PolicyInForce /\ LifeHolds /\ StepFits /\ RepliesAwaited
      /\ Good(disk, provider, released)
      /\ provider' = provider /\ pc' = pc /\ released' = released
      /\ frozen' = frozen /\ scopes' = scopes /\ bound' = bound
      /\ GoesOn \/ Ends
      /\ Good(journal', provider, released)
      /\ Succeeded(journal) \subseteq Succeeded(journal')
      /\ disk' \in {disk, journal}
  BY DEF BoundaryInv, GateMove, GoodJournals, callers
<1>h. /\ Head(queue) = queue[1] /\ 1 \in DOMAIN queue
      /\ life \in {"open", "closing"}
      /\ Head(queue).op = "close" => life = "closing"
      /\ Head(queue).request # None => 
            /\ Head(queue).request \in Requests
            /\ Head(queue).op \in {"admit", "markSend", "finalize", "finish"}
            /\ WaitsAt(Head(queue).op, pc[Head(queue).request])
      /\ Head(queue).op \in {"admit", "markSend", "finalize", "finish"} => Head(queue).request # None
      /\ Good(journal, provider, released)
      /\ step # "turn" => \A r \in Requests : reply[r] = None
  <2>1. Head(queue).op \in {"admit", "markSend", "finalize", "finish"} => Head(queue).request # None
    BY <1>0, HeadParts
  <2>2. QED
    BY <1>0, <2>1, HeadParts
<1>l. life' \in {"open", "closing", "closed"}
  BY <1>0, <1>h DEF GoesOn, Ends
<1>1. GoodJournals'
  BY <1>0, <1>h DEF GoodJournals
<1>2. LifeHolds'
  <2>1. /\ life' \in {"open", "closing"} => lock'
        /\ uncertain' => lock' /\ (step' \in {"turn", "tidy"} \/ Head(queue).op = "close")
    BY DEF GateMove
  <2>2. uncertain' => step' \in {"turn", "tidy"} \/ (queue' # <<>> /\ Head(queue').op = "close")
    BY <1>0, <2>1 DEF GoesOn, Ends
  <2>3. QED
    BY <1>0, <1>l, <2>1, <2>2 DEF LifeHolds
\* Whoever holds the answer "ok" got it with this step, or the step kept what it rests on.
<1>3. ASSUME NEW r \in Requests, reply'[r] = "ok",
             pc[r] \in {"admitting", "marking", "finalizing"}
      PROVE  \/ /\ disk' = journal /\ journal' = journal /\ step = "write"
                /\ r = Head(queue).request /\ WaitsAt(Head(queue).op, pc[r])
             \/ /\ reply[r] = "ok" /\ disk' = disk
                /\ journal'.reservations = journal.reservations /\ step = "turn"
  <2>0. None # "ok"
    BY NoneAssumption
  <2>1. CASE reply[r] = "ok"
    <3>1. disk' = disk /\ journal'.reservations = journal.reservations
      BY <2>0, <2>1 DEF GateMove
    <3>2. step = "turn"
      BY <1>0, <2>0, <2>1 DEF RepliesAwaited
    <3>3. QED
      BY <2>1, <3>1, <3>2
  <2>2. CASE reply[r] # "ok"
    <3>1. Ends
      BY <1>0, <1>3, <2>2 DEF GoesOn
    <3>2. PICK answer \in {"ok", "denied", "held"} :
          /\ reply' = [q \in Requests |-> IF q = Head(queue).request THEN answer ELSE reply[q]]
          /\ answer = "ok" /\ Head(queue).op \in {"admit", "markSend", "finalize"} =>
                disk' = journal /\ journal' = journal /\ step = "write"
      BY <3>1 DEF Ends
    <3>3. r = Head(queue).request /\ answer = "ok"
      BY <1>3, <2>2, <3>2
    <3>4. WaitsAt(Head(queue).op, pc[r]) /\ Head(queue).op \in {"admit", "markSend", "finalize"}
      BY <1>3, <1>h, <3>3, CallersAssumption DEF WaitsAt
    <3>5. QED
      BY <3>2, <3>3, <3>4
  <2>3. QED
    BY <2>1, <2>2
<1>4. AnswersHold'
  <2>1. SUFFICES ASSUME NEW r \in Requests
        PROVE  /\ pc[r] \in {"admitting", "marking"} /\ reply'[r] = "ok" =>
                     r \in Reserved(journal') /\ r \in Reserved(disk')
               /\ pc[r] = "marking" /\ reply'[r] = "ok" =>
                     /\ journal'.reservations[r].send = "send_possible"
                     /\ disk'.reservations[r].send = "send_possible"
               /\ Receipts /\ (pc[r] = "releasing" \/ (pc[r] = "finalizing" /\ reply'[r] = "ok")) =>
                     r \in Succeeded(journal') /\ r \in Succeeded(disk')
               /\ Receipts /\ released[r] # "none" =>
                     r \in Succeeded(disk') /\ (life' # "down" => r \in Succeeded(journal'))
    BY <1>0 DEF AnswersHold
  <2>2. /\ pc[r] \in {"admitting", "marking"} /\ reply'[r] = "ok" =>
              r \in Reserved(journal') /\ r \in Reserved(disk')
        /\ pc[r] = "marking" /\ reply'[r] = "ok" =>
              /\ journal'.reservations[r].send = "send_possible"
              /\ disk'.reservations[r].send = "send_possible"
    <3>1. SUFFICES ASSUME pc[r] \in {"admitting", "marking"}, reply'[r] = "ok"
          PROVE  /\ r \in Reserved(journal') /\ r \in Reserved(disk')
                 /\ pc[r] = "marking" => /\ journal'.reservations[r].send = "send_possible"
                                         /\ disk'.reservations[r].send = "send_possible"
      OBVIOUS
    <3>2. CASE /\ disk' = journal /\ journal' = journal /\ step = "write"
               /\ r = Head(queue).request /\ WaitsAt(Head(queue).op, pc[r])
      BY <1>0, <3>1, <3>2 DEF StepFits, Fits, WaitsAt, Sendable
    <3>3. CASE /\ reply[r] = "ok" /\ disk' = disk
               /\ journal'.reservations = journal.reservations
      <4>1. Reserved(journal') = Reserved(journal)
        BY <3>3 DEF Reserved
      <4>2. QED
        BY <1>0, <3>1, <3>3, <4>1 DEF AnswersHold
    <3>4. QED
      BY <1>3, <3>1, <3>2, <3>3
  <2>3. Receipts /\ (pc[r] = "releasing" \/ (pc[r] = "finalizing" /\ reply'[r] = "ok")) =>
            r \in Succeeded(journal') /\ r \in Succeeded(disk')
    <3>1. SUFFICES ASSUME Receipts, pc[r] = "releasing" \/ (pc[r] = "finalizing" /\ reply'[r] = "ok")
                   PROVE  r \in Succeeded(journal') /\ r \in Succeeded(disk')
      OBVIOUS
    <3>2. CASE pc[r] = "releasing"
      BY <1>0, <3>1, <3>2 DEF AnswersHold
    <3>3. CASE pc[r] = "finalizing" /\ reply'[r] = "ok"
      <4>1. CASE /\ disk' = journal /\ journal' = journal /\ step = "write"
                 /\ r = Head(queue).request /\ WaitsAt(Head(queue).op, pc[r])
        BY <1>0, <3>3, <4>1 DEF StepFits, Fits, WaitsAt
      <4>2. CASE reply[r] = "ok" /\ disk' = disk
        BY <1>0, <3>1, <3>3, <4>2 DEF AnswersHold
      <4>3. QED
        BY <1>3, <3>3, <4>1, <4>2
    <3>4. QED
      BY <3>1, <3>2, <3>3
  <2>4. Receipts /\ released[r] # "none" =>
            r \in Succeeded(disk') /\ (life' # "down" => r \in Succeeded(journal'))
    BY <1>0, <1>h DEF AnswersHold
  <2>5. QED
    BY <2>2, <2>3, <2>4
<1>5. PolicyInForce'
  <2>1. /\ journal'.phase \in {"active", "draining"} => journal'.epoch = frozen /\ writer' = 0
        /\ journal'.phase = "mutating" => Head(queue).op = "replace" /\ step' \in {"write", "mutate"}
        /\ journal'.phase = "mutating" /\ step' = "write" => journal'.epoch = frozen /\ writer' = 0
        /\ writer' # 0 => step' = "mutate" \/ (uncertain' /\ writer # 0)
        /\ Receipts => /\ writer' = 0 /\ journal'.epoch \in {0, 1}
                       /\ journal'.phase \in {"closed", "active"}
    BY DEF GateMove
  <2>2. step' # "turn" => queue' = queue
    BY <1>0 DEF GoesOn, Ends
  <2>3. Receipts => disk'.epoch \in {0, 1}
    BY <1>0 DEF PolicyInForce
  <2>4. ASSUME NEW r \in Requests, ~Receipts, pc[r] = "admitting", reply'[r] = "ok"
        PROVE  bound[AttemptOf[r]] = frozen /\ writer' = 0
    <3>1. step' = "turn"
      BY <1>0, <2>4, NoneAssumption DEF GoesOn, Ends
    <3>2. bound[AttemptOf[r]] = frozen /\ writer = 0
      <4>1. CASE /\ journal' = journal /\ step = "write"
                 /\ r = Head(queue).request /\ WaitsAt(Head(queue).op, pc[r])
        BY <1>0, <2>4, <4>1 DEF StepFits, Fits, WaitsAt, PolicyInForce
      <4>2. CASE reply[r] = "ok"
        BY <1>0, <2>4, <4>2 DEF PolicyInForce
      <4>3. QED
        BY <1>3, <2>4, <4>1, <4>2
    <3>3. QED
      BY <2>1, <3>1, <3>2
  <2>5. QED
    BY <1>0, <2>1, <2>2, <2>3, <2>4 DEF PolicyInForce
<1>6. QED
  BY <1>1, <1>2, <1>4, <1>5

\* A step of the gate keeps the invariant.
LEMMA GateMoveKeeps == BoundaryInv /\ GateMove => BoundaryInv'
  BY GateMoveTypes, GateMoveQueue, GateMoveAnswers DEF BoundaryInv

-----------------------------------------------------------------------------
(* The operations, step by step.  An operation of the gate is at its turn, or *)
(* was answered by the authority, while it alone changes the journal.         *)

\* A step of an operation that leaves everything but the journal and the queue alone.
RunsAt(op, s) ==
    /\ At(op, s) /\ (s = "turn" => Accepts)
    /\ op \in {"activate", "admit", "markSend", "finalize", "finish", "replace"}
    /\ s \in {"turn", "settle", "retired", "receipt", "verdict", "drain"}
    /\ Quietly /\ UNCHANGED boundary

\* A journal the operation may go on with at step s.
Sound(j, s) ==
    /\ Good(j, provider, released) /\ Succeeded(journal) \subseteq Succeeded(j)
    /\ \A r \in Known(j) :
          \/ r \in Known(journal)
          \/ r = Head(queue).request /\ Head(queue).op = "admit" /\ s = "write"
    /\ Fits(Head(queue), s, j, bound)
    /\ j.phase \in {"active", "draining"} => j.epoch = frozen
    /\ j.phase = "mutating" => Head(queue).op = "replace" /\ s = "write" /\ j.epoch = frozen
    /\ Receipts => j.epoch \in {0, 1} /\ j.phase \in {"closed", "active"}

\* What holds where an operation of the gate runs.
LEMMA Running ==
    ASSUME BoundaryInv, NEW op, NEW s, RunsAt(op, s)
    PROVE  /\ queue # <<>> /\ Head(queue).op = op /\ step = s
           /\ \A r \in Requests : reply[r] = None
           /\ ~uncertain /\ writer = 0 /\ lock /\ frozen \in Nat \ {0}
           /\ failed \in BOOLEAN /\ uncertain \in BOOLEAN /\ lock \in BOOLEAN
           /\ journal \in Journal /\ Good(journal, provider, released)
           /\ Fits(Head(queue), s, journal, bound)
           /\ journal.phase # "mutating"
           /\ journal.phase \in {"active", "draining"} => journal.epoch = frozen
           /\ Receipts => /\ frozen = 1 /\ journal.epoch \in {0, 1}
                          /\ journal.phase \in {"closed", "active"}
<1>1. /\ queue # <<>> /\ Head(queue).op = op /\ step = s
      /\ \A r \in Requests : reply[r] = None
      /\ s = "turn" => Accepts
      /\ op \in {"activate", "admit", "markSend", "finalize", "finish", "replace"}
      /\ s \in {"turn", "settle", "retired", "receipt", "verdict", "drain"}
  BY DEF RunsAt, At
<1>2. life \in {"open", "closing"} /\ Good(journal, provider, released)
  BY <1>1, HeadParts
<1>3. ~uncertain /\ lock
  BY <1>1, <1>2 DEF BoundaryInv, LifeHolds, Accepts
<1>4. writer = 0 /\ journal.phase # "mutating"
  BY <1>1, <1>3 DEF BoundaryInv, PolicyInForce
<1>5. /\ journal.phase \in {"active", "draining"} => journal.epoch = frozen
      /\ Receipts => /\ frozen = 1 /\ journal.epoch \in {0, 1}
                     /\ journal.phase \in {"closed", "active"}
  BY DEF BoundaryInv, PolicyInForce
<1>6. /\ frozen \in Nat \ {0} /\ failed \in BOOLEAN /\ uncertain \in BOOLEAN /\ lock \in BOOLEAN
      /\ journal \in Journal
      /\ Fits(Head(queue), s, journal, bound)
  BY <1>1 DEF BoundaryInv, BoundaryTypeOK, StepFits
<1>7. QED
  BY <1>1, <1>2, <1>3, <1>4, <1>5, <1>6

\* An operation of the gate that goes on.
LEMMA Proceeds ==
    ASSUME BoundaryInv, NEW op, NEW s, RunsAt(op, s), NEW j,
           NEW t \in {"settle", "retired", "receipt", "verdict", "write"},
           Proceed(j, t), Sound(j, t)
    PROVE  GateMove
<1>1. /\ queue # <<>> /\ Head(queue).op = op /\ step = s
      /\ \A r \in Requests : reply[r] = None
      /\ ~uncertain /\ writer = 0 /\ lock
      /\ failed \in BOOLEAN /\ uncertain \in BOOLEAN /\ lock \in BOOLEAN
  BY Running
<1>2. /\ UNCHANGED <<life, failed, uncertain, disk, lock, callers, provider, frozen, writer, pc, released>>
      /\ op \in {"activate", "admit", "markSend", "finalize", "finish", "replace"}
      /\ s # "write"
  BY DEF RunsAt, Quietly, external, boundary
<1>3. journal' = j /\ step' = t /\ UNCHANGED <<queue, reply>>
  BY DEF Proceed
<1>4. GoesOn
  BY <1>1, <1>2, <1>3 DEF GoesOn
<1>5. /\ Good(journal', provider, released) /\ Succeeded(journal) \subseteq Succeeded(journal')
      /\ \A r \in Known(journal') : r \in Known(journal) \/ (r = Head(queue).request /\ Admits)
      /\ Fits(Head(queue), step', journal', bound)
      /\ journal'.phase \in {"active", "draining"} => journal'.epoch = frozen
      /\ journal'.phase = "mutating" =>
            Head(queue).op = "replace" /\ step' = "write" /\ journal'.epoch = frozen
      /\ Receipts => journal'.epoch \in {0, 1} /\ journal'.phase \in {"closed", "active"}
  BY <1>3 DEF Sound, Admits
<1>6. QED
  BY <1>1, <1>2, <1>3, <1>4, <1>5 DEF GateMove, Steps

\* What closing the phase of a journal keeps.
LEMMA Closes ==
    ASSUME BoundaryInv, queue # <<>>, NEW j, j = [journal EXCEPT !.phase = "closed"]
    PROVE  /\ Good(j, provider, released) /\ Succeeded(journal) \subseteq Succeeded(j)
           /\ Known(j) \subseteq Known(journal) /\ j.reservations = journal.reservations
           /\ Reserved(j) = Reserved(journal)
           /\ j.phase = "closed" /\ j.epoch = journal.epoch /\ j \in Journal
<1>1. journal \in Journal /\ Good(journal, provider, released)
  BY HeadParts DEF BoundaryInv, BoundaryTypeOK
<1>2. QED
  BY <1>1, PhaseParts DEF Follows

\* An operation of the gate that fails.
LEMMA Throws ==
    ASSUME BoundaryInv, NEW op, NEW s, RunsAt(op, s), NEW j,
           j = journal \/ j = [journal EXCEPT !.phase = "closed"], Throw(j)
    PROVE  GateMove
<1>1. /\ queue # <<>> /\ Head(queue).op = op /\ step = s
      /\ \A r \in Requests : reply[r] = None
      /\ ~uncertain /\ writer = 0 /\ lock
      /\ failed \in BOOLEAN /\ uncertain \in BOOLEAN /\ lock \in BOOLEAN
      /\ Good(journal, provider, released)
      /\ journal.phase # "mutating"
      /\ journal.phase \in {"active", "draining"} => journal.epoch = frozen
      /\ Receipts => journal.epoch \in {0, 1} /\ journal.phase \in {"closed", "active"}
  BY Running
<1>2. /\ UNCHANGED <<life, failed, uncertain, disk, lock, callers, provider, frozen, writer, pc, released>>
      /\ op \in {"activate", "admit", "markSend", "finalize", "finish", "replace"}
      /\ s # "write"
  BY DEF RunsAt, Quietly, external, boundary
<1>3. /\ Good(j, provider, released) /\ Succeeded(journal) \subseteq Succeeded(j)
      /\ Known(j) \subseteq Known(journal)
      /\ j.phase \in {journal.phase, "closed"} /\ j.epoch = journal.epoch
  BY <1>1, Closes
<1>4. journal' = j /\ step' \in {"tidy", "turn"} /\ (GoesOn \/ Ends)
  <2>1. CASE Proceed(j, "tidy")
    BY <1>1, <1>2, <2>1 DEF Proceed, GoesOn
  <2>2. CASE journal' = j /\ Return("denied")
    BY <1>1, <1>2, <2>2 DEF Return, Ends
  <2>3. QED
    BY <2>1, <2>2 DEF Throw
<1>5. Fits(Head(queue), step', journal', bound)
  BY <1>4 DEF Fits
<1>6. QED
  BY <1>1, <1>2, <1>3, <1>4, <1>5 DEF GateMove, Steps

\* A journal of the same policy that forgets nothing and adds no request.
LEMMA FollowsIsSound ==
    ASSUME BoundaryInv, NEW op, NEW s, RunsAt(op, s), NEW j, NEW t, Good(j, provider, released),
           Follows(j, journal), j.epoch = journal.epoch, j.phase \in {journal.phase, "closed"},
           Fits(Head(queue), t, j, bound)
    PROVE  Sound(j, t)
  BY Running DEF Sound, Follows

\* A journal of whatever policy, once every reservation may go.
LEMMA Emptied ==
    ASSUME NEW p, NEW o, NEW j, Good(j, p, o), NEW k \in Journal,
           k.decisions = j.decisions, k.counts = j.counts, Reserved(k) = {},
           \A r \in Reserved(j) : /\ p[r] \notin {"sent", "running"}
                                  /\ Receipts /\ p[r] # "none" => r \in Decided(j)
    PROVE  /\ Good(k, p, o) /\ Succeeded(k) = Succeeded(j) /\ Known(k) \subseteq Known(j)
<1>1. OneEpoch(k)
  BY DEF OneEpoch
<1>2. Good(k, p, o)
  BY <1>1, GoodShrinks
<1>3. Succeeded(k) = Succeeded(j) /\ Known(k) \subseteq Known(j)
  BY DEF Succeeded, Known, Decided, Positions
<1>4. QED
  BY <1>2, <1>3

\* What is quiet is not under way.
LEMMA QuietMeans ==
    ASSUME NEW S, Quiet(S), NEW r \in S
    PROVE  provider[r] \notin {"sent", "running"}
  BY DEF Quiet

\* Activation is a step of the gate: it releases only what never left or is over.
LEMMA ActivateMoves ==
    ASSUME BoundaryInv, UNCHANGED boundary, ActivateTurn \/ SettleUnsent \/ SettleSent \/ Adopt
    PROVE  GateMove
<1>1. CASE ActivateTurn
  <2>1. RunsAt("activate", "turn")
    BY <1>1 DEF ActivateTurn, Takes, RunsAt
  <2>2. CASE journal.phase = "closed" /\ Proceed(journal, "settle")
    <3>1. Good(journal, provider, released) /\ Head(queue).op = "activate"
      BY <2>1, Running
    <3>2. Follows(journal, journal) /\ Fits(Head(queue), "settle", journal, bound)
      BY <2>2, <3>1 DEF Follows, Fits, Good
    <3>3. Sound(journal, "settle")
      BY <2>1, <3>1, <3>2, FollowsIsSound
    <3>4. QED
      BY <2>1, <2>2, <3>3, Proceeds
  <2>3. CASE Throw(journal)
    BY <2>1, <2>3, Throws
  <2>4. QED
    BY <1>1, <2>2, <2>3 DEF ActivateTurn
<1>2. ASSUME NEW r \in Reserved(journal), Receipts, RunsAt("activate", "settle"),
             journal.reservations[r].send = "reserved" \/ Settled(r),
             Proceed(Leave(journal, r), "write")
      PROVE  GateMove
  <2>1. Good(journal, provider, released) /\ Head(queue).op = "activate"
    BY <1>2, Running
  <2>2. PICK k : k = Leave(journal, r)
    OBVIOUS
  <2>3. /\ Good(k, provider, released) /\ Follows(k, journal)
        /\ k.phase = journal.phase /\ k.epoch = journal.epoch
    BY <1>2, <2>1, <2>2, GoodLeave DEF Settled
  <2>4. Fits(Head(queue), "write", k, bound)
    BY <2>1 DEF Fits
  <2>5. Sound(k, "write")
    BY <1>2, <2>3, <2>4, FollowsIsSound
  <2>6. QED
    BY <1>2, <2>2, <2>5, Proceeds
<1>3. CASE SettleUnsent
  <2>1. RunsAt("activate", "settle") /\ Receipts
    BY <1>3 DEF SettleUnsent, RunsAt
  <2>2. QED
    BY <1>2, <1>3, <2>1 DEF SettleUnsent
<1>4. CASE SettleSent
  <2>1. RunsAt("activate", "settle") /\ Receipts
    BY <1>4 DEF SettleSent, Hears, RunsAt
  <2>2. CASE Throw(journal)
    BY <2>1, <2>2, Throws
  <2>3. QED
    BY <1>2, <1>4, <2>1, <2>2 DEF SettleSent
<1>5. CASE Adopt
  <2>1. RunsAt("activate", "settle") /\ (Receipts => Reserved(journal) = {})
    BY <1>5 DEF Adopt, Hears, RunsAt
  <2>2. CASE Throw(journal)
    BY <2>1, <2>2, Throws
  <2>3. ASSUME Quiet(Reserved(journal)),
               NEW k, k = [Release(journal, Requests) EXCEPT !.epoch = frozen, !.phase = "active"],
               Proceed(k, "write")
        PROVE  GateMove
    <3>1. /\ Good(journal, provider, released) /\ journal \in Journal /\ Head(queue).op = "activate"
          /\ frozen \in Nat \ {0} /\ (Receipts => frozen = 1)
      BY <2>1, Running
    <3>2. PICK m : m = Release(journal, Requests)
      OBVIOUS
    <3>3. /\ m \in Journal /\ m.counts = journal.counts /\ m.decisions = journal.decisions
          /\ Reserved(m) = Reserved(journal) \ Requests
      BY <3>1, <3>2, ReleaseParts DEF Follows
    <3>4. k = [m EXCEPT !.epoch = frozen, !.phase = "active"]
      BY <2>3, <3>2
    <3>5. /\ k \in Journal /\ k.phase = "active" /\ k.epoch = frozen
          /\ k.counts = m.counts /\ k.decisions = m.decisions /\ k.reservations = m.reservations
      BY <3>1, <3>3, <3>4 DEF Journal
    <3>6. Reserved(k) = {}
      BY <3>3, <3>5 DEF Reserved
    <3>7. \A r \in Reserved(journal) : /\ provider[r] \notin {"sent", "running"}
                                       /\ Receipts /\ provider[r] # "none" => r \in Decided(journal)
      BY <2>1, <2>3, QuietMeans
    <3>8. /\ Good(k, provider, released) /\ Succeeded(k) = Succeeded(journal)
          /\ Known(k) \subseteq Known(journal)
      BY <3>1, <3>3, <3>5, <3>6, <3>7, Emptied
    <3>9. Sound(k, "write")
      BY <3>1, <3>5, <3>8 DEF Sound, Fits
    <3>10. QED
      BY <2>1, <2>3, <3>9, Proceeds
  <2>4. QED
    BY <1>5, <2>2, <2>3 DEF Adopt
<1>6. QED
  BY <1>1, <1>3, <1>4, <1>5

\* A request that found room is reserved, or its admission fails.
LEMMA AdmissionMoves ==
    ASSUME BoundaryInv, NEW s, RunsAt("admit", s), NEW j, Good(j, provider, released),
           Follows(j, journal), j.phase = "active", journal.phase = "active",
           j.epoch = journal.epoch, j.epoch # 0,
           Continues(j, Head(queue).request),
           Receipts => Len(j.decisions) + Cardinality(Reserved(j)) < MaxDecisions,
           Serial => Reserved(j) = {}, Room(j, Head(queue).request),
           Proceed(Reserve(j, Head(queue).request), "write")
    PROVE  GateMove
<1>1. PICK r : r = Head(queue).request
  OBVIOUS
<1>2. /\ queue # <<>> /\ Head(queue).op = "admit" /\ step = s /\ s # "write"
      /\ journal.epoch = frozen
      /\ Receipts => journal.epoch \in {0, 1}
  BY Running DEF RunsAt
<1>3. r \in Requests /\ pc[r] = "admitting" /\ Head(queue) = queue[1] /\ 1 \in DOMAIN queue
  BY <1>1, <1>2, HeadParts, CallersAssumption DEF WaitsAt
<1>4. r \notin Known(j) /\ provider[r] = "none"
  <2>1. r \notin Known(journal)
    BY <1>1, <1>2, <1>3 DEF BoundaryInv, FreshUnknown
  <2>2. QED
    BY <1>3, <2>1 DEF Follows, BoundaryInv, AnswersHold
<1>5. /\ Cardinality(ReservedBy(j, AttemptOf[r])) < Concurrency
      /\ j.counts[AttemptOf[r]] < RequestCount
      /\ bound[AttemptOf[r]] = j.epoch
  BY <1>1 DEF Room, HeldBy
<1>6. PICK k : k = Reserve(j, r)
  OBVIOUS
<1>7. /\ Good(k, provider, released) /\ k.phase = "active" /\ k.epoch = journal.epoch
      /\ Known(k) = Known(j) \cup {r} /\ Succeeded(k) = Succeeded(j)
      /\ Reserved(k) = Reserved(j) \cup {r}
  BY <1>1, <1>3, <1>4, <1>5, <1>6, GoodReserve
<1>8. Fits(Head(queue), "write", k, bound)
  BY <1>1, <1>2, <1>5, <1>7 DEF Fits
<1>9. Sound(k, "write")
  BY <1>1, <1>2, <1>7, <1>8 DEF Sound, Follows
<1>10. QED
  BY <1>1, <1>6, <1>9, Proceeds

\* Admission is a step of the gate: it reserves only within the limits and the binding.
LEMMA AdmitMoves ==
    ASSUME BoundaryInv, UNCHANGED boundary, AdmitTurn \/ AdmitRetired
    PROVE  GateMove
<1>1. CASE AdmitTurn
  <2>1. RunsAt("admit", "turn")
    BY <1>1 DEF AdmitTurn, Takes, RunsAt
  <2>2. /\ Good(journal, provider, released) /\ journal \in Journal /\ Head(queue).op = "admit"
        /\ Follows(journal, journal)
    BY <2>1, Running DEF Follows
  <2>3. CASE Throw(journal)
    BY <2>1, <2>3, Throws
  <2>4. CASE /\ Admissible(journal, Head(queue).request) /\ ~Receipts
             /\ Proceed(journal, "retired")
    <3>1. Fits(Head(queue), "retired", journal, bound)
      BY <2>2, <2>4 DEF Fits, Admissible
    <3>2. QED
      BY <2>1, <2>2, <2>4, <3>1, FollowsIsSound, Proceeds
  <2>5. CASE /\ Admissible(journal, Head(queue).request) /\ Room(journal, Head(queue).request)
             /\ Proceed(Reserve(journal, Head(queue).request), "write")
    BY <2>1, <2>2, <2>5, AdmissionMoves DEF Admissible
  <2>6. QED
    BY <1>1, <2>3, <2>4, <2>5 DEF AdmitTurn, Admission, AssertCurrentRefuses
<1>2. CASE AdmitRetired
  <2>1. RunsAt("admit", "retired")
    BY <1>2 DEF AdmitRetired, Hears, RunsAt
  <2>2. /\ Good(journal, provider, released) /\ journal \in Journal /\ Head(queue).op = "admit"
        /\ ~Receipts /\ journal.phase = "active" /\ journal.epoch # 0
    BY <2>1, Running DEF Fits
  <2>3. ~Planner /\ ~Serial
    BY <2>2, ModesAssumption
  <2>4. ASSUME NEW j, Admission(j, Head(queue).request),
               j = journal \/ (Quiet(Retired(journal)) /\ j = Release(journal, Retired(journal)))
        PROVE  GateMove
    <3>1. /\ Good(j, provider, released) /\ Follows(j, journal)
          /\ j.phase = "active" /\ j.epoch = journal.epoch
      <4>1. CASE j = journal
        BY <2>2, <4>1 DEF Follows
      <4>2. CASE Quiet(Retired(journal)) /\ j = Release(journal, Retired(journal))
        <5>1. Follows(j, journal) /\ j.phase = "active" /\ j.epoch = journal.epoch
          BY <2>2, <4>2, ReleaseParts
        <5>2. \A r \in Reserved(journal) \cap Retired(journal) :
                 /\ provider[r] \notin {"sent", "running"}
                 /\ Receipts /\ provider[r] # "none" => r \in Decided(journal)
          BY <2>2, <4>2, QuietMeans
        <5>3. QED
          BY <2>2, <4>2, <5>1, <5>2, GoodRelease
      <4>3. QED
        BY <2>4, <4>1, <4>2
    <3>2. CASE Room(j, Head(queue).request) /\ Proceed(Reserve(j, Head(queue).request), "write")
      <4>1. Continues(j, Head(queue).request)
        BY <2>3 DEF Continues
      <4>2. QED
        BY <2>1, <2>2, <2>3, <3>1, <3>2, <4>1, AdmissionMoves
    <3>3. CASE Throw(j)
      <4>1. j.phase # "closed"
        BY <3>1
      <4>2. journal' = j /\ Return("denied")
        BY <3>3, <4>1 DEF Throw
      <4>3. /\ queue # <<>> /\ step = "retired"
            /\ \A r \in Requests : reply[r] = None
            /\ writer = 0 /\ lock /\ ~uncertain
            /\ failed \in BOOLEAN /\ uncertain \in BOOLEAN /\ lock \in BOOLEAN
            /\ journal.epoch = frozen
        BY <2>1, <2>2, Running
      <4>4. UNCHANGED <<life, failed, uncertain, disk, lock, callers, provider, frozen, writer, pc, released>>
        BY <2>1 DEF RunsAt, Quietly, external, boundary
      <4>5. Ends /\ step' = "turn"
        BY <2>2, <4>2, <4>4 DEF Ends, Return
      <4>6. Fits(Head(queue), step', journal', bound)
        BY <4>5 DEF Fits
      <4>7. QED
        BY <2>2, <3>1, <4>2, <4>3, <4>4, <4>5, <4>6 DEF GateMove, Steps, Follows
    <3>4. QED
      BY <2>4, <3>2, <3>3 DEF Admission
  <2>5. PICK quiescent \in {FALSE, Quiet(Retired(journal))} :
           Admission(IF quiescent THEN Release(journal, Retired(journal)) ELSE journal,
                     Head(queue).request)
    BY <1>2 DEF AdmitRetired
  <2>6. CASE quiescent
    BY <2>4, <2>5, <2>6
  <2>7. CASE ~quiescent
    BY <2>4, <2>5, <2>7
  <2>8. QED
    BY <2>6, <2>7
<1>3. QED
  BY <1>1, <1>2

\* An operation of the gate that is answered without a change of the journal.
LEMMA Declines ==
    ASSUME BoundaryInv, queue # <<>>, NEW answer \in {"denied", "held"}, Return(answer),
           \A r \in Requests : reply[r] = None,
           Head(queue).op # "close", journal' = journal, disk' \in {disk, journal},
           UNCHANGED <<life, failed, uncertain, lock, callers, provider, frozen, writer, pc, released>>,
           step # "mutate", journal.phase # "mutating"
    PROVE  GateMove
<1>1. Ends /\ step' = "turn"
  BY DEF Ends, Return
<1>2. Good(journal, provider, released) /\ life \in {"open", "closing"}
  BY HeadParts
<1>3. /\ failed \in BOOLEAN /\ uncertain \in BOOLEAN /\ lock \in BOOLEAN /\ writer \in Nat
      /\ life \in {"open", "closing"} => lock
      /\ uncertain => lock
      /\ journal.phase \in {"active", "draining"} => journal.epoch = frozen /\ writer = 0
      /\ writer # 0 => uncertain
      /\ Receipts => /\ writer = 0 /\ journal.epoch \in {0, 1}
                     /\ journal.phase \in {"closed", "active"}
  BY DEF BoundaryInv, BoundaryTypeOK, LifeHolds, PolicyInForce
<1>4. Fits(Head(queue), step', journal', bound)
  BY <1>1 DEF Fits
<1>5. QED
  BY <1>1, <1>2, <1>3, <1>4 DEF GateMove, Steps

\* Marking a send, finalising and its receipt are steps of the gate.
LEMMA SendMoves ==
    ASSUME BoundaryInv, UNCHANGED boundary, MarkSendTurn \/ FinalizeTurn \/ ReceiptArrives
    PROVE  GateMove
<1>0. PICK r : r = Head(queue).request
  OBVIOUS
<1>1. CASE MarkSendTurn
  <2>1. RunsAt("markSend", "turn")
    BY <1>1 DEF MarkSendTurn, Takes, RunsAt
  <2>2. Good(journal, provider, released) /\ journal \in Journal /\ Head(queue).op = "markSend"
    BY <2>1, Running
  <2>3. CASE Throw(journal)
    BY <2>1, <2>3, Throws
  <2>4. ASSUME Sendable(journal, r, "reserved"),
               NEW k, k = [journal EXCEPT !.reservations[r].send = "send_possible"],
               Proceed(k, "write")
        PROVE  GateMove
    <3>1. /\ Good(k, provider, released) /\ Follows(k, journal) /\ Sendable(k, r, "send_possible")
          /\ k.phase = journal.phase /\ k.epoch = journal.epoch
      BY <2>2, <2>4, GoodMark
    <3>2. Fits(Head(queue), "write", k, bound)
      BY <1>0, <2>2, <3>1 DEF Fits
    <3>3. QED
      BY <2>1, <2>4, <3>1, <3>2, FollowsIsSound, Proceeds
  <2>5. QED
    BY <1>0, <1>1, <2>3, <2>4 DEF MarkSendTurn, AssertCurrentRefuses
<1>2. CASE FinalizeTurn
  <2>1. RunsAt("finalize", "turn")
    BY <1>2 DEF FinalizeTurn, Takes, RunsAt
  <2>2. Good(journal, provider, released) /\ journal \in Journal /\ Head(queue).op = "finalize"
    BY <2>1, Running
  <2>3. CASE Throw(journal)
    BY <2>1, <2>3, Throws
  <2>4. CASE Sendable(journal, r, "send_possible") /\ Proceed(journal, "receipt")
    <3>1. Fits(Head(queue), "receipt", journal, bound) /\ Follows(journal, journal)
      BY <1>0, <2>2, <2>4 DEF Fits, Follows
    <3>2. QED
      BY <2>1, <2>2, <2>4, <3>1, FollowsIsSound, Proceeds
  <2>5. QED
    BY <1>0, <1>2, <2>3, <2>4 DEF FinalizeTurn
<1>3. CASE ReceiptArrives
  <2>1. RunsAt("finalize", "receipt")
    BY <1>3 DEF ReceiptArrives, Hears, RunsAt
  <2>2. /\ Good(journal, provider, released) /\ journal \in Journal /\ Head(queue).op = "finalize"
        /\ Sendable(journal, r, "send_possible")
    BY <1>0, <2>1, Running DEF Fits
  <2>3. CASE Throw(journal)
    BY <2>1, <2>3, Throws
  <2>4. ASSUME provider[r] = "success",
               NEW k, k = RecordDecision(journal, r, "validated_success"), Proceed(k, "write")
        PROVE  GateMove
    <3>1. r \in Reserved(journal) /\ Receipts
      <4>1. queue # <<>> /\ Head(queue).op = "finalize"
        BY <2>1, <2>2, Running
      <4>2. r \in Reserved(journal)
        BY <2>2 DEF Sendable
      <4>3. r \in Requests /\ pc[r] = "finalizing"
        BY <1>0, <4>1, HeadParts, CallersAssumption DEF WaitsAt
      <4>4. QED
        BY <4>2, <4>3 DEF BoundaryInv, AnswersHold
    <3>2. /\ Good(k, provider, released) /\ Follows(k, journal) /\ r \in Succeeded(k)
          /\ k.phase = journal.phase /\ k.epoch = journal.epoch
      BY <2>2, <2>4, <3>1, GoodRecord
    <3>3. Fits(Head(queue), "write", k, bound)
      BY <1>0, <2>2, <3>2 DEF Fits
    <3>4. QED
      BY <2>1, <2>4, <3>2, <3>3, FollowsIsSound, Proceeds
  <2>5. QED
    BY <1>0, <1>3, <2>3, <2>4 DEF ReceiptArrives
<1>4. QED
  BY <1>1, <1>2, <1>3

\* Finishing is a step of the gate: what may be under way stays reserved.
LEMMA FinishMoves ==
    ASSUME BoundaryInv, UNCHANGED boundary, FinishTurn \/ VerdictArrives
    PROVE  GateMove
<1>0. PICK r : r = Head(queue).request
  OBVIOUS
<1>a. PICK outcome : outcome = Head(queue).outcome
  OBVIOUS
<1>1. ASSUME NEW s, RunsAt("finish", s), r \in Reserved(journal)
      PROVE  /\ Good(journal, provider, released) /\ journal \in Journal
             /\ Head(queue).op = "finish"
             /\ outcome \in Outcomes \ {"active"}
             /\ outcome = "completed" => released[r] = "all"
  <2>1. /\ Good(journal, provider, released) /\ journal \in Journal /\ Head(queue).op = "finish"
        /\ queue # <<>>
    BY <1>1, Running
  <2>2. QED
    BY <1>0, <1>a, <2>1, HeadParts
<1>2. ASSUME NEW s, RunsAt("finish", s), NEW k, NEW t \in {"write", "verdict"}, Proceed(k, t),
             r \in Reserved(journal), Good(k, provider, released), Follows(k, journal),
             k.phase = journal.phase, k.epoch = journal.epoch,
             t = "verdict" => r \in Reserved(k)
      PROVE  GateMove
  <2>1. Fits(Head(queue), t, k, bound)
    BY <1>0, <1>1, <1>2 DEF Fits
  <2>2. QED
    BY <1>2, <2>1, FollowsIsSound, Proceeds
<1>3. ASSUME NEW s, RunsAt("finish", s), Receipts, r \in Reserved(journal),
             NEW j, Good(j, provider, released), Follows(j, journal), r \in Reserved(j),
             j.phase = journal.phase, j.epoch = journal.epoch,
             j.reservations[r].send = "reserved" \/ provider[r] \in {"success", "failure"},
             Proceed(Conclude(j, r, outcome), "write")
      PROVE  GateMove
  <2>1. outcome \in Outcomes \ {"active"} /\ (outcome = "completed" => released[r] = "all")
    BY <1>1, <1>3
  <2>2. PICK k : k = Conclude(j, r, outcome)
    OBVIOUS
  <2>3. /\ Good(k, provider, released) /\ Follows(k, j)
        /\ k.phase = j.phase /\ k.epoch = j.epoch
    BY <1>3, <2>1, <2>2, GoodConclude
  <2>4. Follows(k, journal)
    BY <1>3, <2>3 DEF Follows
  <2>5. QED
    BY <1>2, <1>3, <2>2, <2>3, <2>4
<1>4. ASSUME NEW s, RunsAt("finish", s), ~Receipts, r \in Reserved(journal),
             NEW j, Good(j, provider, released), Follows(j, journal),
             j.phase = journal.phase, j.epoch = journal.epoch,
             provider[r] \notin {"sent", "running"}, Proceed(Release(j, {r}), "write")
      PROVE  GateMove
  <2>1. PICK k : k = Release(j, {r})
    OBVIOUS
  <2>2. Good(k, provider, released)
    BY <1>4, <2>1, GoodRelease
  <2>3. Follows(k, j) /\ k.phase = j.phase /\ k.epoch = j.epoch
    BY <1>4, <2>1, ReleaseParts DEF Follows
  <2>4. Follows(k, journal)
    BY <1>4, <2>3 DEF Follows
  <2>5. QED
    BY <1>2, <1>4, <2>1, <2>2, <2>3, <2>4
<1>5. CASE FinishTurn
  <2>1. RunsAt("finish", "turn")
    BY <1>5 DEF FinishTurn, Takes, RunsAt
  <2>2. CASE Throw(journal)
    BY <2>1, <2>2, Throws
  <2>3. PICK j : j = [journal EXCEPT !.reservations[r].outcome = outcome]
    OBVIOUS
  <2>4. ASSUME r \in Reserved(journal)
        PROVE  /\ Good(j, provider, released) /\ Follows(j, journal) /\ r \in Reserved(j)
               /\ j.phase = journal.phase /\ j.epoch = journal.epoch
               /\ j.reservations[r].send = journal.reservations[r].send
    <3>1. Good(journal, provider, released) /\ outcome \in Outcomes
      BY <1>1, <2>1, <2>4
    <3>2. QED
      BY <2>3, <2>4, <3>1, GoodOutcome
  <2>5. CASE /\ r \in Reserved(journal) /\ Receipts /\ Sendable(journal, r, "reserved")
             /\ Proceed(Conclude(j, r, outcome), "write")
    BY <1>3, <2>1, <2>4, <2>5 DEF Sendable
  <2>6. CASE /\ r \in Reserved(journal) /\ ~Receipts /\ NeverForwarded(r, outcome)
             /\ Proceed(Release(j, {r}), "write")
    BY <1>4, <2>1, <2>4, <2>6 DEF NeverForwarded
  <2>7. CASE r \in Reserved(journal) /\ Proceed(j, "verdict")
    BY <1>2, <2>1, <2>4, <2>7
  <2>8. QED
    BY <1>0, <1>a, <1>5, <2>2, <2>3, <2>5, <2>6, <2>7 DEF FinishTurn
<1>6. CASE VerdictArrives
  <2>1. RunsAt("finish", "verdict")
    BY <1>6 DEF VerdictArrives, Hears, RunsAt
  <2>2. r \in Reserved(journal) /\ Good(journal, provider, released) /\ Follows(journal, journal)
    BY <1>0, <2>1, Running DEF Fits, Follows
  <2>3. CASE Receipts /\ Settled(r) /\ Proceed(Conclude(journal, r, outcome), "write")
    BY <1>3, <2>1, <2>2, <2>3 DEF Settled
  <2>4. CASE Proceed(journal, "write")
    BY <1>2, <2>1, <2>2, <2>4
  <2>5. CASE ~Receipts /\ Quiet({r}) /\ Proceed(Release(journal, {r}), "write")
    BY <1>4, <2>1, <2>2, <2>5 DEF Quiet
  <2>6. QED
    BY <1>0, <1>a, <1>6, <2>3, <2>4, <2>5 DEF VerdictArrives
<1>7. QED
  BY <1>5, <1>6

\* Draining is a step of the gate: the policy is given up only when nothing is under way.
LEMMA DrainMoves ==
    ASSUME BoundaryInv, UNCHANGED boundary, ReplaceTurn \/ DrainWaits \/ Drain
    PROVE  GateMove
<1>1. CASE ReplaceTurn
  <2>1. RunsAt("replace", "turn")
    BY <1>1 DEF ReplaceTurn, Takes, RunsAt
  <2>2. CASE Throw(journal)
    BY <2>1, <2>2, Throws
  <2>3. ASSUME journal.phase \in {"active", "draining"}, NEW phase \in {"closed", "draining"},
               phase = IF Receipts THEN "closed" ELSE "draining",
               NEW k, k = [journal EXCEPT !.phase = phase], Proceed(k, "write")
        PROVE  GateMove
    <3>1. /\ Good(journal, provider, released) /\ journal \in Journal /\ Head(queue).op = "replace"
          /\ journal.epoch = frozen /\ (Receipts => journal.epoch \in {0, 1})
      BY <2>1, <2>3, Running
    <3>2. /\ Good(k, provider, released) /\ Follows(k, journal)
          /\ k.phase = phase /\ k.epoch = journal.epoch
      BY <2>3, <3>1, PhaseParts
    <3>3. Sound(k, "write")
      BY <2>3, <3>1, <3>2 DEF Sound, Fits, Follows
    <3>4. QED
      BY <2>1, <2>3, <3>3, Proceeds
  <2>4. QED
    BY <1>1, <2>2, <2>3 DEF ReplaceTurn
<1>2. CASE DrainWaits
  <2>1. RunsAt("replace", "drain")
    BY <1>2 DEF DrainWaits, RunsAt
  <2>2. QED
    BY <1>2, <2>1, Running, Declines DEF DrainWaits, Quietly, external, boundary
<1>3. CASE Drain
  <2>1. RunsAt("replace", "drain")
    BY <1>3 DEF Drain, Hears, RunsAt
  <2>2. /\ Good(journal, provider, released) /\ journal \in Journal /\ Head(queue).op = "replace"
        /\ journal.phase = "draining" /\ ~Receipts /\ journal.epoch = frozen
    BY <2>1, Running DEF Fits
  <2>3. CASE Return("held") /\ UNCHANGED journal
    BY <2>1, <2>2, <2>3, Running, Declines DEF RunsAt, Quietly, external, boundary
  <2>4. ASSUME Quiet(Reserved(journal)), NEW k,
               k = [Release(journal, Requests) EXCEPT !.phase = "mutating"],
               Proceed(k, "write")
        PROVE  GateMove
    <3>1. PICK m : m = Release(journal, Requests)
      OBVIOUS
    <3>2. /\ m \in Journal /\ m.counts = journal.counts /\ m.decisions = journal.decisions
          /\ m.epoch = journal.epoch /\ Reserved(m) = Reserved(journal) \ Requests
      BY <2>2, <3>1, ReleaseParts DEF Follows
    <3>3. k = [m EXCEPT !.phase = "mutating"]
      BY <2>4, <3>1
    <3>4. /\ k \in Journal /\ k.phase = "mutating" /\ k.epoch = frozen
          /\ k.counts = journal.counts /\ k.decisions = journal.decisions
          /\ k.reservations = m.reservations
      BY <2>2, <3>2, <3>3 DEF Journal
    <3>5. Reserved(k) = {}
      BY <3>2, <3>4 DEF Reserved
    <3>6. \A r \in Reserved(journal) : provider[r] \notin {"sent", "running"}
      BY <2>4, QuietMeans
    <3>7. /\ Good(k, provider, released) /\ Succeeded(k) = Succeeded(journal)
          /\ Known(k) \subseteq Known(journal)
      BY <2>2, <3>4, <3>5, <3>6, Emptied
    <3>8. Sound(k, "write")
      BY <2>2, <3>4, <3>5, <3>7 DEF Sound, Fits
    <3>9. QED
      BY <2>1, <2>4, <3>8, Proceeds
  <2>5. QED
    BY <1>3, <2>3, <2>4 DEF Drain
<1>4. QED
  BY <1>1, <1>2, <1>3

\* The writer of a policy answers, fails, or is given up on.
LEMMA MutateMoves ==
    ASSUME BoundaryInv, UNCHANGED boundary, Replaced \/ ReplaceFails \/ ReplaceAbandoned
    PROVE  GateMove
<1>1. At("replace", "mutate")
  BY DEF Replaced, ReplaceFails, ReplaceAbandoned, Hears
<1>2. /\ queue # <<>> /\ Head(queue).op = "replace" /\ step = "mutate"
      /\ \A r \in Requests : reply[r] = None
  BY <1>1 DEF At
<1>3. /\ Good(journal, provider, released) /\ journal \in Journal
      /\ life \in {"open", "closing"}
      /\ ~Receipts /\ Reserved(journal) = {}
      /\ failed \in BOOLEAN /\ uncertain \in BOOLEAN /\ lock \in BOOLEAN /\ writer \in Nat
      /\ lock /\ ~uncertain
  <2>1. life \in {"open", "closing"}
    BY <1>2, HeadParts
  <2>2. QED
    BY <1>2, <2>1, HeadParts
       DEF BoundaryInv, BoundaryTypeOK, StepFits, Fits, LifeHolds
<1>4. CASE Replaced
  <2>1. PICK k : k = [journal EXCEPT !.epoch = writer, !.phase = "active"]
    OBVIOUS
  <2>2. /\ frozen = writer /\ writer' = 0 /\ Proceed(k, "write")
        /\ UNCHANGED <<life, failed, uncertain, disk, lock, callers, provider, frozen, pc, released>>
    BY <1>4, <2>1 DEF Replaced, boundary
  <2>3. /\ k \in Journal /\ k.phase = "active" /\ k.epoch = frozen
        /\ k.counts = journal.counts /\ k.decisions = journal.decisions
        /\ k.reservations = journal.reservations
    BY <1>3, <2>1, <2>2 DEF Journal
  <2>4. Reserved(k) = {}
    BY <1>3, <2>3 DEF Reserved
  <2>5. /\ Good(k, provider, released) /\ Succeeded(k) = Succeeded(journal)
        /\ Known(k) \subseteq Known(journal)
    BY <1>3, <2>3, <2>4, Emptied
  <2>6. journal' = k /\ step' = "write" /\ GoesOn
    BY <1>2, <2>2 DEF Proceed, GoesOn
  <2>7. Fits(Head(queue), step', journal', bound)
    BY <1>2, <2>4, <2>6 DEF Fits
  <2>8. QED
    BY <1>2, <1>3, <2>2, <2>3, <2>5, <2>6, <2>7 DEF GateMove, Steps
<1>5. ASSUME NEW j, j = [journal EXCEPT !.phase = "closed"], Throw(j),
             UNCHANGED <<life, failed, disk, lock, callers, provider, frozen, pc, released>>,
             uncertain' \in BOOLEAN, writer' \in Nat, writer' # 0 => uncertain' /\ writer # 0
      PROVE  GateMove
  <2>1. /\ Good(j, provider, released) /\ Succeeded(journal) \subseteq Succeeded(j)
        /\ Known(j) \subseteq Known(journal) /\ j.phase = "closed"
    BY <1>2, <1>5, Closes
  <2>2. journal' = j /\ step' \in {"tidy", "turn"} /\ (GoesOn \/ Ends)
    <3>1. CASE Proceed(j, "tidy")
      BY <1>2, <1>5, <3>1 DEF Proceed, GoesOn
    <3>2. CASE journal' = j /\ Return("denied")
      BY <1>2, <1>5, <3>2 DEF Return, Ends
    <3>3. QED
      BY <1>5, <3>1, <3>2 DEF Throw
  <2>3. Fits(Head(queue), step', journal', bound)
    BY <2>2 DEF Fits
  <2>4. QED
    BY <1>2, <1>3, <1>5, <2>1, <2>2, <2>3 DEF GateMove, Steps
<1>6. CASE ReplaceFails
  BY <1>3, <1>5, <1>6 DEF ReplaceFails, boundary
<1>7. CASE ReplaceAbandoned
  BY <1>3, <1>5, <1>7 DEF ReplaceAbandoned, boundary, external
<1>8. QED
  BY <1>4, <1>6, <1>7

\* A failed answer of the authority is a step of the gate that closes it.
LEMMA AuthorityFailsMoves ==
    ASSUME BoundaryInv, UNCHANGED boundary, AuthorityFails
    PROVE  GateMove
<1>1. /\ Throw([journal EXCEPT !.phase = "closed"]) /\ Quietly
      /\ \/ At("activate", "settle") \/ At("admit", "retired") \/ At("finalize", "receipt")
         \/ At("finish", "verdict") \/ At("replace", "drain")
  BY DEF AuthorityFails, Asks
<1>2. \/ RunsAt("activate", "settle") \/ RunsAt("admit", "retired") \/ RunsAt("finalize", "receipt")
      \/ RunsAt("finish", "verdict") \/ RunsAt("replace", "drain")
  BY <1>1 DEF RunsAt
<1>3. PICK op, s : RunsAt(op, s)
  BY <1>2
<1>4. QED
  BY <1>1, <1>3, Throws

\* Where the gate is in the middle of a write no policy is being installed.
LEMMA Writing ==
    ASSUME BoundaryInv, queue # <<>>, step # "mutate"
    PROVE  /\ failed \in BOOLEAN /\ uncertain \in BOOLEAN /\ lock \in BOOLEAN /\ writer \in Nat
           /\ life \in {"open", "closing"} /\ lock /\ Good(journal, provider, released)
           /\ writer # 0 => uncertain
           /\ step \notin {"turn", "tidy"} /\ Head(queue).op # "close" => ~uncertain /\ writer = 0
           /\ journal.phase = "mutating" => Head(queue).op = "replace" /\ step = "write"
           /\ journal.phase \in {"active", "draining"} => journal.epoch = frozen /\ writer = 0
           /\ Receipts => /\ writer = 0 /\ journal.epoch \in {0, 1}
                          /\ journal.phase \in {"closed", "active"}
           /\ step # "turn" => \A r \in Requests : reply[r] = None
           /\ Fits(Head(queue), step, journal, bound)
           /\ Head(queue).op = "close" => life = "closing"
<1>1. /\ life \in {"open", "closing"} /\ Good(journal, provider, released)
      /\ step # "turn" => \A r \in Requests : reply[r] = None
      /\ Head(queue).op = "close" => life = "closing"
  BY HeadParts
<1>2. /\ failed \in BOOLEAN /\ uncertain \in BOOLEAN /\ lock \in BOOLEAN /\ writer \in Nat
      /\ uncertain => step \in {"turn", "tidy"} \/ Head(queue).op = "close"
      /\ lock
  BY <1>1 DEF BoundaryInv, BoundaryTypeOK, LifeHolds
<1>3. /\ writer # 0 => uncertain
      /\ journal.phase = "mutating" => Head(queue).op = "replace" /\ step = "write"
      /\ journal.phase \in {"active", "draining"} => journal.epoch = frozen /\ writer = 0
      /\ Receipts => /\ writer = 0 /\ journal.epoch \in {0, 1}
                     /\ journal.phase \in {"closed", "active"}
  BY DEF BoundaryInv, PolicyInForce
<1>4. Fits(Head(queue), step, journal, bound)
  BY DEF BoundaryInv, StepFits
<1>5. QED
  BY <1>1, <1>2, <1>3, <1>4

\* An operation that loses the directory, its write done or not.
LEMMA LosesMoves ==
    ASSUME BoundaryInv, UNCHANGED boundary, StorageFails \/ PersistRefused
    PROVE  GateMove
<1>1. /\ queue # <<>> /\ step # "mutate" /\ Return("denied")
      /\ failed' = TRUE /\ journal' = [journal EXCEPT !.phase = "closed"]
      /\ disk' \in {disk, journal} /\ (step \notin {"write", "tidy"} => disk' = disk)
      /\ life' = IF Head(queue).op = "close" THEN "closed" ELSE life
      /\ UNCHANGED <<uncertain, lock, callers, provider, frozen, writer, pc, released>>
  BY DEF StorageFails, PersistRefused, LosesOwner, boundary, external
<1>2. PICK j : j = [journal EXCEPT !.phase = "closed"]
  OBVIOUS
<1>3. /\ Good(j, provider, released) /\ Succeeded(journal) \subseteq Succeeded(j)
      /\ Known(j) \subseteq Known(journal) /\ j.reservations = journal.reservations
      /\ j.phase = "closed" /\ j.epoch = journal.epoch
  BY <1>1, <1>2, Closes
<1>4. Ends /\ step' = "turn" /\ journal' = j
  BY <1>1, <1>2 DEF Ends, Return
<1>5. Fits(Head(queue), step', journal', bound)
  BY <1>4 DEF Fits
<1>6. \/ \A r \in Requests : reply[r] = None
      \/ disk' = disk /\ journal'.reservations = journal.reservations
  BY <1>1, <1>3, <1>4, Writing
<1>7. QED
  BY <1>1, <1>3, <1>4, <1>5, <1>6, Writing DEF GateMove, Steps

\* A close is a step of the gate, the last one of its queue.
LEMMA CloseMoves ==
    ASSUME BoundaryInv, UNCHANGED boundary, CloseTurn \/ CloseWritten
    PROVE  GateMove
<1>1. /\ queue # <<>> /\ Head(queue).op = "close" /\ step \in {"turn", "write"}
      /\ \A r \in Requests : reply[r] = None
  BY DEF CloseTurn, CloseWritten, At
<1>2. CASE CloseTurn
  <2>1. PICK j : j = [journal EXCEPT !.phase = "closed"]
    OBVIOUS
  <2>2. /\ Good(j, provider, released) /\ Succeeded(journal) \subseteq Succeeded(j)
        /\ Known(j) \subseteq Known(journal) /\ j.phase = "closed" /\ j.epoch = journal.epoch
    BY <1>1, <2>1, Closes
  <2>3. /\ Proceed(j, "write")
        /\ UNCHANGED <<life, failed, uncertain, disk, lock, callers, provider, frozen, writer, pc, released>>
    BY <1>2, <2>1 DEF CloseTurn, Quietly, external, boundary
  <2>4. GoesOn /\ journal' = j /\ step' = "write"
    BY <1>1, <2>3 DEF GoesOn, Proceed
  <2>5. Fits(Head(queue), step', journal', bound)
    BY <1>1, <2>4 DEF Fits
  <2>6. QED
    BY <1>1, <2>2, <2>3, <2>4, <2>5, Writing DEF GateMove, Steps
<1>3. CASE CloseWritten
  <2>1. /\ disk' = journal /\ journal' = journal /\ life' = "closed" /\ Return("ok")
        /\ UNCHANGED <<failed, uncertain, callers, provider, frozen, writer, pc, released>>
    BY <1>3 DEF CloseWritten, external, boundary
  <2>2. lock' \in BOOLEAN /\ (uncertain => lock')
    BY <1>3 DEF CloseWritten, Unlocks
  <2>3. Ends /\ step' = "turn"
    BY <1>1, <2>1 DEF Ends, Return
  <2>4. Fits(Head(queue), step', journal', bound)
    BY <2>3 DEF Fits
  <2>5. QED
    BY <1>1, <2>1, <2>2, <2>3, <2>4, Writing DEF GateMove, Steps
<1>4. QED
  BY <1>2, <1>3

\* Once the journal is on disk the operation goes on, or its caller is answered.
LEMMA PersistMoves ==
    ASSUME BoundaryInv, UNCHANGED boundary, Persist
    PROVE  GateMove
<1>1. /\ queue # <<>> /\ step = "write" /\ Head(queue).op # "close" /\ life = "open"
      /\ disk' = journal /\ Written
      /\ writer' = IF Head(queue).op = "replace" /\ journal.phase = "mutating"
                   THEN journal.epoch + 1 ELSE writer
      /\ UNCHANGED <<life, failed, uncertain, lock, callers, provider, frozen, pc, released>>
  BY DEF Persist, boundary
<1>2. /\ failed \in BOOLEAN /\ uncertain \in BOOLEAN /\ lock \in BOOLEAN
      /\ lock /\ Good(journal, provider, released) /\ ~uncertain /\ writer = 0
      /\ journal.phase = "mutating" => Head(queue).op = "replace"
      /\ journal.phase \in {"active", "draining"} => journal.epoch = frozen
      /\ Receipts => journal.epoch \in {0, 1} /\ journal.phase \in {"closed", "active"}
      /\ \A r \in Requests : reply[r] = None
      /\ Fits(Head(queue), "write", journal, bound)
  BY <1>1, Writing
<1>3. journal.epoch \in Nat /\ Head(queue).op \in {"activate", "replace", "admit", "markSend", "finalize", "finish"}
  <2>1. Head(queue) \in Awaited \cup Operator
    BY <1>1, HeadParts
  <2>2. QED
    BY <1>1, <1>2, <2>1 DEF Good, Journal, Awaited, Operator
<1>4. ASSUME NEW t \in {"settle", "drain", "mutate", "tidy", "turn"},
             step' = t, journal' = journal, GoesOn \/ Ends,
             t = "settle" => Head(queue).op = "activate" /\ journal.phase = "closed",
             t = "drain" => Head(queue).op = "replace" /\ journal.phase = "draining",
             t = "mutate" => Head(queue).op = "replace" /\ journal.phase = "mutating",
             t # "mutate" => ~(Head(queue).op = "replace" /\ journal.phase = "mutating")
      PROVE  GateMove
  <2>1. Fits(Head(queue), step', journal', bound)
    BY <1>2, <1>4 DEF Fits
  <2>2. writer' \in Nat /\ (writer' # 0 => t = "mutate") /\ (t # "mutate" => writer' = 0)
    BY <1>1, <1>2, <1>3, <1>4
  <2>3. Receipts => writer' = 0
    BY <1>2, <1>4, <2>2
  <2>4. QED
    BY <1>1, <1>2, <1>4, <2>1, <2>2, <2>3 DEF GateMove, Steps
<1>5. ASSUME NEW t \in {"settle", "drain", "mutate"}, Proceed(journal, t), Head(queue).op # "admit"
      PROVE  step' = t /\ journal' = journal /\ GoesOn
  BY <1>1, <1>2, <1>5 DEF Proceed, GoesOn
<1>6. ASSUME NEW answer \in {"ok", "denied", "held"}, Return(answer), journal' = journal
      PROVE  step' = "turn" /\ Ends
  BY <1>1, <1>6 DEF Return, Ends
<1>7. ASSUME Throw(journal), Head(queue).op # "admit"
      PROVE  step' \in {"tidy", "turn"} /\ journal' = journal /\ (GoesOn \/ Ends)
  <2>1. CASE Proceed(journal, "tidy")
    BY <1>1, <1>2, <1>7, <2>1 DEF Proceed, GoesOn
  <2>2. CASE journal' = journal /\ Return("denied")
    BY <1>6, <2>2
  <2>3. QED
    BY <1>7, <2>1, <2>2 DEF Throw
<1>8. CASE Head(queue).op = "activate" /\ journal.phase = "closed"
  <2>1. Proceed(journal, "settle")
    BY <1>1, <1>8 DEF Written
  <2>2. QED
    BY <1>4, <1>5, <1>8, <2>1
<1>9. CASE Head(queue).op = "replace" /\ journal.phase = "draining"
  <2>1. Proceed(journal, "drain")
    BY <1>1, <1>9 DEF Written
  <2>2. QED
    BY <1>4, <1>5, <1>9, <2>1
<1>10. CASE Head(queue).op = "replace" /\ journal.phase = "mutating"
  <2>1. Proceed(journal, "mutate")
    BY <1>1, <1>10 DEF Written
  <2>2. QED
    BY <1>4, <1>5, <1>10, <2>1
<1>11. CASE Head(queue).op = "replace" /\ journal.phase = "closed"
  <2>1. Throw(journal)
    BY <1>1, <1>11 DEF Written
  <2>2. QED
    BY <1>4, <1>7, <1>11, <2>1
<1>12. CASE Head(queue).op = "finalize"
  <2>1. (Return("ok") /\ journal' = journal) \/ Throw(journal)
    BY <1>1, <1>12 DEF Written
  <2>2. QED
    BY <1>4, <1>6, <1>7, <1>12, <2>1
<1>13. CASE Head(queue).op = "finish"
  <2>1. (Return("held") \/ Return("ok")) /\ journal' = journal
    BY <1>1, <1>13 DEF Written
  <2>2. QED
    BY <1>4, <1>6, <1>13, <2>1
<1>14. CASE \/ Head(queue).op \in {"admit", "markSend"}
            \/ Head(queue).op = "activate" /\ journal.phase # "closed"
            \/ Head(queue).op = "replace" /\ journal.phase \notin {"draining", "mutating", "closed"}
  <2>1. (Return("ok") \/ Return("denied")) /\ journal' = journal
    BY <1>1, <1>14 DEF Written
  <2>2. QED
    BY <1>4, <1>6, <1>14, <2>1
<1>15. QED
  BY <1>3, <1>8, <1>9, <1>10, <1>11, <1>12, <1>13, <1>14

\* A refusal, and what a failed operation persists, are steps of the gate.
LEMMA RefuseMoves ==
    ASSUME BoundaryInv, UNCHANGED boundary, Refuse \/ Tidy
    PROVE  GateMove
<1>1. CASE Refuse
  BY <1>1, Writing, Declines DEF Refuse, external, boundary
<1>2. CASE Tidy
  <2>1. /\ queue # <<>> /\ step = "tidy" /\ life = "open" /\ disk' = journal /\ Return("denied")
        /\ UNCHANGED <<life, failed, uncertain, journal, lock, callers, provider, frozen, writer, pc, released>>
    BY <1>2 DEF Tidy, external, boundary
  <2>2. Head(queue).op # "close" /\ journal.phase # "mutating" /\ \A r \in Requests : reply[r] = None
    BY <2>1, Writing
  <2>3. QED
    BY <2>1, <2>2, Declines
<1>3. QED
  BY <1>1, <1>2

\* Every step of the gate, and every failure of its storage.
LEMMA GateStepsMove ==
    ASSUME BoundaryInv, UNCHANGED boundary, GateSteps \/ StorageFails
    PROVE  GateMove
  BY ActivateMoves, AdmitMoves, SendMoves, FinishMoves, DrainMoves, MutateMoves,
     AuthorityFailsMoves, LosesMoves, CloseMoves, PersistMoves, RefuseMoves DEF GateSteps

-----------------------------------------------------------------------------
(* A step of a handler. *)

\* What a step of the handler of r does: it goes on to a label, and where it waits for an
\* operation it has queued one.
Queues(r, label) ==
    \/ queue' = queue /\ label \notin Waiting
    \/ \E op \in {"admit", "markSend", "finalize", "finish"}, outcome \in Outcomes :
          /\ life = "open" /\ WaitsAt(op, label)
          /\ queue' = Append(queue, Job(op, r, outcome))
          /\ op = "finish" => outcome # "active"
          /\ outcome = "completed" => released'[r] = "all"
Departs(r, label) ==
    \/ provider' = provider /\ (label = "streaming" => provider[r] # "none")
    \/ /\ label = "streaming" /\ provider[r] = "none"
       /\ provider' = [provider EXCEPT ![r] = "sent"] /\ released' = released
       /\ Current(r) /\ bound[AttemptOf[r]] = frozen
       /\ r \in Reserved(journal) /\ r \in Reserved(disk)
       /\ Receipts => /\ journal.reservations[r].send = "send_possible"
                      /\ disk.reservations[r].send = "send_possible"
Releases(r) ==
    \/ released' = released
    \/ /\ \E output \in {"some", "all"} :
             /\ released' = [released EXCEPT ![r] = output]
             /\ output = "some" => released[r] = "none"
       /\ Current(r) /\ provider[r] # "none"
       /\ Receipts => r \in Succeeded(journal) /\ r \in Succeeded(disk)
HandlerMove(r, label) ==
    /\ UNCHANGED <<life, failed, uncertain, journal, disk, lock, step, scopes, bound, shut, frozen, writer>>
    /\ label \in Waiting \cup {"streaming", "releasing", "done"}
    /\ pc' = [pc EXCEPT ![r] = label]
    /\ pc[r] \in Handling /\ (pc[r] \in Waiting => reply[r] # None)
    /\ reply' = [reply EXCEPT ![r] = None]
    /\ aborted' \in [Requests -> BOOLEAN]
    /\ Queues(r, label) /\ Departs(r, label) /\ Releases(r)
    /\ label = "admitting" => pc[r] = "body"
    /\ label \in {"admitting", "marking"} => provider'[r] = "none"
    /\ label \in {"finalizing", "releasing"} => provider'[r] # "none"
    /\ label \in {"marking", "finalizing", "releasing"} => Receipts
    /\ Receipts /\ label = "releasing" => r \in Succeeded(journal) /\ r \in Succeeded(disk)

\* What a handler's step changes: its own request, and no answer or progress of another.
LEMMA HandlerParts ==
    ASSUME BoundaryInv, NEW r \in Requests, NEW label, HandlerMove(r, label)
    PROVE  /\ pc'[r] = label /\ reply'[r] = None
           /\ pc' \in [Requests -> InFlight \cup {"new", "finishing", "done", "gone"}]
           /\ reply' \in [Requests -> {"ok", "denied", "held", None}]
           /\ provider' \in [Requests -> {"none", "sent", "running", "success", "failure"}]
           /\ released' \in [Requests -> {"none", "some", "all"}]
           /\ \A q \in Requests \ {r} : /\ pc'[q] = pc[q] /\ reply'[q] = reply[q]
                                        /\ provider'[q] = provider[q] /\ released'[q] = released[q]
           /\ \A q \in Requests : released[q] = "all" => released'[q] = "all"
           /\ \A q \in Requests : provider[q] # "none" => provider'[q] = provider[q]
           /\ \A i \in DOMAIN queue : queue[i].request # r
<1>1. BoundaryTypeOK /\ JobsAwaited
  BY DEF BoundaryInv
<1>2. /\ pc' = [pc EXCEPT ![r] = label] /\ reply' = [reply EXCEPT ![r] = None]
      /\ label \in Waiting \cup {"streaming", "releasing", "done"}
      /\ pc[r] \in Handling /\ (pc[r] \in Waiting => reply[r] # None)
      /\ Departs(r, label) /\ Releases(r)
  BY DEF HandlerMove
<1>3. /\ pc'[r] = label /\ reply'[r] = None
      /\ pc' \in [Requests -> InFlight \cup {"new", "finishing", "done", "gone"}]
      /\ reply' \in [Requests -> {"ok", "denied", "held", None}]
      /\ \A q \in Requests \ {r} : pc'[q] = pc[q] /\ reply'[q] = reply[q]
  BY <1>1, <1>2 DEF BoundaryTypeOK, Waiting, InFlight
<1>4. /\ provider' \in [Requests -> {"none", "sent", "running", "success", "failure"}]
      /\ \A q \in Requests \ {r} : provider'[q] = provider[q]
      /\ \A q \in Requests : provider[q] # "none" => provider'[q] = provider[q]
  BY <1>1, <1>2 DEF BoundaryTypeOK, Departs
<1>5. /\ released' \in [Requests -> {"none", "some", "all"}]
      /\ \A q \in Requests \ {r} : released'[q] = released[q]
      /\ \A q \in Requests : released[q] = "all" => released'[q] = "all"
  <2>0. released \in [Requests -> {"none", "some", "all"}]
    BY <1>1 DEF BoundaryTypeOK
  <2>1. CASE released' = released
    BY <2>0, <2>1
  <2>2. CASE \E output \in {"some", "all"} :
               /\ released' = [released EXCEPT ![r] = output]
               /\ output = "some" => released[r] = "none"
    <3>1. PICK output \in {"some", "all"} :
             /\ released' = [released EXCEPT ![r] = output]
             /\ output = "some" => released[r] = "none"
      BY <2>2
    <3>2. QED
      BY <2>0, <3>1
  <2>3. QED
    BY <1>2, <2>1, <2>2 DEF Releases
<1>6. ASSUME NEW i \in DOMAIN queue PROVE queue[i].request # r
  <2>1. SUFFICES ASSUME queue[i].request = r PROVE FALSE
    OBVIOUS
  <2>2. WaitsAt(queue[i].op, pc[r]) /\ reply[r] = None
    BY <1>1, <2>1, CallersAssumption DEF JobsAwaited
  <2>3. QED
    BY <1>2, <2>2 DEF WaitsAt, Waiting
<1>7. QED
  BY <1>3, <1>4, <1>5, <1>6

\* The queue a handler leaves.
LEMMA HandlerQueue ==
    ASSUME BoundaryInv, NEW r \in Requests, NEW label, HandlerMove(r, label)
    PROVE  /\ queue' \in Seq(Awaited \cup Operator)
           /\ JobsAwaited' /\ RepliesAwaited' /\ QueueEnds' /\ StepFits' /\ FreshUnknown'
           /\ queue # <<>> => queue' # <<>> /\ Head(queue') = Head(queue)
<1>0. /\ queue \in Seq(Awaited \cup Operator)
      /\ JobsAwaited /\ RepliesAwaited /\ QueueEnds /\ FreshUnknown /\ StepFits
      /\ UNCHANGED <<life, journal, disk, step, bound>>
      /\ label = "admitting" => pc[r] = "body"
      /\ label \in Waiting \cup {"streaming", "releasing", "done"}
      /\ Queues(r, label)
  BY DEF BoundaryInv, BoundaryTypeOK, HandlerMove
<1>1. /\ pc'[r] = label /\ reply'[r] = None
      /\ \A q \in Requests \ {r} : pc'[q] = pc[q] /\ reply'[q] = reply[q]
      /\ \A q \in Requests : released[q] = "all" => released'[q] = "all"
      /\ \A i \in DOMAIN queue : queue[i].request # r
  BY HandlerParts
<1>2. RepliesAwaited'
  BY <1>0, <1>1 DEF RepliesAwaited
<1>3. /\ \A q \in Requests : pc'[q] = "new" => q \notin Known(disk)
      /\ \A q \in Requests : pc'[q] \in {"new", "body"} => q \notin Known(journal)
  <2>1. label \notin {"new", "body"}
    BY <1>0 DEF Waiting
  <2>2. QED
    BY <1>0, <1>1, <2>1 DEF FreshUnknown
\* The jobs that were queued before.
<1>4. ASSUME NEW i \in DOMAIN queue, queue[i].request # None
      PROVE  /\ WaitsAt(queue[i].op, pc'[queue[i].request])
             /\ reply'[queue[i].request] = None
             /\ queue[i].op = "finish" => queue[i].outcome # "active"
             /\ queue[i].outcome = "completed" => released'[queue[i].request] = "all"
  <2>1. queue[i].request \in Requests \ {r}
    BY <1>0, <1>1, <1>4 DEF Awaited, Operator
  <2>2. QED
    BY <1>0, <1>1, <1>4, <2>1 DEF JobsAwaited
<1>5. CASE queue' = queue
  <2>1. JobsAwaited'
    BY <1>0, <1>4, <1>5 DEF JobsAwaited
  <2>2. QueueEnds' /\ StepFits'
    BY <1>0, <1>5 DEF QueueEnds, StepFits
  <2>3. FreshUnknown'
    BY <1>0, <1>3, <1>5 DEF FreshUnknown
  <2>4. QED
    BY <1>0, <1>2, <1>5, <2>1, <2>2, <2>3
<1>6. ASSUME NEW op \in {"admit", "markSend", "finalize", "finish"}, NEW outcome \in Outcomes,
             life = "open", WaitsAt(op, label), queue' = Append(queue, Job(op, r, outcome)),
             op = "finish" => outcome # "active", outcome = "completed" => released'[r] = "all"
      PROVE  /\ queue' \in Seq(Awaited \cup Operator)
             /\ JobsAwaited' /\ QueueEnds' /\ StepFits' /\ FreshUnknown'
             /\ queue # <<>> => queue' # <<>> /\ Head(queue') = Head(queue)
  <2>1. PICK e : e = Job(op, r, outcome)
    OBVIOUS
  <2>2. e \in Awaited \cup Operator /\ e.op = op /\ e.request = r /\ e.outcome = outcome
    BY <1>6, <2>1 DEF Job, Awaited
  <2>3. PICK n \in Nat : n = Len(queue)
    BY <1>0
  <2>4. /\ queue' \in Seq(Awaited \cup Operator) /\ queue' # <<>> /\ Len(queue') = n + 1
        /\ DOMAIN queue = 1 .. n /\ DOMAIN queue' = DOMAIN queue \cup {n + 1}
        /\ \A i \in DOMAIN queue : queue'[i] = queue[i]
        /\ queue'[n + 1] = e
        /\ queue # <<>> => Head(queue') = Head(queue)
    BY <1>0, <1>6, <2>1, <2>2, <2>3, AppendParts
  <2>5. r # None
    BY CallersAssumption
  <2>6. JobsAwaited'
    <3>1. ASSUME NEW i \in DOMAIN queue', queue'[i].request # None
          PROVE  /\ WaitsAt(queue'[i].op, pc'[queue'[i].request])
                 /\ reply'[queue'[i].request] = None
                 /\ queue'[i].op = "finish" => queue'[i].outcome # "active"
                 /\ queue'[i].outcome = "completed" => released'[queue'[i].request] = "all"
      <4>1. CASE i \in DOMAIN queue
        BY <1>4, <2>4, <3>1, <4>1
      <4>2. CASE i = n + 1
        BY <1>1, <1>6, <2>2, <2>4, <4>2
      <4>3. QED
        BY <2>4, <4>1, <4>2
    <3>2. ASSUME NEW i \in DOMAIN queue', NEW k \in DOMAIN queue',
                 queue'[i].request = queue'[k].request, queue'[i].request # None
          PROVE  i = k
      BY <1>0, <1>1, <2>2, <2>4, <3>2 DEF JobsAwaited
    <3>3. QED
      BY <3>1, <3>2 DEF JobsAwaited
  <2>7. QueueEnds'
    <3>1. \A i \in DOMAIN queue : queue[i].op # "close"
      BY <1>0, <1>6 DEF QueueEnds
    <3>2. \A i \in DOMAIN queue' : queue'[i].op # "close"
      BY <1>6, <2>2, <2>4, <3>1
    <3>3. QED
      BY <1>0, <1>6, <2>4, <3>2 DEF QueueEnds
  <2>8. StepFits'
    <3>1. CASE queue # <<>>
      BY <1>0, <2>4, <3>1 DEF StepFits
    <3>2. CASE queue = <<>>
      <4>1. step' = "turn"
        BY <1>0, <3>2 DEF QueueEnds
      <4>2. QED
        BY <4>1 DEF StepFits, Fits
    <3>3. QED
      BY <3>1, <3>2
  <2>9. FreshUnknown'
    <3>1. ASSUME NEW i \in DOMAIN queue', queue'[i].op = "admit", ~ (i = 1 /\ step = "write")
          PROVE  queue'[i].request \notin Known(journal)
      <4>1. CASE i \in DOMAIN queue
        BY <1>0, <2>4, <3>1, <4>1 DEF FreshUnknown
      <4>2. CASE i = n + 1
        <5>1. pc[r] = "body" /\ queue'[i].request = r
          BY <1>0, <1>6, <2>2, <2>4, <3>1, <4>2 DEF WaitsAt
        <5>2. QED
          BY <1>0, <5>1 DEF FreshUnknown
      <4>3. QED
        BY <2>4, <4>1, <4>2
    <3>2. QED
      BY <1>0, <1>3, <3>1 DEF FreshUnknown
  <2>10. QED
    BY <2>4, <2>6, <2>7, <2>8, <2>9
<1>7. QED
  BY <1>0, <1>2, <1>5, <1>6 DEF Queues

\* What the handler relies on, and what it does to the journal's truth.
LEMMA HandlerAnswers ==
    ASSUME BoundaryInv, NEW r \in Requests, NEW label, HandlerMove(r, label)
    PROVE  AnswersHold' /\ PolicyInForce' /\ LifeHolds' /\ GoodJournals'
<1>0. /\ AnswersHold /\ PolicyInForce /\ LifeHolds /\ GoodJournals /\ QueueEnds
      /\ UNCHANGED <<life, uncertain, journal, disk, lock, step, scopes, bound, frozen, writer>>
      /\ label \in Waiting \cup {"streaming", "releasing", "done"}
      /\ pc[r] \in Handling
      /\ Departs(r, label) /\ Releases(r)
      /\ label \in {"admitting", "marking"} => provider'[r] = "none"
      /\ label \in {"finalizing", "releasing"} => provider'[r] # "none"
      /\ label \in {"marking", "finalizing", "releasing"} => Receipts
      /\ Receipts /\ label = "releasing" => r \in Succeeded(journal) /\ r \in Succeeded(disk)
      /\ provider \in [Requests -> {"none", "sent", "running", "success", "failure"}]
      /\ released \in [Requests -> {"none", "some", "all"}]
  BY DEF BoundaryInv, HandlerMove, BoundaryTypeOK
<1>1. /\ pc'[r] = label /\ reply'[r] = None
      /\ \A q \in Requests \ {r} : /\ pc'[q] = pc[q] /\ reply'[q] = reply[q]
                                   /\ provider'[q] = provider[q] /\ released'[q] = released[q]
      /\ \A q \in Requests : released[q] = "all" => released'[q] = "all"
      /\ queue # <<>> => queue' # <<>> /\ Head(queue') = Head(queue)
  BY HandlerParts, HandlerQueue
<1>l. life # "down"
  BY <1>0 DEF LifeHolds
<1>2. LifeHolds'
  <2>1. \A q \in Requests : pc'[q] \in Handling => life # "down" /\ scopes[AttemptOf[q]] # "none"
    BY <1>0, <1>1 DEF LifeHolds
  <2>2. QED
    BY <1>0, <1>1, <2>1 DEF LifeHolds
<1>3. PolicyInForce'
  <2>1. None # "ok"
    BY NoneAssumption
  <2>2. \A q \in Requests : ~Receipts /\ pc'[q] = "admitting" /\ reply'[q] = "ok" =>
            bound[AttemptOf[q]] = frozen /\ writer = 0
    BY <1>0, <1>1, <2>1 DEF PolicyInForce
  <2>3. QED
    BY <1>0, <1>1, <2>2 DEF PolicyInForce
<1>4. AnswersHold'
  <2>1. None # "ok"
    BY NoneAssumption
  <2>2. label = "streaming" => provider'[r] # "none"
    BY <1>0 DEF Departs
  <2>3. Receipts /\ released'[r] # "none" => r \in Succeeded(disk) /\ r \in Succeeded(journal)
    BY <1>0, <1>l DEF Releases, AnswersHold
  <2>4. SUFFICES ASSUME NEW q \in Requests
        PROVE  /\ pc'[q] \in {"new", "body", "admitting", "marking"} => provider'[q] = "none"
               /\ pc'[q] \in {"streaming", "finalizing", "releasing"} => provider'[q] # "none"
               /\ pc'[q] \in {"admitting", "marking"} /\ reply'[q] = "ok" =>
                     q \in Reserved(journal) /\ q \in Reserved(disk)
               /\ pc'[q] = "marking" /\ reply'[q] = "ok" =>
                     /\ journal.reservations[q].send = "send_possible"
                     /\ disk.reservations[q].send = "send_possible"
               /\ pc'[q] \in {"marking", "finalizing", "releasing"} => Receipts
               /\ Receipts /\ (pc'[q] = "releasing" \/ (pc'[q] = "finalizing" /\ reply'[q] = "ok")) =>
                     q \in Succeeded(journal) /\ q \in Succeeded(disk)
               /\ Receipts /\ released'[q] # "none" =>
                     q \in Succeeded(disk) /\ (life # "down" => q \in Succeeded(journal))
    BY <1>0 DEF AnswersHold
  <2>5. CASE q = r
    BY <1>0, <1>1, <2>1, <2>2, <2>3, <2>5 DEF Waiting
  <2>6. CASE q # r
    BY <1>0, <1>1, <2>6 DEF AnswersHold
  <2>7. QED
    BY <2>5, <2>6
<1>5. GoodJournals'
  <2>1. ASSUME NEW j, Good(j, provider, released), r \in Reserved(j) \/ provider' = provider,
               (Receipts /\ provider' # provider) => j.reservations[r].send = "send_possible"
        PROVE  Good(j, provider', released')
    <3>1. Good(j, provider', released)
      <4>1. CASE provider' = provider
        BY <2>1, <4>1
      <4>2. CASE provider' # provider
        <5>1. /\ provider[r] = "none" /\ provider'[r] = "sent"
              /\ \A q \in Requests \ {r} : provider'[q] = provider[q]
          BY <1>0, <4>2 DEF Departs
        <5>2. QED
          BY <2>1, <4>2, <5>1, GoodSends
      <4>3. QED
        BY <4>1, <4>2
    <3>2. QED
      BY <1>1, <3>1, GoodStays
  <2>2. Good(disk, provider, released) /\ Good(journal, provider, released)
    BY <1>0, <1>l DEF GoodJournals
  <2>3. provider' # provider =>
            /\ r \in Reserved(journal) /\ r \in Reserved(disk)
            /\ Receipts => /\ journal.reservations[r].send = "send_possible"
                           /\ disk.reservations[r].send = "send_possible"
    BY <1>0 DEF Departs
  <2>4. Good(disk, provider', released') /\ Good(journal, provider', released')
    BY <2>1, <2>2, <2>3
  <2>5. QED
    BY <1>0, <2>4 DEF GoodJournals
<1>6. QED
  BY <1>2, <1>3, <1>4, <1>5

\* A handler's step keeps the invariant.
LEMMA HandlerMoveKeeps ==
    ASSUME BoundaryInv, NEW r \in Requests, NEW label, HandlerMove(r, label)
    PROVE  BoundaryInv'
<1>1. BoundaryTypeOK'
  <2>1. /\ BoundaryTypeOK
        /\ UNCHANGED <<life, failed, uncertain, journal, disk, lock, step, scopes, bound, shut, frozen, writer>>
        /\ aborted' \in [Requests -> BOOLEAN]
    BY DEF BoundaryInv, HandlerMove
  <2>2. QED
    BY <2>1, HandlerParts, HandlerQueue DEF BoundaryTypeOK
<1>2. QED
  BY <1>1, HandlerQueue, HandlerAnswers DEF BoundaryInv

\* A call of the gate by the handler of r.
LEMMA CallGives ==
    ASSUME NEW r \in Requests, NEW op \in {"admit", "markSend", "finalize", "finish"},
           NEW outcome \in Outcomes, NEW label, NEW otherwise,
           WaitsAt(op, label), otherwise \notin Waiting,
           op = "finish" => outcome # "active", outcome = "completed" => released'[r] = "all",
           Call(op, r, outcome, label, otherwise)
    PROVE  \E l \in {label, otherwise} : pc' = [pc EXCEPT ![r] = l] /\ Queues(r, l)
<1>1. CASE Accepts
  <2>1. life = "open" /\ queue' = Append(queue, Job(op, r, outcome)) /\ pc' = [pc EXCEPT ![r] = label]
    BY <1>1 DEF Accepts, Call, Enqueue, Goto
  <2>2. QED
    BY <2>1 DEF Queues
<1>2. CASE ~Accepts
  BY <1>2 DEF Call, Goto, Queues
<1>3. QED
  BY <1>1, <1>2

\* A handler that ends waits for the gate, or is done where the gate refuses.
LEMMA FinishGives ==
    ASSUME BoundaryInv, NEW r \in Requests, NEW outcome \in Outcomes \ {"active"},
           outcome = "completed" => released'[r] = "all", Finish(r, outcome)
    PROVE  /\ \E l \in {"finishing", "done"} : pc' = [pc EXCEPT ![r] = l] /\ Queues(r, l)
           /\ aborted' \in [Requests -> BOOLEAN]
<1>1. aborted \in [Requests -> BOOLEAN]
  BY DEF BoundaryInv, BoundaryTypeOK
<1>2. aborted' \in [Requests -> BOOLEAN]
  BY <1>1 DEF Finish
<1>3. QED
  BY <1>2, CallGives DEF Finish, WaitsAt, Waiting

\* So does a handler that fails.
LEMMA FailGives ==
    ASSUME BoundaryInv, NEW r \in Requests, Fail(r)
    PROVE  /\ \E l \in {"finishing", "done"} : pc' = [pc EXCEPT ![r] = l] /\ Queues(r, l)
           /\ aborted' \in [Requests -> BOOLEAN]
<1>1. PICK outcome \in Failures(r) : Finish(r, outcome)
  BY DEF Fail
<1>2. outcome \in Outcomes \ {"active"} /\ outcome # "completed"
  BY DEF Failures, Outcomes
<1>3. QED
  BY <1>1, <1>2, FinishGives

\* A handler that was not waiting has no answer to forget.
LEMMA NoAnswer ==
    ASSUME BoundaryInv, NEW r \in Requests, pc[r] \notin Waiting
    PROVE  reply = [reply EXCEPT ![r] = None]
  BY DEF BoundaryInv, BoundaryTypeOK, RepliesAwaited

\* A handler that ends, whatever it was doing.
LEMMA FailMoves ==
    ASSUME BoundaryInv, NEW r \in Requests, Fail(r), pc[r] \in Handling,
           pc[r] \in Waiting => reply[r] # None, reply' = [reply EXCEPT ![r] = None],
           GateSame, UNCHANGED <<scopes, bound, shut, provider, frozen, writer, released>>
    PROVE  \E label : HandlerMove(r, label)
<1>1. PICK label \in {"finishing", "done"} : pc' = [pc EXCEPT ![r] = label] /\ Queues(r, label)
  BY FailGives
<1>2. aborted' \in [Requests -> BOOLEAN]
  BY FailGives
<1>3. HandlerMove(r, label)
  BY <1>1, <1>2 DEF HandlerMove, GateSame, Departs, Releases, Waiting
<1>4. QED
  BY <1>3

\* A handler that calls the gate for anything but its end.
LEMMA WaitMoves ==
    ASSUME BoundaryInv, NEW r \in Requests, pc[r] \in Handling,
           pc[r] \in Waiting => reply[r] # None, reply' = [reply EXCEPT ![r] = None],
           GateSame, UNCHANGED <<aborted, scopes, bound, shut, provider, frozen, writer, released>>,
           NEW label, pc' = [pc EXCEPT ![r] = label], Queues(r, label),
           label \in {"admitting", "marking", "finalizing", "releasing", "done"},
           label = "admitting" => pc[r] = "body",
           label \in {"admitting", "marking"} => provider[r] = "none",
           label \in {"finalizing", "releasing"} => provider[r] # "none",
           label \in {"marking", "finalizing", "releasing"} => Receipts,
           Receipts /\ label = "releasing" => r \in Succeeded(journal) /\ r \in Succeeded(disk)
    PROVE  HandlerMove(r, label)
  BY DEF HandlerMove, GateSame, Departs, Releases, Waiting, BoundaryInv, BoundaryTypeOK

\* A submission, a denied admission and the last answer are steps of the handler.
LEMMA SubmitMoves ==
    ASSUME BoundaryInv, NEW r \in Requests, Submit(r) \/ NotAdmitted(r) \/ Finished(r)
    PROVE  \E label : HandlerMove(r, label)
<1>1. CASE Submit(r)
  <2>1. /\ pc[r] = "body" /\ GateSame /\ provider[r] = "none"
        /\ UNCHANGED <<reply, aborted, scopes, bound, shut, provider, frozen, writer, released>>
    BY <1>1 DEF Submit, Body, callers, external, BoundaryInv, AnswersHold
  <2>2. pc[r] \in Handling /\ pc[r] \notin Waiting
    BY <2>1 DEF Handling, InFlight, Waiting
  <2>3. reply' = [reply EXCEPT ![r] = None]
    BY <2>1, <2>2, NoAnswer
  <2>4. \E l \in {"admitting", "done"} : pc' = [pc EXCEPT ![r] = l] /\ Queues(r, l)
    <3>1. CASE Call("admit", r, "active", "admitting", "done")
      BY <3>1, CallGives DEF WaitsAt, Waiting, Outcomes
    <3>2. CASE Reject(r)
      BY <3>2 DEF Reject, Goto, Queues, Waiting
    <3>3. QED
      BY <1>1, <3>1, <3>2 DEF Submit
  <2>5. QED
    BY <2>1, <2>2, <2>3, <2>4, WaitMoves
<1>2. CASE NotAdmitted(r) \/ Finished(r)
  <2>1. /\ pc[r] \in {"admitting", "finishing"} /\ reply[r] # None /\ GateSame
        /\ pc' = [pc EXCEPT ![r] = "done"] /\ queue' = queue
        /\ reply' = [reply EXCEPT ![r] = None]
        /\ UNCHANGED <<aborted, scopes, bound, shut, provider, frozen, writer, released>>
    BY <1>2, NoneAssumption
       DEF NotAdmitted, Finished, Answered, Forget, Goto, callers, external
  <2>2. pc[r] \in Handling /\ Queues(r, "done")
    BY <2>1 DEF Handling, InFlight, Queues, Waiting
  <2>3. HandlerMove(r, "done")
    BY <2>1, <2>2, WaitMoves
  <2>4. QED
    BY <2>3
<1>3. QED
  BY <1>1, <1>2

\* A request is forwarded upstream.
LEMMA ForwardMoves ==
    ASSUME BoundaryInv, NEW r \in Requests, pc[r] \in {"admitting", "marking"}, reply[r] = "ok",
           pc[r] = "admitting" => ~Receipts, Recheck(r),
           Forward(r), reply' = [reply EXCEPT ![r] = None],
           GateSame, UNCHANGED <<scopes, bound, shut, frozen, writer, released>>
    PROVE  HandlerMove(r, "streaming")
<1>1. /\ provider' = [provider EXCEPT ![r] = "sent"] /\ pc' = [pc EXCEPT ![r] = "streaming"]
      /\ queue' = queue /\ aborted' = aborted
  BY DEF Forward, Goto
<1>2. /\ provider[r] = "none" /\ r \in Reserved(journal) /\ r \in Reserved(disk)
      /\ Receipts => /\ journal.reservations[r].send = "send_possible"
                     /\ disk.reservations[r].send = "send_possible"
  BY DEF BoundaryInv, AnswersHold
<1>3. aborted' \in [Requests -> BOOLEAN]
  BY <1>1 DEF BoundaryInv, BoundaryTypeOK
<1>c. Current(r) /\ bound[AttemptOf[r]] = frozen
  <2>1. Current(r)
    BY DEF Recheck, MayRun
  <2>2. CASE Receipts
    <3>1. bound[AttemptOf[r]] \in {0, 1} /\ bound[AttemptOf[r]] # 0 /\ frozen = 1
      BY <2>1, <2>2, CallersAssumption DEF Current, BoundaryInv, PolicyInForce
    <3>2. QED
      BY <2>1, <3>1
  <2>3. CASE ~Receipts
    <3>1. pc[r] = "admitting"
      BY <2>3 DEF BoundaryInv, AnswersHold
    <3>2. QED
      BY <2>1, <2>3, <3>1 DEF BoundaryInv, PolicyInForce
  <2>4. QED
    BY <2>2, <2>3
<1>4. Departs(r, "streaming") /\ Queues(r, "streaming") /\ Releases(r) /\ pc[r] \in Handling
  BY <1>1, <1>2, <1>c DEF Departs, Queues, Releases, Waiting, Handling, InFlight
<1>5. reply[r] # None
  BY NoneAssumption
<1>6. QED
  BY <1>1, <1>3, <1>4, <1>5 DEF HandlerMove, GateSame

\* What an admitted or marked request does next is a step of its handler.
LEMMA AdmittedMoves ==
    ASSUME BoundaryInv, NEW r \in Requests, Admitted(r) \/ Marked(r)
    PROVE  \E label : HandlerMove(r, label)
<1>1. /\ pc[r] \in {"admitting", "marking"} /\ reply[r] # None
      /\ reply' = [reply EXCEPT ![r] = None] /\ GateSame
      /\ UNCHANGED <<scopes, bound, shut, frozen, writer, released>>
      /\ pc[r] = "admitting" => reply[r] = "ok"
  BY NoneAssumption DEF Admitted, Marked, Answered, Forget
<1>2. pc[r] \in Handling /\ provider[r] = "none"
  BY <1>1 DEF Handling, InFlight, BoundaryInv, AnswersHold
<1>3. CASE Fail(r) /\ provider' = provider
  BY <1>1, <1>2, <1>3, FailMoves
<1>4. CASE Forward(r) /\ reply[r] = "ok" /\ (pc[r] = "admitting" => ~Receipts) /\ Recheck(r)
  BY <1>1, <1>4, ForwardMoves
<1>5. CASE /\ Receipts /\ Enqueue("markSend", r, "active") /\ Goto(r, "marking")
           /\ UNCHANGED <<aborted, provider>> /\ Accepts
  <2>1. Queues(r, "marking") /\ pc' = [pc EXCEPT ![r] = "marking"]
    BY <1>5 DEF Queues, Enqueue, Goto, Accepts, WaitsAt, Outcomes
  <2>2. HandlerMove(r, "marking")
    BY <1>1, <1>2, <1>5, <2>1, WaitMoves
  <2>3. QED
    BY <2>2
<1>6. QED
  BY <1>3, <1>4, <1>5 DEF Admitted, Marked, Answered

\* The end of a stream, its failure and its verdict are steps of the handler.
LEMMA StreamMoves ==
    ASSUME BoundaryInv, NEW r \in Requests,
           StreamEnds(r) \/ StreamBreaks(r) \/ Finalized(r)
    PROVE  \E label : HandlerMove(r, label)
<1>1. /\ pc[r] \in {"streaming", "finalizing"} /\ GateSame
      /\ UNCHANGED <<scopes, bound, shut, provider, frozen, writer>>
      /\ pc[r] \in Waiting => reply[r] # None
      /\ reply' = [reply EXCEPT ![r] = None]
  BY NoAnswer DEF StreamEnds, StreamBreaks, Finalized, Forget, external, Waiting
<1>2. pc[r] \in Handling /\ provider[r] # "none"
  BY <1>1 DEF Handling, InFlight, BoundaryInv, AnswersHold
<1>3. CASE Fail(r) /\ released' = released
  BY <1>1, <1>2, <1>3, FailMoves
<1>4. CASE /\ Receipts /\ Enqueue("finalize", r, "active") /\ Goto(r, "finalizing")
           /\ UNCHANGED <<aborted, released>> /\ Accepts
  <2>1. Queues(r, "finalizing") /\ pc' = [pc EXCEPT ![r] = "finalizing"]
    BY <1>4 DEF Queues, Enqueue, Goto, Accepts, WaitsAt, Outcomes
  <2>2. HandlerMove(r, "finalizing")
    BY <1>1, <1>2, <1>4, <2>1, WaitMoves
  <2>3. QED
    BY <2>2
<1>5. CASE /\ ~Receipts /\ released' = [released EXCEPT ![r] = "all"] /\ Finish(r, "completed")
           /\ MayRun(r)
  <2>1. released'[r] = "all"
    BY <1>5 DEF BoundaryInv, BoundaryTypeOK
  <2>2. /\ \E l \in {"finishing", "done"} : pc' = [pc EXCEPT ![r] = l] /\ Queues(r, l)
        /\ aborted' \in [Requests -> BOOLEAN]
    BY <1>5, <2>1, FinishGives DEF Outcomes
  <2>3. PICK l \in {"finishing", "done"} : pc' = [pc EXCEPT ![r] = l] /\ Queues(r, l)
    BY <2>2
  <2>4. Releases(r) /\ Departs(r, l)
    BY <1>1, <1>2, <1>5, <2>3 DEF Releases, Departs, MayRun
  <2>5. HandlerMove(r, l)
    BY <1>1, <1>2, <2>2, <2>3, <2>4 DEF HandlerMove, GateSame, Waiting
  <2>6. QED
    BY <2>5
<1>6. CASE pc[r] = "finalizing" /\ reply[r] = "ok" /\ Goto(r, "releasing") /\ UNCHANGED <<queue, aborted, released>>
  <2>1. Receipts /\ r \in Succeeded(journal) /\ r \in Succeeded(disk)
    BY <1>6 DEF BoundaryInv, AnswersHold
  <2>2. Queues(r, "releasing") /\ pc' = [pc EXCEPT ![r] = "releasing"]
    BY <1>6 DEF Queues, Goto, Waiting
  <2>3. HandlerMove(r, "releasing")
    BY <1>1, <1>2, <1>6, <2>1, <2>2, WaitMoves
  <2>4. QED
    BY <2>3
<1>7. QED
  BY <1>3, <1>4, <1>5, <1>6 DEF StreamEnds, StreamBreaks, Finalized

\* A released output, or a failure to release it, is a step of the handler.
LEMMA ReleaseMoves ==
    ASSUME BoundaryInv, NEW r \in Requests, ReleaseOutput(r) \/ ReleaseBreaks(r)
    PROVE  \E label : HandlerMove(r, label)
<1>1. /\ pc[r] = "releasing" /\ GateSame
      /\ UNCHANGED <<reply, scopes, bound, shut, provider, frozen, writer>>
  BY DEF ReleaseOutput, ReleaseBreaks, external
<1>2. /\ pc[r] \in Handling /\ pc[r] \notin Waiting /\ provider[r] # "none" /\ Receipts
      /\ r \in Succeeded(journal) /\ r \in Succeeded(disk)
  BY <1>1 DEF Handling, InFlight, Waiting, BoundaryInv, AnswersHold
<1>3. reply' = [reply EXCEPT ![r] = None]
  BY <1>1, <1>2, NoAnswer
<1>4. CASE Fail(r) /\ released' = released
  BY <1>1, <1>2, <1>3, <1>4, FailMoves
<1>5. CASE /\ released[r] = "none" /\ released' = [released EXCEPT ![r] = "some"]
           /\ UNCHANGED <<queue, aborted, pc>> /\ MayRun(r)
  <2>1. pc' = [pc EXCEPT ![r] = "releasing"] /\ aborted' \in [Requests -> BOOLEAN]
    BY <1>1, <1>5 DEF BoundaryInv, BoundaryTypeOK
  <2>2. Queues(r, "releasing") /\ Departs(r, "releasing") /\ Releases(r)
    BY <1>1, <1>2, <1>5 DEF Queues, Departs, Releases, Waiting, MayRun
  <2>3. HandlerMove(r, "releasing")
    BY <1>1, <1>2, <1>3, <2>1, <2>2 DEF HandlerMove, GateSame
  <2>4. QED
    BY <2>3
<1>6. CASE released' = [released EXCEPT ![r] = "all"] /\ Finish(r, "completed") /\ MayRun(r)
  <2>1. released'[r] = "all"
    BY <1>6 DEF BoundaryInv, BoundaryTypeOK
  <2>2. /\ \E l \in {"finishing", "done"} : pc' = [pc EXCEPT ![r] = l] /\ Queues(r, l)
        /\ aborted' \in [Requests -> BOOLEAN]
    BY <1>6, <2>1, FinishGives DEF Outcomes
  <2>3. PICK l \in {"finishing", "done"} : pc' = [pc EXCEPT ![r] = l] /\ Queues(r, l)
    BY <2>2
  <2>4. Releases(r) /\ Departs(r, l)
    BY <1>1, <1>2, <1>6, <2>3 DEF Releases, Departs, MayRun
  <2>5. HandlerMove(r, l)
    BY <1>1, <1>2, <1>3, <2>2, <2>3, <2>4 DEF HandlerMove, GateSame, Waiting
  <2>6. QED
    BY <2>5
<1>7. QED
  BY <1>4, <1>5, <1>6 DEF ReleaseOutput, ReleaseBreaks

\* Every action of a handler is one of its steps.
LEMMA HandlerStepsMove ==
    ASSUME BoundaryInv, NEW r \in Requests, HandlerSteps(r)
    PROVE  \E label : HandlerMove(r, label)
  BY SubmitMoves, AdmittedMoves, StreamMoves, ReleaseMoves DEF HandlerSteps

-----------------------------------------------------------------------------
(* The life of the boundary, and what happens outside it. *)

\* The journal of a gate that never opened is true while nothing has left.
LEMMA EmptyIsGood ==
    ASSUME NEW p, NEW o, \A r \in Requests : p[r] = "none"
    PROVE  /\ Good(EmptyJournal, p, o) /\ Known(EmptyJournal) = {} /\ EmptyJournal \in Journal
           /\ EmptyJournal.phase = "closed" /\ EmptyJournal.epoch = 0
<1>1. PICK j : j = EmptyJournal
  OBVIOUS
<1>2. /\ j.phase = "closed" /\ j.epoch = 0 /\ j.decisions = <<>>
      /\ \A r \in Requests : j.reservations[r] = None
      /\ \A a \in Attempts : j.counts[a] = 0
      /\ j \in Journal
  BY <1>1, LimitsAssumption DEF EmptyJournal, Journal
<1>3. Reserved(j) = {} /\ Decided(j) = {} /\ Positions(j) = {} /\ Len(j.decisions) = 0
  BY <1>2 DEF Reserved, Decided, Positions
<1>4. Cardinality({}) = 0
  BY FS_EmptySet
<1>5. RoomToDecide(j) /\ DecidedOnce(j) /\ OneEpoch(j)
  BY <1>2, <1>3, <1>4, LimitsAssumption DEF RoomToDecide, DecidedOnce, OneEpoch
<1>6. SendsAgree(j) /\ Chained(j) /\ OneAtATime(j) /\ VerdictsTrue(j, p) /\ DeliveriesTrue(j, o)
  BY <1>3 DEF SendsAgree, Chained, OneAtATime, VerdictsTrue, DeliveriesTrue
<1>7. HoldsWork(j, p)
  BY DEF HoldsWork
<1>8. Limited(j)
  <2>1. \A a \in Attempts : ReservedBy(j, a) = {}
    BY <1>3 DEF ReservedBy
  <2>2. QED
    BY <1>4, <2>1, LimitsAssumption DEF Limited
<1>9. CountsCover(j, p)
  <2>1. \A a \in Attempts : Spent(j, p, a) = {}
    BY <1>3 DEF Spent, Known
  <2>2. \A a \in Attempts : Cardinality(Spent(j, p, a)) = 0 /\ j.counts[a] = 0
    BY <1>2, <1>4, <2>1
  <2>3. QED
    BY <2>2 DEF CountsCover
<1>10. QED
  BY <1>1, <1>2, <1>3, <1>5, <1>6, <1>7, <1>8, <1>9 DEF Good, Known

\* The invariant holds before the first boundary.
LEMMA BoundaryInit == Init => BoundaryInv
<1> SUFFICES ASSUME Init PROVE BoundaryInv
  OBVIOUS
<1>1. /\ life = "down" /\ failed = FALSE /\ uncertain = FALSE /\ lock = FALSE /\ shut = FALSE
      /\ journal = EmptyJournal /\ disk = EmptyJournal
      /\ queue = <<>> /\ step = "turn" /\ reply = [r \in Requests |-> None]
      /\ aborted = [r \in Requests |-> FALSE]
      /\ scopes = [a \in Attempts |-> "none"] /\ bound = [a \in Attempts |-> 0]
      /\ provider = [r \in Requests |-> "none"]
      /\ frozen = 1 /\ writer = 0
      /\ pc = [r \in Requests |-> "new"] /\ released = [r \in Requests |-> "none"]
  BY DEF Init, GateInit
<1>2. /\ Good(EmptyJournal, provider, released) /\ Known(EmptyJournal) = {}
      /\ EmptyJournal \in Journal /\ EmptyJournal.phase = "closed" /\ EmptyJournal.epoch = 0
  <2>1. \A r \in Requests : provider[r] = "none"
    BY <1>1
  <2>2. QED
    BY <2>1, EmptyIsGood
<1>3. BoundaryTypeOK
  <2>1. queue \in Seq(Awaited \cup Operator)
    BY <1>1
  <2>2. /\ reply \in [Requests -> {"ok", "denied", "held", None}]
        /\ provider \in [Requests -> {"none", "sent", "running", "success", "failure"}]
        /\ released \in [Requests -> {"none", "some", "all"}]
        /\ pc \in [Requests -> InFlight \cup {"new", "finishing", "done", "gone"}]
    BY <1>1
  <2>3. /\ aborted \in [Requests -> BOOLEAN]
        /\ scopes \in [Attempts -> {"none", "live", "ended"}]
        /\ bound \in [Attempts -> Nat]
    BY <1>1
  <2>4. /\ life \in {"down", "open", "closing", "closed"} /\ step \in Steps
        /\ frozen \in Nat \ {0} /\ writer \in Nat
    BY <1>1 DEF Steps
  <2>5. /\ failed \in BOOLEAN /\ uncertain \in BOOLEAN /\ lock \in BOOLEAN /\ shut \in BOOLEAN
        /\ journal \in Journal /\ disk \in Journal
    BY <1>1, <1>2
  <2>6. QED
    BY <2>1, <2>2, <2>3, <2>4, <2>5 DEF BoundaryTypeOK
<1>4. JobsAwaited /\ RepliesAwaited /\ QueueEnds /\ StepFits
  BY <1>1 DEF JobsAwaited, RepliesAwaited, QueueEnds, StepFits
<1>5. LifeHolds
  BY <1>1 DEF LifeHolds, Handling, InFlight
<1>6. FreshUnknown
  BY <1>1, <1>2 DEF FreshUnknown
<1>7. AnswersHold
  BY <1>1, NoneAssumption DEF AnswersHold
<1>8. PolicyInForce
  BY <1>1, <1>2 DEF PolicyInForce
<1>9. GoodJournals
  BY <1>1, <1>2 DEF GoodJournals
<1>10. QED
  BY <1>3, <1>4, <1>5, <1>6, <1>7, <1>8, <1>9 DEF BoundaryInv

\* What changes only the lock of a dead process, scopes, aborts, and the handler that begins.
LEMMA CallersKeep ==
    ASSUME BoundaryInv,
           UNCHANGED <<life, failed, uncertain, journal, disk, queue, step, reply, provider,
                       frozen, writer, released>>,
           BoundaryTypeOK',
           \A r \in Requests : pc'[r] = pc[r] \/ (pc[r] = "new" /\ pc'[r] = "body"),
           \A r \in Requests : pc[r] = "new" /\ pc'[r] = "body" =>
              life # "down" /\ scopes[AttemptOf[r]] # "none",
           lock' = lock \/ life = "down",
           \A a \in Attempts : scopes[a] # "none" => scopes'[a] # "none" /\ bound'[a] = bound[a],
           \A a \in Attempts : scopes'[a] # "none" => bound'[a] # 0,
           \A a \in Attempts : bound'[a] \in {bound[a], journal.epoch}
    PROVE  BoundaryInv'
<1>0. /\ BoundaryTypeOK /\ JobsAwaited /\ RepliesAwaited /\ QueueEnds /\ LifeHolds /\ StepFits
      /\ FreshUnknown /\ AnswersHold /\ PolicyInForce /\ GoodJournals
  BY DEF BoundaryInv
<1>1. \A r \in Requests : pc[r] \in Waiting \cup {"streaming", "releasing"} => pc'[r] = pc[r]
  BY DEF Waiting
<1>2. \A i \in DOMAIN queue : queue[i].request # None => queue[i].request \in Requests
  BY <1>0 DEF BoundaryTypeOK, Awaited, Operator
<1>3. \A i \in DOMAIN queue : queue[i].request # None => pc[queue[i].request] \in Waiting
  BY <1>0 DEF JobsAwaited, WaitsAt, Waiting
<1>4. JobsAwaited'
  BY <1>0, <1>1, <1>2, <1>3 DEF JobsAwaited
<1>5. RepliesAwaited' /\ QueueEnds'
  BY <1>0, <1>1 DEF RepliesAwaited, QueueEnds
<1>6. LifeHolds'
  <2>1. \A r \in Requests : pc'[r] \in Handling => life # "down" /\ scopes'[AttemptOf[r]] # "none"
    BY <1>0, CallersAssumption DEF LifeHolds, Handling, InFlight
  <2>2. QED
    BY <1>0, <2>1 DEF LifeHolds
<1>7. \A r \in Requests : pc[r] \in Waiting => bound'[AttemptOf[r]] = bound[AttemptOf[r]]
  BY <1>0, CallersAssumption DEF LifeHolds, Handling, InFlight, Waiting
<1>8. StepFits'
  <2>1. queue # <<>> /\ Head(queue).op = "admit" =>
            bound'[AttemptOf[Head(queue).request]] = bound[AttemptOf[Head(queue).request]]
    <3>1. SUFFICES ASSUME queue # <<>>, Head(queue).op = "admit"
                   PROVE  bound'[AttemptOf[Head(queue).request]] = bound[AttemptOf[Head(queue).request]]
      OBVIOUS
    <3>2. Head(queue).request \in Requests /\ pc[Head(queue).request] \in Waiting
      <4>1. /\ Head(queue).request # None
            /\ Head(queue).request \in Requests
            /\ WaitsAt(Head(queue).op, pc[Head(queue).request])
        BY <3>1, HeadParts
      <4>2. QED
        BY <4>1 DEF WaitsAt, Waiting
    <3>3. QED
      BY <1>7, <3>2
  <2>2. QED
    BY <1>0, <2>1 DEF StepFits, Fits
<1>9. FreshUnknown'
  BY <1>0 DEF FreshUnknown
<1>10. AnswersHold'
  BY <1>0, <1>1 DEF AnswersHold
<1>11. PolicyInForce'
  <2>1. \A r \in Requests : ~Receipts /\ pc'[r] = "admitting" /\ reply[r] = "ok" =>
            bound'[AttemptOf[r]] = frozen /\ writer = 0
    <3>1. \A r \in Requests : pc'[r] = "admitting" => pc[r] = "admitting"
      OBVIOUS
    <3>2. QED
      BY <1>0, <1>7, <3>1 DEF PolicyInForce, Waiting
  <2>2. QED
    BY <1>0, <2>1 DEF PolicyInForce
<1>12. GoodJournals'
  BY <1>0 DEF GoodJournals
<1>13. QED
  BY <1>4, <1>5, <1>6, <1>8, <1>9, <1>10, <1>11, <1>12 DEF BoundaryInv

\* What only callers, the operator, a late writer or the provider do.
LEMMA OutsideKeeps ==
    ASSUME BoundaryInv,
           \/ (WriterApplies \/ WriterGivesUp \/ ProviderMoves \/ RemoveLock) /\ UNCHANGED boundary
           \/ \E a \in Attempts : Issue(a) \/ Expire(a) \/ Revoke(a)
           \/ \E r \in Requests : Arrive(r) \/ Abort(r)
    PROVE  BoundaryInv'
<1>0. /\ BoundaryTypeOK /\ JobsAwaited /\ RepliesAwaited /\ QueueEnds /\ LifeHolds /\ StepFits
      /\ FreshUnknown /\ AnswersHold /\ PolicyInForce /\ GoodJournals
  BY DEF BoundaryInv
<1>1. CASE WriterApplies /\ UNCHANGED boundary
  <2>1. /\ writer # 0 /\ frozen' = writer
        /\ UNCHANGED <<life, failed, uncertain, journal, disk, lock, queue, step, reply,
                       aborted, scopes, bound, shut, provider, writer, pc, released>>
    BY <1>1 DEF WriterApplies, gate, callers, boundary
  <2>2. PolicyInForce'
    BY <1>0, <2>1 DEF PolicyInForce
  <2>3. BoundaryTypeOK'
    BY <1>0, <2>1 DEF BoundaryTypeOK
  <2>4. JobsAwaited' /\ RepliesAwaited' /\ QueueEnds' /\ LifeHolds' /\ StepFits'
    BY <1>0, <2>1 DEF JobsAwaited, RepliesAwaited, QueueEnds, LifeHolds, StepFits
  <2>5. FreshUnknown' /\ AnswersHold' /\ GoodJournals'
    BY <1>0, <2>1 DEF FreshUnknown, AnswersHold, GoodJournals
  <2>6. QED
    BY <2>2, <2>3, <2>4, <2>5 DEF BoundaryInv
<1>2. CASE WriterGivesUp /\ UNCHANGED boundary
  <2>1. /\ writer' = 0
        /\ UNCHANGED <<life, failed, uncertain, journal, disk, lock, queue, step, reply,
                       aborted, scopes, bound, shut, provider, frozen, pc, released>>
    BY <1>2 DEF WriterGivesUp, gate, callers, boundary
  <2>2. PolicyInForce'
    BY <1>0, <2>1 DEF PolicyInForce
  <2>3. BoundaryTypeOK'
    BY <1>0, <2>1 DEF BoundaryTypeOK
  <2>4. JobsAwaited' /\ RepliesAwaited' /\ QueueEnds' /\ LifeHolds' /\ StepFits'
    BY <1>0, <2>1 DEF JobsAwaited, RepliesAwaited, QueueEnds, LifeHolds, StepFits
  <2>5. FreshUnknown' /\ AnswersHold' /\ GoodJournals'
    BY <1>0, <2>1 DEF FreshUnknown, AnswersHold, GoodJournals
  <2>6. QED
    BY <2>2, <2>3, <2>4, <2>5 DEF BoundaryInv
<1>3. CASE ProviderMoves /\ UNCHANGED boundary
  <2>1. PICK r \in Requests : \E result \in {"running", "success", "failure"} :
           /\ provider' = [provider EXCEPT ![r] = result]
           /\ \/ provider[r] = "sent" /\ result = "running"
              \/ provider[r] = "running" /\ result \in {"success", "failure"}
    BY <1>3 DEF ProviderMoves
  <2>2. UNCHANGED <<life, failed, uncertain, journal, disk, lock, queue, step, reply,
                    aborted, scopes, bound, shut, frozen, writer, pc, released>>
    BY <1>3 DEF ProviderMoves, gate, callers, boundary
  <2>3. /\ provider' \in [Requests -> {"none", "sent", "running", "success", "failure"}]
        /\ \A s \in Requests : /\ provider[s] = "none" <=> provider'[s] = "none"
                               /\ provider'[s] \in {"sent", "running"} => provider[s] \in {"sent", "running"}
                               /\ provider[s] \in {"success", "failure"} => provider'[s] = provider[s]
    BY <1>0, <2>1 DEF BoundaryTypeOK
  <2>4. GoodJournals'
    <3>1. \A s \in Requests : released[s] = "all" => released'[s] = "all"
      BY <2>2
    <3>2. Good(disk, provider', released') /\ (life # "down" => Good(journal, provider', released'))
      BY <1>0, <2>3, <3>1, GoodStays DEF GoodJournals
    <3>3. QED
      BY <2>2, <3>2 DEF GoodJournals
  <2>5. AnswersHold'
    BY <1>0, <2>2, <2>3 DEF AnswersHold
  <2>6. BoundaryTypeOK'
    BY <1>0, <2>2, <2>3 DEF BoundaryTypeOK
  <2>7. JobsAwaited' /\ RepliesAwaited' /\ QueueEnds' /\ LifeHolds' /\ StepFits'
    BY <1>0, <2>2 DEF JobsAwaited, RepliesAwaited, QueueEnds, LifeHolds, StepFits
  <2>8. FreshUnknown' /\ PolicyInForce'
    BY <1>0, <2>2 DEF FreshUnknown, PolicyInForce
  <2>9. QED
    BY <2>4, <2>5, <2>6, <2>7, <2>8 DEF BoundaryInv
<1>5. CASE RemoveLock /\ UNCHANGED boundary
  <2>1. /\ life = "down" /\ lock' = FALSE
        /\ UNCHANGED <<life, failed, uncertain, journal, disk, queue, step, reply,
                       aborted, scopes, bound, shut, provider, frozen, writer, pc, released>>
    BY <1>5 DEF RemoveLock, callers, external, boundary
  <2>2. BoundaryTypeOK'
    BY <1>0, <2>1 DEF BoundaryTypeOK
  <2>3. \A a \in Attempts : scopes[a] # "none" => bound[a] # 0
    BY <1>0 DEF PolicyInForce
  <2>4. QED
    BY CallersKeep, <2>1, <2>2, <2>3
<1>6. ASSUME NEW a \in Attempts, Issue(a) PROVE BoundaryInv'
  <2>1. /\ life = "open" /\ scopes[a] = "none" /\ journal.epoch # 0
        /\ scopes' = [scopes EXCEPT ![a] = "live"] /\ bound' = [bound EXCEPT ![a] = journal.epoch]
        /\ UNCHANGED <<life, failed, uncertain, journal, disk, lock, queue, step, reply,
                       aborted, shut, provider, frozen, writer, pc, released>>
    BY <1>6 DEF Issue, gate, external, boundary
  <2>2. journal.epoch \in Nat
    BY <1>0 DEF BoundaryTypeOK, Journal
  <2>3. BoundaryTypeOK'
    BY <1>0, <2>1, <2>2 DEF BoundaryTypeOK
  <2>4. /\ \A b \in Attempts : scopes[b] # "none" => scopes'[b] # "none" /\ bound'[b] = bound[b]
        /\ \A b \in Attempts : scopes'[b] # "none" => bound'[b] # 0
        /\ \A b \in Attempts : bound'[b] \in {bound[b], journal.epoch}
    BY <1>0, <2>1, <2>2 DEF BoundaryTypeOK, PolicyInForce
  <2>5. QED
    BY CallersKeep, <2>1, <2>3, <2>4
<1>7. ASSUME NEW a \in Attempts, Expire(a) \/ Revoke(a) PROVE BoundaryInv'
  <2>1. /\ scopes[a] = "live" /\ scopes' = [scopes EXCEPT ![a] = "ended"]
        /\ UNCHANGED <<life, failed, uncertain, journal, disk, lock, queue, step, reply,
                       bound, shut, provider, frozen, writer, pc, released>>
    BY <1>7 DEF Expire, Revoke, gate, external, boundary
  <2>2. aborted' \in [Requests -> BOOLEAN]
    BY <1>0, <1>7 DEF Expire, Revoke, BoundaryTypeOK
  <2>3. BoundaryTypeOK'
    BY <1>0, <2>1, <2>2 DEF BoundaryTypeOK
  <2>4. /\ \A b \in Attempts : scopes[b] # "none" => scopes'[b] # "none" /\ bound'[b] = bound[b]
        /\ \A b \in Attempts : scopes'[b] # "none" => bound'[b] # 0
        /\ \A b \in Attempts : bound'[b] \in {bound[b], journal.epoch}
    BY <1>0, <2>1 DEF BoundaryTypeOK, PolicyInForce
  <2>5. QED
    BY CallersKeep, <2>1, <2>3, <2>4
<1>8. ASSUME NEW r \in Requests, Arrive(r) \/ Abort(r) PROVE BoundaryInv'
  <2>1. /\ \/ pc[r] = "new" /\ life # "down" /\ Current(r) /\ pc' = [pc EXCEPT ![r] = "body"]
              /\ aborted' = aborted
           \/ pc' = pc /\ aborted' = [aborted EXCEPT ![r] = TRUE]
        /\ UNCHANGED <<life, failed, uncertain, journal, disk, lock, queue, step, reply,
                       scopes, bound, shut, provider, frozen, writer, released>>
    BY <1>8 DEF Arrive, Abort, Authenticate, Goto, gate, callers, external, boundary
  <2>2. BoundaryTypeOK'
    BY <1>0, <2>1 DEF BoundaryTypeOK, InFlight
  <2>3. /\ \A q \in Requests : pc'[q] = pc[q] \/ (pc[q] = "new" /\ pc'[q] = "body")
        /\ \A q \in Requests : pc[q] = "new" /\ pc'[q] = "body" =>
              life # "down" /\ scopes[AttemptOf[q]] # "none"
    BY <1>0, <2>1 DEF BoundaryTypeOK, Current
  <2>4. \A a \in Attempts : scopes[a] # "none" => bound[a] # 0
    BY <1>0 DEF PolicyInForce
  <2>5. QED
    BY CallersKeep, <2>1, <2>2, <2>3, <2>4
<1>9. QED
  BY <1>1, <1>2, <1>3, <1>5, <1>6, <1>7, <1>8

\* The supervisor queues an operation of its own.
LEMMA OperatorKeeps ==
    ASSUME BoundaryInv, NEW op \in {"activate", "replace", "close"}, life = "open",
           life' = IF op = "close" THEN "closing" ELSE life,
           queue' = Append(queue, Job(op, None, "active")),
           UNCHANGED <<failed, uncertain, journal, disk, lock, step, reply, scopes, bound,
                       provider, frozen, writer, pc, released>>,
           aborted' \in [Requests -> BOOLEAN], shut' \in BOOLEAN
    PROVE  BoundaryInv'
<1>0. /\ BoundaryTypeOK /\ JobsAwaited /\ RepliesAwaited /\ QueueEnds /\ LifeHolds /\ StepFits
      /\ FreshUnknown /\ AnswersHold /\ PolicyInForce /\ GoodJournals
  BY DEF BoundaryInv
<1>1. PICK e : e = Job(op, None, "active")
  OBVIOUS
<1>2. e \in Awaited \cup Operator /\ e.op = op /\ e.request = None
  BY <1>1 DEF Job, Operator
<1>3. /\ queue \in Seq(Awaited \cup Operator) /\ Len(queue) \in Nat
  BY <1>0 DEF BoundaryTypeOK
<1>4. /\ queue' \in Seq(Awaited \cup Operator) /\ queue' # <<>> /\ Len(queue') = Len(queue) + 1
      /\ DOMAIN queue = 1 .. Len(queue) /\ DOMAIN queue' = DOMAIN queue \cup {Len(queue) + 1}
      /\ \A i \in DOMAIN queue : queue'[i] = queue[i]
      /\ queue'[Len(queue) + 1] = e
      /\ queue # <<>> => Head(queue') = Head(queue)
      /\ queue = <<>> => Head(queue') = e
  BY <1>1, <1>2, <1>3, AppendParts
<1>5. queue = <<>> => step = "turn"
  BY <1>0 DEF QueueEnds
<1>6. BoundaryTypeOK'
  BY <1>0, <1>4 DEF BoundaryTypeOK
<1>7. JobsAwaited'
  <2>1. \A i \in DOMAIN queue' : queue'[i].request # None => i \in DOMAIN queue /\ queue'[i] = queue[i]
    BY <1>2, <1>4
  <2>2. \A i, k \in DOMAIN queue' :
            queue'[i].request = queue'[k].request /\ queue'[i].request # None => i = k
    BY <1>0, <2>1 DEF JobsAwaited
  <2>3. QED
    BY <1>0, <2>1, <2>2 DEF JobsAwaited
<1>8. RepliesAwaited'
  BY <1>0 DEF RepliesAwaited
<1>9. QueueEnds'
  <2>1. \A i \in DOMAIN queue : queue[i].op # "close" /\ i # Len(queue')
    BY <1>0, <1>3, <1>4 DEF QueueEnds
  <2>2. \A i \in DOMAIN queue' : queue'[i].op = "close" <=> (life' = "closing" /\ i = Len(queue'))
    BY <1>2, <1>3, <1>4, <2>1
  <2>3. QED
    BY <1>0, <1>4, <2>2 DEF QueueEnds
<1>10. LifeHolds'
  BY <1>0, <1>4, <1>5 DEF LifeHolds
<1>11. StepFits'
  <2>1. CASE queue # <<>>
    BY <1>0, <1>4, <2>1 DEF StepFits
  <2>2. CASE queue = <<>>
    BY <1>5, <2>2 DEF StepFits, Fits
  <2>3. QED
    BY <2>1, <2>2
<1>12. FreshUnknown'
  <2>1. ASSUME NEW i \in DOMAIN queue', queue'[i].op = "admit", ~ (i = 1 /\ step = "write")
        PROVE  queue'[i].request \notin Known(journal)
    BY <1>0, <1>2, <1>4, <2>1 DEF FreshUnknown
  <2>2. QED
    BY <1>0, <2>1 DEF FreshUnknown
<1>13. AnswersHold'
  BY <1>0 DEF AnswersHold
<1>14. PolicyInForce'
  BY <1>0, <1>4 DEF PolicyInForce
<1>15. GoodJournals'
  BY <1>0 DEF GoodJournals
<1>16. QED
  BY <1>6, <1>7, <1>8, <1>9, <1>10, <1>11, <1>12, <1>13, <1>14, <1>15 DEF BoundaryInv

\* What the supervisor and the operator ask for keeps the invariant.
LEMMA SupervisorKeeps ==
    ASSUME BoundaryInv, Activate \/ DrainAndReplace \/ Close \/ CloseLast
    PROVE  BoundaryInv'
<1>0. /\ BoundaryTypeOK /\ PolicyInForce
      /\ aborted \in [Requests -> BOOLEAN] /\ shut \in BOOLEAN
  BY DEF BoundaryInv, BoundaryTypeOK
<1>1. CASE Activate
  BY <1>0, <1>1, OperatorKeeps DEF Activate, Accepts, Enqueue, callers, external, boundary
<1>2. CASE DrainAndReplace
  BY <1>0, <1>2, OperatorKeeps DEF DrainAndReplace, Accepts, Enqueue, callers, external, boundary
<1>3. CASE CloseLast
  BY <1>0, <1>3, OperatorKeeps DEF CloseLast, GateClose, Enqueue, callers, external, boundary
<1>4. CASE Close
  <2>1. /\ life = "open" /\ shut' \in BOOLEAN
        /\ UNCHANGED <<scopes, bound, provider, frozen, writer, pc, released>>
        /\ aborted' = [r \in Requests |-> aborted[r] \/ pc[r] \in InFlight]
        /\ gate' = gate \/ GateClose
    BY <1>4 DEF Close, external, boundary
  <2>2. aborted' \in [Requests -> BOOLEAN]
    BY <1>0, <2>1
  <2>3. CASE GateClose
    BY <2>1, <2>2, <2>3, OperatorKeeps DEF GateClose, Enqueue
  <2>4. CASE gate' = gate
    <3>1. UNCHANGED <<life, failed, uncertain, journal, disk, lock, queue, step, reply>>
      BY <2>4 DEF gate
    <3>2. BoundaryTypeOK'
      BY <1>0, <2>1, <2>2, <3>1 DEF BoundaryTypeOK
    <3>3. \A a \in Attempts : scopes[a] # "none" => bound[a] # 0
      BY <1>0 DEF PolicyInForce
    <3>4. QED
      BY <2>1, <3>1, <3>2, <3>3, CallersKeep
  <2>5. QED
    BY <2>1, <2>3, <2>4
<1>5. QED
  BY <1>1, <1>2, <1>3, <1>4

\* A process opens the journal an earlier one left.
LEMMA StartKeeps ==
    ASSUME BoundaryInv, Start
    PROVE  BoundaryInv'
<1>0. /\ BoundaryTypeOK /\ JobsAwaited /\ RepliesAwaited /\ QueueEnds /\ LifeHolds /\ StepFits
      /\ FreshUnknown /\ AnswersHold /\ PolicyInForce /\ GoodJournals
  BY DEF BoundaryInv
<1>1. /\ life \in {"down", "closed"} /\ ~lock /\ lock' = TRUE
      /\ \/ /\ life' = "open" /\ failed' = FALSE /\ uncertain' = FALSE
            /\ journal' = [disk EXCEPT !.phase = "closed"] /\ disk' = journal'
         \/ UNCHANGED <<life, failed, uncertain, journal, disk>>
      /\ UNCHANGED <<queue, step, reply, provider, frozen, writer, aborted, pc, released>>
      /\ \A r \in Requests : pc[r] \in {"new", "done", "gone"}
      /\ scopes' = [a \in Attempts |-> "none"] /\ bound' = [a \in Attempts |-> 0] /\ shut' = FALSE
  BY DEF Start, Open, Over, external, boundary
<1>2. queue = <<>> /\ step = "turn"
  BY <1>0, <1>1 DEF QueueEnds
<1>3. ~uncertain /\ writer = 0
  BY <1>0, <1>1, <1>2 DEF LifeHolds, PolicyInForce
<1>4. PICK j : j = [disk EXCEPT !.phase = "closed"]
  OBVIOUS
<1>5. disk \in Journal /\ Good(disk, provider, released)
  BY <1>0 DEF BoundaryTypeOK, GoodJournals
<1>6. /\ j \in Journal /\ j.phase = "closed" /\ j.epoch = disk.epoch
      /\ Known(j) \subseteq Known(disk) /\ Succeeded(disk) \subseteq Succeeded(j)
      /\ Good(j, provider, released)
  BY <1>4, <1>5, PhaseParts DEF Follows
<1>7. \/ life' = "open" /\ uncertain' = FALSE /\ journal' = j /\ disk' = j
      \/ UNCHANGED <<life, uncertain, journal, disk>>
  BY <1>1, <1>4
<1>8. BoundaryTypeOK'
  <2>1. /\ scopes' \in [Attempts -> {"none", "live", "ended"}] /\ bound' \in [Attempts -> Nat]
        /\ failed' \in BOOLEAN /\ uncertain' \in BOOLEAN /\ lock' \in BOOLEAN /\ shut' \in BOOLEAN
    BY <1>0, <1>1 DEF BoundaryTypeOK
  <2>2. QED
    BY <1>0, <1>1, <1>6, <1>7, <2>1 DEF BoundaryTypeOK
<1>9. JobsAwaited' /\ StepFits'
  BY <1>1, <1>2 DEF JobsAwaited, StepFits
<1>10. RepliesAwaited' /\ QueueEnds'
  BY <1>0, <1>1, <1>2, <1>7 DEF RepliesAwaited, QueueEnds
<1>11. LifeHolds'
  BY <1>0, <1>1, <1>2, <1>7 DEF LifeHolds, Handling, InFlight
<1>12. FreshUnknown'
  BY <1>0, <1>1, <1>2, <1>6, <1>7 DEF FreshUnknown
<1>13. AnswersHold'
  BY <1>0, <1>1, <1>6, <1>7 DEF AnswersHold
<1>14. PolicyInForce'
  <2>1. \A a \in Attempts : scopes'[a] = "none" /\ bound'[a] = 0
    BY <1>1
  <2>2. Receipts => j.epoch \in {0, 1}
    BY <1>0, <1>6 DEF PolicyInForce
  <2>3. QED
    BY <1>0, <1>1, <1>2, <1>3, <1>6, <1>7, <2>1, <2>2 DEF PolicyInForce
<1>15. GoodJournals'
  BY <1>0, <1>1, <1>6, <1>7 DEF GoodJournals
<1>16. QED
  BY <1>8, <1>9, <1>10, <1>11, <1>12, <1>13, <1>14, <1>15 DEF BoundaryInv

\* The process dies.
LEMMA DieKeeps ==
    ASSUME BoundaryInv, Die
    PROVE  BoundaryInv'
<1>0. /\ BoundaryTypeOK /\ QueueEnds /\ FreshUnknown /\ AnswersHold /\ PolicyInForce /\ GoodJournals
  BY DEF BoundaryInv
<1>1. /\ life # "down" /\ life' = "down" /\ failed' = FALSE /\ uncertain' = FALSE
      /\ disk' \in {disk, journal} /\ journal' = EmptyJournal
      /\ queue' = <<>> /\ step' = "turn" /\ reply' = [r \in Requests |-> None]
      /\ frozen' \in {frozen} \cup (IF writer # 0 THEN {writer} ELSE {}) /\ writer' = 0
      /\ UNCHANGED <<lock, provider, aborted, released>>
      /\ pc' = [r \in Requests |-> IF pc[r] = "new" THEN "new" ELSE "gone"]
      /\ scopes' = [a \in Attempts |-> "none"] /\ bound' = [a \in Attempts |-> 0] /\ shut' = FALSE
  BY DEF Die, Crash
<1>2. /\ Good(disk', provider, released) /\ disk' \in Journal
      /\ Receipts => disk'.epoch \in {0, 1}
      /\ \A r \in Requests : pc[r] = "new" => r \notin Known(disk')
      /\ \A r \in Requests : Receipts /\ released[r] # "none" => r \in Succeeded(disk')
  BY <1>0, <1>1 DEF GoodJournals, Good, PolicyInForce, FreshUnknown, AnswersHold
<1>3. /\ Known(EmptyJournal) = {} /\ EmptyJournal \in Journal
      /\ EmptyJournal.phase = "closed" /\ EmptyJournal.epoch = 0
  <2>1. PICK p : p = [r \in Requests |-> "none"]
    OBVIOUS
  <2>2. \A r \in Requests : p[r] = "none"
    BY <2>1
  <2>3. QED
    BY <2>2, EmptyIsGood
<1>4. \A r \in Requests : reply'[r] = None /\ pc'[r] \in {"new", "gone"} /\ (pc'[r] = "new" <=> pc[r] = "new")
  BY <1>1
<1>5. \A a \in Attempts : scopes'[a] = "none" /\ bound'[a] = 0
  BY <1>1
<1>6. BoundaryTypeOK'
  <2>1. queue' \in Seq(Awaited \cup Operator) /\ reply' \in [Requests -> {"ok", "denied", "held", None}]
    BY <1>1
  <2>2. pc' \in [Requests -> InFlight \cup {"new", "finishing", "done", "gone"}]
    BY <1>1
  <2>3. scopes' \in [Attempts -> {"none", "live", "ended"}] /\ bound' \in [Attempts -> Nat]
    BY <1>1
  <2>4. frozen' \in Nat \ {0} /\ writer' \in Nat /\ step' \in Steps
    BY <1>0, <1>1 DEF BoundaryTypeOK, Steps
  <2>5. QED
    BY <1>0, <1>1, <1>2, <1>3, <2>1, <2>2, <2>3, <2>4 DEF BoundaryTypeOK
<1>7. JobsAwaited' /\ StepFits' /\ RepliesAwaited' /\ QueueEnds'
  BY <1>1, <1>4 DEF JobsAwaited, StepFits, RepliesAwaited, QueueEnds
<1>8. LifeHolds'
  BY <1>1, <1>4 DEF LifeHolds, Handling, InFlight
<1>9. FreshUnknown'
  BY <1>1, <1>2, <1>3, <1>4 DEF FreshUnknown
<1>10. AnswersHold'
  BY <1>0, <1>1, <1>2, <1>4 DEF AnswersHold
<1>11. PolicyInForce'
  <2>1. Receipts => frozen' = 1
    BY <1>0, <1>1 DEF PolicyInForce
  <2>2. QED
    BY <1>1, <1>2, <1>3, <1>4, <1>5, <2>1 DEF PolicyInForce
<1>12. GoodJournals'
  BY <1>1, <1>2 DEF GoodJournals
<1>13. QED
  BY <1>6, <1>7, <1>8, <1>9, <1>10, <1>11, <1>12 DEF BoundaryInv

\* Every step of the boundary keeps the invariant.
LEMMA BoundaryStep == BoundaryInv /\ [Next]_vars => BoundaryInv'
<1> SUFFICES ASSUME BoundaryInv, [Next]_vars PROVE BoundaryInv'
  OBVIOUS
<1>1. CASE GateSteps /\ UNCHANGED boundary
  BY <1>1, GateStepsMove, GateMoveKeeps
<1>2. CASE StorageFails /\ UNCHANGED boundary
  BY <1>2, GateStepsMove, GateMoveKeeps
<1>3. CASE \/ (WriterApplies \/ WriterGivesUp \/ ProviderMoves \/ RemoveLock) /\ UNCHANGED boundary
           \/ \E a \in Attempts : Issue(a) \/ Expire(a) \/ Revoke(a)
           \/ \E r \in Requests : Arrive(r) \/ Abort(r)
  BY <1>3, OutsideKeeps
<1>4. ASSUME NEW r \in Requests, HandlerSteps(r) PROVE BoundaryInv'
  BY <1>4, HandlerStepsMove, HandlerMoveKeeps
<1>5. CASE Activate \/ DrainAndReplace \/ Close \/ CloseLast
  BY <1>5, SupervisorKeeps
<1>6. CASE Start
  BY <1>6, StartKeeps
<1>7. CASE Die
  BY <1>7, DieKeeps
<1>8. CASE UNCHANGED vars
  <2>1. UNCHANGED <<life, failed, uncertain, journal, disk, lock, queue, step, reply, aborted,
                    scopes, bound, shut, provider, frozen, writer, pc, released>>
    BY <1>8 DEF vars, gate, callers, external, boundary
  <2>2. BoundaryTypeOK /\ PolicyInForce
    BY DEF BoundaryInv
  <2>3. BoundaryTypeOK'
    BY <2>1, <2>2 DEF BoundaryTypeOK
  <2>4. \A a \in Attempts : scopes[a] # "none" => bound[a] # 0
    BY <2>2 DEF PolicyInForce
  <2>5. QED
    BY <2>1, <2>3, <2>4, CallersKeep
<1>9. QED
  BY <1>1, <1>2, <1>3, <1>4, <1>5, <1>6, <1>7, <1>8 DEF Next

\* Whatever dies at whatever await, the queue, the answers, the policy in force and both
\* copies of the journal stay as the operations of the gate rely on.
THEOREM BoundaryInvariance == Spec => []BoundaryInv
  BY BoundaryInit, BoundaryStep, PTL DEF Spec

-----------------------------------------------------------------------------
(* What the journal on disk tells whoever opens it next. *)

\* A good journal on disk is truthful and accepted.
LEMMA TruthFromInvariant == BoundaryInv => JournalIsTruthful
<1> SUFFICES ASSUME BoundaryInv PROVE JournalIsTruthful
  OBVIOUS
<1>1. Good(disk, provider, released) /\ disk \in Journal
  BY DEF BoundaryInv, GoodJournals, BoundaryTypeOK
<1>2. ValidJournal(disk)
  BY <1>1, GoodIsValid
<1>3. ASSUME NEW r \in Requests
      PROVE  /\ provider[r] \in {"sent", "running"} => disk.reservations[r] # None
             /\ Receipts /\ provider[r] # "none" /\ disk.reservations[r] # None =>
                   disk.reservations[r].send = "send_possible"
  BY <1>1 DEF Good, HoldsWork, Reserved
<1>4. ASSUME NEW r \in Requests, NEW i \in DOMAIN disk.decisions, disk.decisions[i].request = r
      PROVE  CASE disk.decisions[i].verdict = "never_sent" -> provider[r] = "none"
               [] disk.decisions[i].verdict = "validated_success" -> provider[r] = "success"
               [] OTHER -> Settled(r)
  <2>1. disk.decisions[i] \in Decision
    BY <1>1, <1>4, JournalParts DEF Positions
  <2>2. disk.decisions[i].verdict \in {"never_sent", "validated_success", "quiescent_failure"}
    BY <2>1 DEF Decision, Verdicts
  <2>3. /\ disk.decisions[i].verdict = "never_sent" => provider[r] = "none"
        /\ disk.decisions[i].verdict = "validated_success" => provider[r] = "success"
        /\ disk.decisions[i].verdict = "quiescent_failure" => Settled(r)
    BY <1>1, <1>4 DEF Good, VerdictsTrue, Positions, Settled
  <2>4. CASE disk.decisions[i].verdict = "never_sent"
    BY <2>3, <2>4
  <2>5. CASE disk.decisions[i].verdict = "validated_success"
    BY <2>3, <2>5
  <2>6. CASE disk.decisions[i].verdict = "quiescent_failure"
    BY <2>3, <2>6
  <2>7. QED
    BY <2>2, <2>4, <2>5, <2>6
<1>5. QED
  BY <1>1, <1>2, <1>3, <1>4 DEF JournalIsTruthful

\* The journal on disk is true of what happened upstream, and the next process accepts it
\* (policy.ts, validateJournal), whatever dies between a rename and its answer.
THEOREM TheJournalTellsTheTruth == Spec => []JournalIsTruthful
<1>1. BoundaryInv => JournalIsTruthful
  BY TruthFromInvariant
<1>2. QED
  BY <1>1, BoundaryInvariance, PTL

-----------------------------------------------------------------------------
(* Neither a completion nor the next of a chain gets ahead of its record. *)

\* Output that was released rests on a durable success.
LEMMA RecordedFromInvariant == BoundaryInv => ReleasedIsRecorded
<1> SUFFICES ASSUME BoundaryInv, Receipts, NEW r \in Requests, released[r] # "none"
             PROVE  \E i \in DOMAIN disk.decisions :
                       disk.decisions[i].request = r /\ disk.decisions[i].verdict = "validated_success"
  BY DEF ReleasedIsRecorded
<1>1. r \in Succeeded(disk)
  BY DEF BoundaryInv, AnswersHold
<1>2. QED
  BY <1>1 DEF Succeeded, Positions

\* A planner request that goes on extends whatever of its chain went before.
LEMMA ChainOfOne ==
    ASSUME BoundaryInv, Planner, NEW r \in Requests, NEW s \in Requests, r # s,
           ChainOf[r] = ChainOf[s], s \in Reserved(journal), provider[s] = "none",
           provider[r] # "none", life # "down"
    PROVE  released[r] = "all"
<1>1. Serial /\ Receipts
  BY ModesAssumption
<1>2. Good(journal, provider, released) /\ journal \in Journal
  BY DEF BoundaryInv, GoodJournals, BoundaryTypeOK
<1>3. r \in Known(journal) /\ r \notin Reserved(journal)
  BY <1>1, <1>2 DEF Good, HoldsWork, OneAtATime
<1>4. PICK i \in Positions(journal) : journal.decisions[i].request = r
  BY <1>3 DEF Known, Decided, Positions
<1>5. s \notin Decided(journal)
  <2>1. SUFFICES ASSUME NEW k \in Positions(journal), journal.decisions[k].request = s PROVE FALSE
    BY DEF Decided, Positions
  <2>2. journal.decisions[k].verdict = "validated_success"
    BY <1>2, <2>1 DEF Good, SendsAgree
  <2>3. provider[s] = "success"
    BY <1>2, <2>1, <2>2 DEF Good, VerdictsTrue
  <2>4. QED
    BY <2>3
<1>6. Extends(journal.decisions[i], s)
  BY <1>2, <1>4, <1>5 DEF Good, Chained
<1>7. journal.decisions[i].delivery = "completed"
  BY <1>6 DEF Extends
<1>8. QED
  BY <1>2, <1>4, <1>7 DEF Good, DeliveriesTrue

\* What is neither a handler's step nor the provider's leaves what was sent and released.
LEMMA Unmoved ==
    ASSUME BoundaryInv,
           \/ (GateSteps \/ StorageFails \/ WriterApplies \/ WriterGivesUp \/ RemoveLock) /\ UNCHANGED boundary
           \/ \E a \in Attempts : Issue(a) \/ Expire(a) \/ Revoke(a)
           \/ \E r \in Requests : Arrive(r) \/ Abort(r)
           \/ Activate \/ DrainAndReplace \/ Close \/ CloseLast \/ Start \/ Die
           \/ UNCHANGED vars
    PROVE  provider' = provider /\ released' = released
<1>1. CASE (GateSteps \/ StorageFails) /\ UNCHANGED boundary
  BY <1>1, GateStepsMove DEF GateMove
<1>2. CASE (WriterApplies \/ WriterGivesUp \/ RemoveLock) /\ UNCHANGED boundary
  BY <1>2 DEF WriterApplies, WriterGivesUp, RemoveLock, external, boundary
<1>3. CASE \E a \in Attempts : Issue(a) \/ Expire(a) \/ Revoke(a)
  BY <1>3 DEF Issue, Expire, Revoke, external, boundary
<1>4. CASE \E r \in Requests : Arrive(r) \/ Abort(r)
  BY <1>4 DEF Arrive, Abort, external, boundary
<1>5. CASE Activate \/ DrainAndReplace \/ Close \/ CloseLast
  BY <1>5 DEF Activate, DrainAndReplace, Close, CloseLast, external, boundary
<1>6. CASE Start \/ Die
  BY <1>6 DEF Start, Open, Die, Crash, external, boundary
<1>7. CASE UNCHANGED vars
  BY <1>7 DEF vars, external, boundary
<1>8. QED
  BY <1>1, <1>2, <1>3, <1>4, <1>5, <1>6, <1>7

\* Only a handler forwards, and what it releases stays released.
LEMMA ChainStep == BoundaryInv /\ ChainsDoNotFork /\ [Next]_vars => ChainsDoNotFork'
<1> SUFFICES ASSUME BoundaryInv, ChainsDoNotFork, [Next]_vars PROVE ChainsDoNotFork'
  OBVIOUS
<1>1. ASSUME \A r \in Requests : provider'[r] # "none" => provider[r] # "none",
             released' = released
      PROVE  ChainsDoNotFork'
  BY <1>1 DEF ChainsDoNotFork, Forwarded
<1>2. ASSUME NEW q \in Requests, HandlerSteps(q) PROVE ChainsDoNotFork'
  <2>1. PICK label : HandlerMove(q, label)
    BY <1>2, HandlerStepsMove
  <2>2. /\ \A r \in Requests \ {q} : provider'[r] = provider[r] /\ released'[r] = released[r]
        /\ \A r \in Requests : released[r] = "all" => released'[r] = "all"
    BY <2>1, HandlerParts
  <2>3. /\ Departs(q, label) /\ pc[q] \in Handling /\ life # "down"
    BY <2>1 DEF HandlerMove, BoundaryInv, LifeHolds
  <2>4. provider[q] = "none" /\ provider'[q] # "none" => q \in Reserved(journal)
    BY <2>3 DEF Departs
  <2>5. provider[q] # "none" => provider'[q] # "none"
    BY <2>3 DEF Departs
  <2>6. ASSUME Planner, NEW r \in Requests, NEW s \in Requests, r # s, ChainOf[r] = ChainOf[s],
               provider'[r] # "none", provider'[s] # "none"
        PROVE  released'[r] = "all" \/ released'[s] = "all"
    <3>1. CASE provider[r] # "none" /\ provider[s] # "none"
      BY <2>2, <2>6, <3>1 DEF ChainsDoNotFork, Forwarded
    <3>2. CASE provider[s] = "none"
      <4>1. s = q /\ s \in Reserved(journal) /\ provider[r] # "none"
        BY <2>2, <2>4, <2>6, <3>2
      <4>2. released[r] = "all"
        BY <2>3, <2>6, <3>2, <4>1, ChainOfOne
      <4>3. QED
        BY <2>2, <4>2
    <3>3. CASE provider[r] = "none"
      <4>1. r = q /\ r \in Reserved(journal) /\ provider[s] # "none"
        BY <2>2, <2>4, <2>6, <3>3
      <4>2. released[s] = "all"
        BY <2>3, <2>6, <3>3, <4>1, ChainOfOne
      <4>3. QED
        BY <2>2, <4>2
    <3>4. QED
      BY <3>1, <3>2, <3>3
  <2>7. QED
    BY <2>6 DEF ChainsDoNotFork, Forwarded
<1>3. CASE ProviderMoves /\ UNCHANGED boundary
  <2>1. provider \in [Requests -> {"none", "sent", "running", "success", "failure"}]
    BY DEF BoundaryInv, BoundaryTypeOK
  <2>2. \A r \in Requests : provider'[r] # "none" => provider[r] # "none"
    BY <1>3, <2>1 DEF ProviderMoves
  <2>3. QED
    BY <1>1, <1>3, <2>2 DEF boundary
<1>4. CASE \/ (GateSteps \/ StorageFails \/ WriterApplies \/ WriterGivesUp \/ RemoveLock) /\ UNCHANGED boundary
           \/ \E a \in Attempts : Issue(a) \/ Expire(a) \/ Revoke(a)
           \/ \E r \in Requests : Arrive(r) \/ Abort(r)
           \/ Activate \/ DrainAndReplace \/ Close \/ CloseLast \/ Start \/ Die
           \/ UNCHANGED vars
  <2>1. provider' = provider /\ released' = released
    BY <1>4, Unmoved
  <2>2. QED
    BY <1>1, <2>1
<1>5. QED
  BY <1>2, <1>3, <1>4 DEF Next

\* No output of a completion precedes its durable success, and no planner chain forks.
THEOREM NothingRanAhead == Spec => []NothingRunsAhead
<1>1. Init => ChainsDoNotFork
  BY DEF Init, GateInit, ChainsDoNotFork, Forwarded
<1>2. BoundaryInv => ReleasedIsRecorded
  BY RecordedFromInvariant
<1>3. BoundaryInv /\ ChainsDoNotFork /\ [Next]_vars => ChainsDoNotFork'
  BY ChainStep
<1>4. Spec => []ChainsDoNotFork
  BY <1>1, <1>3, BoundaryInvariance, PTL DEF Spec
<1>5. ReleasedIsRecorded /\ ChainsDoNotFork => NothingRunsAhead
  BY DEF NothingRunsAhead
<1>6. QED
  BY <1>2, <1>4, <1>5, BoundaryInvariance, PTL

-----------------------------------------------------------------------------
(* What leaves, leaves under the policy it was bound to. *)

\* Only an admitted or marked request leaves, under the policy it was bound to.
LEMMA DepartureBound ==
    ASSUME BoundaryInv, [Next]_vars, NEW r \in Requests, provider[r] = "none", provider'[r] # "none"
    PROVE  frozen = bound[AttemptOf[r]]
<1>1. ASSUME NEW q \in Requests, HandlerSteps(q) PROVE frozen = bound[AttemptOf[r]]
  <2>1. PICK label : HandlerMove(q, label)
    BY <1>1, HandlerStepsMove
  <2>2. q = r
    BY <2>1, HandlerParts
  <2>3. Departs(r, label)
    BY <2>1, <2>2 DEF HandlerMove
  <2>4. QED
    BY <2>3 DEF Departs
<1>2. CASE ProviderMoves /\ UNCHANGED boundary
  <2>1. provider \in [Requests -> {"none", "sent", "running", "success", "failure"}]
    BY DEF BoundaryInv, BoundaryTypeOK
  <2>2. provider'[r] = provider[r]
    BY <1>2, <2>1 DEF ProviderMoves
  <2>3. QED
    BY <2>2
<1>3. CASE \/ (GateSteps \/ StorageFails \/ WriterApplies \/ WriterGivesUp \/ RemoveLock) /\ UNCHANGED boundary
           \/ \E a \in Attempts : Issue(a) \/ Expire(a) \/ Revoke(a)
           \/ \E q \in Requests : Arrive(q) \/ Abort(q)
           \/ Activate \/ DrainAndReplace \/ Close \/ CloseLast \/ Start \/ Die
           \/ UNCHANGED vars
  BY <1>3, Unmoved
<1>4. QED
  BY <1>1, <1>2, <1>3 DEF Next

\* A request leaves only under the policy its binding names (boundary.ts rechecks the
\* binding after the durable reservation; policy.ts never adopts an epoch with work under way).
THEOREM SentUnderItsPolicy == Spec => SentUnderBoundPolicy
<1>1. BoundaryInv /\ [Next]_vars =>
          [\A r \in Requests : provider[r] = "none" /\ provider'[r] # "none" =>
               frozen = bound[AttemptOf[r]]]_vars
  BY DepartureBound
<1>2. QED
  BY <1>1, BoundaryInvariance, PTL DEF Spec, SentUnderBoundPolicy

-----------------------------------------------------------------------------
(* The ledger the boundary implements. *)

WorkOf(p) == [r \in Requests |-> CASE p[r] \in {"sent", "running"} -> "live" [] OTHER -> p[r]]
DeliveredOf(o) == {r \in Requests : o[r] # "none"}
StoppedOf(s, over) == {a \in Attempts : over \/ s[a] # "live"}

\* The work of a request in the terms of the ledger.
LEMMA WorkIs ==
    ASSUME NEW p, NEW r \in Requests
    PROVE  /\ p[r] \in {"sent", "running"} => WorkOf(p)[r] = "live"
           /\ p[r] \notin {"sent", "running"} => WorkOf(p)[r] = p[r]
<1>1. WorkOf(p)[r] = CASE p[r] \in {"sent", "running"} -> "live" [] OTHER -> p[r]
  BY DEF WorkOf
<1>2. CASE p[r] \in {"sent", "running"}
  BY <1>1, <1>2
<1>3. CASE p[r] \notin {"sent", "running"}
  BY <1>1, <1>3
<1>4. QED
  BY <1>2, <1>3

\* An update of what became of one request is an update of its work.
LEMMA WorkExcept ==
    ASSUME NEW p, NEW q, NEW r \in Requests, NEW w,
           \A s \in Requests \ {r} : q[s] = p[s],
           WorkOf(q)[r] = w
    PROVE  WorkOf(q) = [WorkOf(p) EXCEPT ![r] = w]
<1>1. \A s \in Requests \ {r} : WorkOf(q)[s] = WorkOf(p)[s]
  BY WorkIs
<1>2. DOMAIN WorkOf(q) = Requests /\ DOMAIN WorkOf(p) = Requests
      /\ WorkOf(q) = [s \in Requests |-> WorkOf(q)[s]]
  BY DEF WorkOf
<1>3. [WorkOf(p) EXCEPT ![r] = w] = [s \in Requests |-> IF s = r THEN w ELSE WorkOf(p)[s]]
  BY <1>2
<1>4. QED
  BY <1>1, <1>2, <1>3

\* The requests an attempt has started and those under way, in the terms of the journal.
StartedOf(p, a) == {r \in Requests : AttemptOf[r] = a /\ WorkOf(p)[r] # "none"}
UnderWayOf(p, a) == {r \in Requests : AttemptOf[r] = a /\ WorkOf(p)[r] = "live"}

\* What an attempt has started, and what of it is under way.
LEMMA LedgerSets ==
    ASSUME NEW p \in [Requests -> {"none", "sent", "running", "success", "failure"}], NEW a
    PROVE  /\ StartedOf(p, a) = {r \in Requests : AttemptOf[r] = a /\ p[r] # "none"}
           /\ UnderWayOf(p, a) = {r \in Requests : AttemptOf[r] = a /\ p[r] \in {"sent", "running"}}
<1>1. \A r \in Requests : /\ WorkOf(p)[r] # "none" <=> p[r] # "none"
                          /\ WorkOf(p)[r] = "live" <=> p[r] \in {"sent", "running"}
  BY WorkIs
<1>2. QED
  BY <1>1 DEF StartedOf, UnderWayOf

\* A request that leaves is within the limits of its attempt.
LEMMA WithinLimits ==
    ASSUME NEW j \in Journal, Good(j, provider, released), NEW r \in Requests, r \in Reserved(j),
           provider \in [Requests -> {"none", "sent", "running", "success", "failure"}],
           provider[r] = "none"
    PROVE  /\ Cardinality(StartedOf(provider, AttemptOf[r])) < RequestCount
           /\ Cardinality(UnderWayOf(provider, AttemptOf[r])) < Concurrency
<1> DEFINE a == AttemptOf[r]
           S == StartedOf(provider, a)
           U == UnderWayOf(provider, a)
<1>0. /\ a \in Attempts /\ IsFiniteSet(Requests)
      /\ RequestCount \in Nat \ {0} /\ Concurrency \in Nat \ {0}
      /\ S = {q \in Requests : AttemptOf[q] = a /\ provider[q] # "none"}
      /\ U = {q \in Requests : AttemptOf[q] = a /\ provider[q] \in {"sent", "running"}}
  BY CallersAssumption, LimitsAssumption, LedgerSets
<1>1. S \cup {r} \subseteq Spent(j, provider, a) /\ r \notin S
  BY <1>0 DEF Spent, Known
<1>2. U \cup {r} \subseteq ReservedBy(j, a) /\ r \notin U
  BY <1>0 DEF Good, HoldsWork, ReservedBy
<1>3. /\ IsFiniteSet(S) /\ IsFiniteSet(U) /\ IsFiniteSet(Spent(j, provider, a))
      /\ IsFiniteSet(ReservedBy(j, a))
  <2>1. /\ S \subseteq Requests /\ U \subseteq Requests /\ Spent(j, provider, a) \subseteq Requests
        /\ ReservedBy(j, a) \subseteq Requests
    BY <1>0 DEF Spent, ReservedBy, Reserved
  <2>2. QED
    BY <1>0, <2>1, FS_Subset
<1>4. /\ Cardinality(Spent(j, provider, a)) <= j.counts[a] /\ Cardinality(ReservedBy(j, a)) <= Concurrency
      /\ j.counts[a] \in 0 .. RequestCount
  BY <1>0 DEF Good, CountsCover, Limited, Journal
<1>5. /\ Cardinality(S \cup {r}) = Cardinality(S) + 1 /\ Cardinality(U \cup {r}) = Cardinality(U) + 1
      /\ Cardinality(S) \in Nat /\ Cardinality(U) \in Nat
  BY <1>1, <1>2, <1>3, FS_AddElement, FS_CardinalityType
<1>6. /\ Cardinality(S \cup {r}) <= Cardinality(Spent(j, provider, a))
      /\ Cardinality(U \cup {r}) <= Cardinality(ReservedBy(j, a))
      /\ Cardinality(Spent(j, provider, a)) \in Nat /\ Cardinality(ReservedBy(j, a)) \in Nat
  BY <1>1, <1>2, <1>3, FS_Subset, FS_CardinalityType
<1> HIDE DEF S, U
<1>7. Cardinality(S) < RequestCount /\ Cardinality(U) < Concurrency
  BY <1>0, <1>4, <1>5, <1>6
<1>8. QED
  BY <1>7 DEF S, U, a

\* The ledger counts as this module does.
LEMMA LedgerCounts == ASSUME NEW S PROVE Ledger!Cardinality(S) = Cardinality(S)
  BY DEF Ledger!Cardinality, Cardinality

\* Before the first boundary the ledger is empty and every attempt stopped.
LEMMA LedgerInitially == Init => Ledger!LedgerInit
<1> SUFFICES ASSUME Init PROVE Ledger!LedgerInit
  OBVIOUS
<1>1. /\ \A r \in Requests : provider[r] = "none" /\ released[r] = "none"
      /\ \A a \in Attempts : scopes[a] = "none"
  BY DEF Init, GateInit
<1>2. WorkOf(provider) = [r \in Requests |-> "none"]
  <2>1. \A r \in Requests : WorkOf(provider)[r] = "none"
    BY <1>1, WorkIs
  <2>2. WorkOf(provider) = [r \in Requests |-> WorkOf(provider)[r]]
    BY DEF WorkOf
  <2>3. QED
    BY <2>1, <2>2
<1>3. DeliveredOf(released) = {} /\ StoppedOf(scopes, shut) = Attempts
  BY <1>1 DEF DeliveredOf, StoppedOf
<1>4. QED
  BY <1>2, <1>3 DEF Ledger!LedgerInit, WorkOf, DeliveredOf, StoppedOf

\* A step the ledger does not see.
LEMMA LedgerStutters ==
    ASSUME provider' = provider, released' = released, scopes' = scopes, shut' = shut
    PROVE  UNCHANGED Ledger!ledger
  BY DEF Ledger!ledger

\* Attempts stop: their scopes end, the boundary closes, starts again or dies.
LEMMA LedgerStops ==
    ASSUME provider' = provider, released' = released, NEW S \in SUBSET Attempts,
           StoppedOf(scopes, shut)' = StoppedOf(scopes, shut) \cup S
    PROVE  Ledger!LedgerNext
<1>1. Ledger!Stop(S)
  BY DEF Ledger!Stop, StoppedOf
<1>2. QED
  BY <1>1 DEF Ledger!LedgerNext

\* A token is issued to an attempt that has started nothing.
LEMMA LedgerAllows ==
    ASSUME BoundaryInv, NEW a \in Attempts, Issue(a)
    PROVE  Ledger!LedgerNext
<1>1. /\ life = "open" /\ ~shut /\ journal.counts[a] = 0
      /\ scopes \in [Attempts -> {"none", "live", "ended"}]
      /\ scopes' = [scopes EXCEPT ![a] = "live"]
      /\ UNCHANGED <<provider, released, shut>>
      /\ provider \in [Requests -> {"none", "sent", "running", "success", "failure"}]
      /\ Good(journal, provider, released)
  BY DEF Issue, external, boundary, BoundaryInv, BoundaryTypeOK, GoodJournals
<1>2. Spent(journal, provider, a) = {}
  <2>1. Spent(journal, provider, a) \in SUBSET Requests /\ Cardinality(Spent(journal, provider, a)) <= 0
    BY <1>1 DEF Spent, Good, CountsCover
  <2>2. Cardinality(Spent(journal, provider, a)) = 0 /\ IsFiniteSet(Spent(journal, provider, a))
    BY <2>1, FiniteRequests
  <2>3. QED
    BY <2>2, FS_EmptySet
<1>3. StartedOf(provider, a) = {}
  BY <1>1, <1>2, LedgerSets DEF Spent
<1>4. StoppedOf(scopes, shut)' = StoppedOf(scopes, shut) \ {a}
  <2>1. \A b \in Attempts : scopes'[b] # "live" <=> scopes[b] # "live" /\ b # a
    BY <1>1
  <2>2. QED
    BY <1>1, <2>1 DEF StoppedOf
<1>5. Ledger!Allow(a)
  BY <1>1, <1>3, <1>4 DEF Ledger!Allow, Ledger!Started, StartedOf, WorkOf, StoppedOf
<1>6. QED
  BY <1>5 DEF Ledger!LedgerNext

\* The provider ends work the ledger knows as live, or does what it does not see.
LEMMA LedgerSees ==
    ASSUME BoundaryInv, ProviderMoves, UNCHANGED boundary
    PROVE  [Ledger!LedgerNext]_(Ledger!ledger)
<1>0. /\ provider \in [Requests -> {"none", "sent", "running", "success", "failure"}]
      /\ UNCHANGED <<released, scopes, shut>>
  BY DEF BoundaryInv, BoundaryTypeOK, ProviderMoves, boundary, callers
<1>1. PICK r \in Requests :
          \/ provider[r] = "sent" /\ provider' = [provider EXCEPT ![r] = "running"]
          \/ /\ provider[r] = "running"
             /\ \E result \in {"success", "failure"} : provider' = [provider EXCEPT ![r] = result]
  BY DEF ProviderMoves
<1>2. CASE provider[r] = "sent" /\ provider' = [provider EXCEPT ![r] = "running"]
  <2>1. \A q \in Requests : WorkOf(provider')[q] = WorkOf(provider)[q]
    <3>1. provider[r] = "sent" /\ provider'[r] = "running"
          /\ \A q \in Requests \ {r} : provider'[q] = provider[q]
      BY <1>0, <1>2
    <3>2. WorkOf(provider')[r] = "live" /\ WorkOf(provider)[r] = "live"
      BY <3>1, WorkIs
    <3>3. \A q \in Requests \ {r} : WorkOf(provider')[q] = WorkOf(provider)[q]
      BY <3>1, WorkIs
    <3>4. QED
      BY <3>2, <3>3
  <2>2. WorkOf(provider') = WorkOf(provider)
    <3>1. /\ WorkOf(provider) = [q \in Requests |-> WorkOf(provider)[q]]
          /\ WorkOf(provider') = [q \in Requests |-> WorkOf(provider')[q]]
      BY DEF WorkOf
    <3>2. QED
      BY <2>1, <3>1
  <2>3. UNCHANGED Ledger!ledger
    BY <1>0, <2>2 DEF Ledger!ledger, WorkOf
  <2>4. QED
    BY <2>3
<1>3. ASSUME NEW result \in {"success", "failure"}, provider[r] = "running",
             provider' = [provider EXCEPT ![r] = result]
      PROVE  Ledger!LedgerNext
  <2>1. WorkOf(provider)[r] = "live" /\ WorkOf(provider')[r] = result
    <3>1. provider[r] = "running" /\ provider'[r] = result /\ result \notin {"sent", "running"}
      BY <1>0, <1>3
    <3>2. QED
      BY <3>1, WorkIs
  <2>2. \A q \in Requests \ {r} : provider'[q] = provider[q]
    BY <1>0, <1>3
  <2>3. WorkOf(provider') = [WorkOf(provider) EXCEPT ![r] = result]
    BY <2>1, <2>2, WorkExcept
  <2>4. Ledger!End(r)
    BY <1>0, <1>3, <2>1, <2>3 DEF Ledger!End, WorkOf
  <2>5. QED
    BY <2>4 DEF Ledger!LedgerNext
<1>4. QED
  BY <1>1, <1>2, <1>3

\* A handler's step starts one request, delivers one answer, or does what the ledger does not see.
LEMMA LedgerHandles ==
    ASSUME BoundaryInv, NEW r \in Requests, NEW label, HandlerMove(r, label)
    PROVE  [Ledger!LedgerNext]_(Ledger!ledger)
<1>0. /\ provider \in [Requests -> {"none", "sent", "running", "success", "failure"}]
      /\ released \in [Requests -> {"none", "some", "all"}]
      /\ scopes' = scopes /\ shut' = shut /\ journal \in Journal
      /\ Departs(r, label) /\ Releases(r)
      /\ Good(journal, provider, released)
      /\ AttemptOf[r] \in Attempts
  BY CallersAssumption
     DEF BoundaryInv, BoundaryTypeOK, HandlerMove, GoodJournals, LifeHolds
<1>1. CASE provider' = provider /\ released' = released
  BY <1>0, <1>1, LedgerStutters
<1>2. CASE provider' = provider /\ released' # released
  <2>1. /\ Current(r) /\ provider[r] # "none" /\ (Receipts => r \in Succeeded(journal))
        /\ \E output \in {"some", "all"} : released' = [released EXCEPT ![r] = output]
    BY <1>0, <1>2 DEF Releases
  <2>2. DeliveredOf(released') = DeliveredOf(released) \cup {r}
    BY <1>0, <2>1 DEF DeliveredOf
  <2>3. AttemptOf[r] \notin StoppedOf(scopes, shut)
    BY <2>1 DEF Current, StoppedOf
  <2>4. Receipts => provider[r] = "success"
    BY <1>0, <2>1 DEF Good, VerdictsTrue, Succeeded
  <2>5. WorkOf(provider)[r] \in (IF Receipts THEN {"success"} ELSE {"live", "success", "failure"})
    BY <1>0, <2>1, <2>4, WorkIs
  <2>6. Ledger!Deliver(r)
    BY <1>0, <1>2, <2>2, <2>3, <2>5 DEF Ledger!Deliver, WorkOf, DeliveredOf, StoppedOf
  <2>7. QED
    BY <2>6 DEF Ledger!LedgerNext
<1>3. CASE provider' # provider
  <2>1. /\ provider[r] = "none" /\ provider' = [provider EXCEPT ![r] = "sent"] /\ released' = released
        /\ Current(r) /\ r \in Reserved(journal)
    BY <1>0, <1>3 DEF Departs
  <2>2. WorkOf(provider)[r] = "none" /\ WorkOf(provider')[r] = "live"
    BY <1>0, <2>1, WorkIs
  <2>3. WorkOf(provider') = [WorkOf(provider) EXCEPT ![r] = "live"]
    <3>1. \A q \in Requests \ {r} : provider'[q] = provider[q]
      BY <1>0, <2>1
    <3>2. QED
      BY <2>2, <3>1, WorkExcept
  <2>4. AttemptOf[r] \notin StoppedOf(scopes, shut)
    BY <2>1 DEF Current, StoppedOf
  <2>5. /\ Cardinality(StartedOf(provider, AttemptOf[r])) < RequestCount
        /\ Cardinality(UnderWayOf(provider, AttemptOf[r])) < Concurrency
    BY <1>0, <2>1, WithinLimits
  <2>a. /\ DeliveredOf(released)' = DeliveredOf(released)
        /\ StoppedOf(scopes, shut)' = StoppedOf(scopes, shut)
    BY <1>0, <2>1
  <2>6. Ledger!Start(r)
    <3>1. /\ Ledger!Cardinality(Ledger!Started(AttemptOf[r])) < RequestCount
          /\ Ledger!Cardinality(Ledger!UnderWay(AttemptOf[r])) < Concurrency
      BY <2>5, LedgerCounts DEF Ledger!Started, Ledger!UnderWay, StartedOf, UnderWayOf, WorkOf
    <3>2. QED
      BY <2>2, <2>3, <2>4, <2>a, <3>1 DEF Ledger!Start, WorkOf, DeliveredOf, StoppedOf
  <2>7. QED
    BY <2>6 DEF Ledger!LedgerNext
<1>4. QED
  BY <1>1, <1>2, <1>3

\* What neither the ledger nor its attempts see.
LEMMA ScopesKept ==
    ASSUME BoundaryInv,
           \/ (GateSteps \/ StorageFails \/ WriterApplies \/ WriterGivesUp \/ RemoveLock) /\ UNCHANGED boundary
           \/ \E r \in Requests : Arrive(r) \/ Abort(r)
           \/ Activate \/ DrainAndReplace \/ CloseLast
           \/ UNCHANGED vars
    PROVE  scopes' = scopes /\ shut' = shut
<1>1. CASE (GateSteps \/ StorageFails) /\ UNCHANGED boundary
  BY <1>1, GateStepsMove DEF GateMove, callers
<1>2. CASE (WriterApplies \/ WriterGivesUp \/ RemoveLock) /\ UNCHANGED boundary
  BY <1>2 DEF WriterApplies, WriterGivesUp, RemoveLock, callers
<1>3. CASE \E r \in Requests : Arrive(r) \/ Abort(r)
  BY <1>3 DEF Arrive, Abort, callers
<1>4. CASE Activate \/ DrainAndReplace \/ CloseLast
  BY <1>4 DEF Activate, DrainAndReplace, CloseLast, callers
<1>5. CASE UNCHANGED vars
  BY <1>5 DEF vars, callers
<1>6. QED
  BY <1>1, <1>2, <1>3, <1>4, <1>5

\* Every step of the boundary is one of the ledger, or none.
LEMMA LedgerStep == BoundaryInv /\ [Next]_vars => [Ledger!LedgerNext]_(Ledger!ledger)
<1> SUFFICES ASSUME BoundaryInv, [Next]_vars PROVE [Ledger!LedgerNext]_(Ledger!ledger)
  OBVIOUS
<1>1. ASSUME NEW r \in Requests, HandlerSteps(r) PROVE [Ledger!LedgerNext]_(Ledger!ledger)
  BY <1>1, HandlerStepsMove, LedgerHandles
<1>2. CASE ProviderMoves /\ UNCHANGED boundary
  BY <1>2, LedgerSees
<1>3. CASE \/ (GateSteps \/ StorageFails \/ WriterApplies \/ WriterGivesUp \/ RemoveLock) /\ UNCHANGED boundary
           \/ \E r \in Requests : Arrive(r) \/ Abort(r)
           \/ Activate \/ DrainAndReplace \/ CloseLast
           \/ UNCHANGED vars
  <2>1. provider' = provider /\ released' = released
    BY <1>3, Unmoved
  <2>2. scopes' = scopes /\ shut' = shut
    BY <1>3, ScopesKept
  <2>3. QED
    BY <2>1, <2>2, LedgerStutters
<1>4. ASSUME NEW a \in Attempts, Issue(a) PROVE [Ledger!LedgerNext]_(Ledger!ledger)
  BY <1>4, LedgerAllows
<1>5. ASSUME NEW a \in Attempts, Expire(a) \/ Revoke(a) PROVE [Ledger!LedgerNext]_(Ledger!ledger)
  <2>1. /\ provider' = provider /\ released' = released /\ shut' = shut
        /\ scopes' = [scopes EXCEPT ![a] = "ended"]
        /\ scopes \in [Attempts -> {"none", "live", "ended"}]
    BY <1>5 DEF Expire, Revoke, external, boundary, BoundaryInv, BoundaryTypeOK
  <2>2. \A b \in Attempts : scopes'[b] # "live" <=> scopes[b] # "live" \/ b = a
    BY <2>1
  <2>3. StoppedOf(scopes, shut)' = StoppedOf(scopes, shut) \cup {a}
    BY <2>1, <2>2 DEF StoppedOf
  <2>4. {a} \in SUBSET Attempts
    OBVIOUS
  <2>5. Ledger!LedgerNext
    BY <2>1, <2>3, <2>4, LedgerStops
  <2>6. QED
    BY <2>5
<1>6. CASE Close \/ Start \/ Die
  <2>1. provider' = provider /\ released' = released
    BY <1>6, Unmoved
  <2>2. shut' \/ \A a \in Attempts : scopes'[a] = "none"
    BY <1>6 DEF Close, Start, Die
  <2>3. StoppedOf(scopes, shut)' = Attempts
    BY <2>2 DEF StoppedOf
  <2>4. StoppedOf(scopes, shut)' = StoppedOf(scopes, shut) \cup Attempts
    BY <2>3 DEF StoppedOf
  <2>5. QED
    BY <2>1, <2>4, LedgerStops
<1>7. QED
  BY <1>1, <1>2, <1>3, <1>4, <1>5, <1>6 DEF Next

\* Whatever its processes, journal and locks do, the boundary keeps the ledger of its
\* requests: limits, stops and deliveries are as the attempt was promised.
THEOREM TheLedgerIsKept == Spec => LedgerSpec
<1>1. Init => Ledger!LedgerInit
  BY LedgerInitially
<1>2. BoundaryInv /\ [Next]_vars => [Ledger!LedgerNext]_(Ledger!ledger)
  BY LedgerStep
<1>3. QED
  BY <1>1, <1>2, BoundaryInvariance, PTL DEF Spec, LedgerSpec, Ledger!LedgerSpec
=============================================================================
