-------------------------- MODULE SelectionProofs ---------------------------
(***************************************************************************)
(* Proofs about the selection of the Claude account, for any number of     *)
(* accounts in any order and any thresholds a policy may have; and about   *)
(* the permission to act on one, for any accounts, whatever is observed of *)
(* them, and any settings.                                                 *)
(***************************************************************************)
EXTENDS Selection, Permission, TLAPS, FiniteSetTheorems, WellFoundedInduction

-----------------------------------------------------------------------------
(* Least and greatest *)

LEMMA LeastOf ==
  ASSUME NEW T \in SUBSET Nat, T # {} PROVE \E x \in T : \A y \in T : x <= y
<1>1. T \subseteq Nat
  OBVIOUS
<1> DEFINE less == OpToRel(<, Nat)
<1>2. IsWellFoundedOn(less, Nat)
  BY NatLessThanWellFounded
<1>3. \A x, y \in Nat : y < x => <<y, x>> \in less
  BY DEF OpToRel
<1> HIDE DEF less
<1>4. PICK x \in T : \A y \in T : ~ (<<y, x>> \in less)
  BY <1>1, <1>2, WFMin
<1>5. \A y \in T : ~ (y < x)
  BY <1>1, <1>3, <1>4
<1> QED
  BY <1>1, <1>5

LEMMA GreatestOf ==
  ASSUME NEW B \in Nat, NEW T \in SUBSET (0 .. B), T # {}
  PROVE  \E x \in T : \A y \in T : y <= x
<1> DEFINE missing == {B - x : x \in T}
<1>1. missing \in SUBSET Nat /\ missing # {}
  OBVIOUS
<1>2. PICK m \in missing : \A n \in missing : m <= n
  BY <1>1, LeastOf
<1>3. PICK x \in T : m = B - x
  BY <1>2
<1>4. \A y \in T : B - x <= B - y
  BY <1>2, <1>3
<1> QED
  BY <1>4

-----------------------------------------------------------------------------
(* The choices: every CHOOSE of the decision finds what it looks for       *)

ReadingsTyped == reading \in [Accounts -> Readings]

Bound == Most + WeekMargin

LEMMA BoundType == Bound \in Nat
  BY ThresholdsAssumption DEF Bound

(* What a reading leaves is a natural number. *)
LEMMA LeftType ==
  ASSUME ReadingsTyped, NEW a \in Accounts
  PROVE  /\ Left(a) \in 0 .. Bound
         /\ reading[a].fresh \in BOOLEAN /\ reading[a].degraded \in BOOLEAN
<1>1. PICK r \in Readings : reading[a] = r
  BY DEF ReadingsTyped
<1>2. Most \in Nat /\ WeekMargin \in Nat
  BY ThresholdsAssumption
<1>3. \/ r.left \in 0 .. Most
      \/ r.left \in 0 .. WeekMargin - 1
      \/ r.left = 0
  BY <1>1 DEF Readings
<1>4. r.left \in 0 .. Bound
  BY <1>2, <1>3 DEF Bound
<1>5. r.fresh \in BOOLEAN /\ r.degraded \in BOOLEAN
  BY <1>1 DEF Readings
<1> QED
  BY <1>1, <1>4, <1>5 DEF Left

(* The place of an account is one of the policy's, and its own. *)
LEMMA PlaceIs ==
  ASSUME NEW a \in Accounts
  PROVE  /\ Place(a) \in DOMAIN Prefer /\ Place(a) \in Nat
         /\ Prefer[Place(a)] = a
<1>1. \E i \in DOMAIN Prefer : Prefer[i] = a
  BY DEF Accounts
<1>2. Place(a) \in DOMAIN Prefer /\ Prefer[Place(a)] = a
  BY <1>1 DEF Place
<1>3. DOMAIN Prefer \subseteq Nat
  BY AccountsAssumption
<1> QED
  BY <1>2, <1>3

(* Of some accounts one is first in the policy. *)
LEMMA FirstPlace ==
  ASSUME NEW S \in SUBSET Accounts, S # {}
  PROVE  \E a \in S : \A b \in S \ {a} : Place(a) < Place(b)
<1>0. \A a \in S : a \in Accounts
  OBVIOUS
<1>1. \A a \in S : Place(a) \in Nat /\ Prefer[Place(a)] = a
  BY <1>0, PlaceIs
<1> DEFINE places == {Place(a) : a \in S}
<1>2. places \in SUBSET Nat /\ places # {}
  BY <1>1
<1>3. PICK m \in places : \A n \in places : m <= n
  BY <1>2, LeastOf
<1>4. PICK a \in S : m = Place(a)
  BY <1>3
<1>5. ASSUME NEW b \in S \ {a} PROVE Place(a) < Place(b)
  <2>1. Place(a) <= Place(b)
    BY <1>3, <1>4
  <2>2. Place(a) # Place(b)
    BY <1>1
  <2> QED
    BY <1>1, <2>1, <2>2
<1> QED
  BY <1>5

(* Of some accounts one has the most left. *)
LEMMA MostLeft ==
  ASSUME ReadingsTyped, NEW S \in SUBSET Accounts, S # {}
  PROVE  \E a \in S : \A b \in S : Left(b) <= Left(a)
<1>0. \A a \in S : a \in Accounts
  OBVIOUS
<1>1. \A a \in S : Left(a) \in 0 .. Bound
  BY <1>0, LeftType
<1> DEFINE amounts == {Left(a) : a \in S}
<1>2. amounts \in SUBSET (0 .. Bound) /\ amounts # {}
  BY <1>1
<1>3. PICK m \in amounts : \A n \in amounts : n <= m
  BY <1>2, BoundType, GreatestOf
<1> QED
  BY <1>3

LEMMA CandidatesAre ==
  /\ Candidates \subseteq Known /\ Known \subseteq Work /\ Work \subseteq Accounts
  /\ Candidates \subseteq Accounts
  BY DEF Candidates, Known, Work

(* The fullest candidate is one, and ahead of every other. *)
LEMMA FullestIs ==
  ASSUME ReadingsTyped, Candidates # {}, NEW p
  PROVE  /\ Fullest(p) \in Candidates
         /\ \A b \in Candidates \ {Fullest(p)} : Ahead(Fullest(p), b, p)
<1>0. Candidates \in SUBSET Accounts
  BY CandidatesAre
<1> DEFINE full == {a \in Candidates : \A b \in Candidates : Left(b) <= Left(a)}
<1>1. full # {} /\ full \in SUBSET Accounts
  BY <1>0, MostLeft
<1>2. \A a \in Candidates : Left(a) \in Nat
  BY <1>0, BoundType, LeftType
<1>3. \A a \in full, b \in Candidates \ full : Left(a) > Left(b)
  <2> SUFFICES ASSUME NEW a \in full, NEW b \in Candidates \ full PROVE Left(a) > Left(b)
    OBVIOUS
  <2>1. PICK c \in Candidates : ~ (Left(c) <= Left(b))
    OBVIOUS
  <2>2. Left(c) <= Left(a)
    OBVIOUS
  <2> QED
    BY <1>2, <2>1, <2>2
<1>4. \A a, b \in full : Left(a) = Left(b)
  BY <1>2
<1>5. PICK a \in full : \A b \in full \ {a} : b # p /\ (a = p \/ Place(a) < Place(b))
  <2>1. CASE p \in full
    BY <2>1
  <2>2. CASE p \notin full
    BY <1>1, <2>2, FirstPlace
  <2> QED
    BY <2>1, <2>2
<1>6. \A b \in Candidates \ {a} : Ahead(a, b, p)
  BY <1>3, <1>4, <1>5 DEF Ahead
<1>7. \E c \in Candidates : \A b \in Candidates \ {c} : Ahead(c, b, p)
  BY <1>5, <1>6
<1> HIDE DEF full
<1> QED
  BY <1>7 DEF Fullest

(* The first of some accounts is one of them, and before every other. *)
LEMMA FirstIs ==
  ASSUME ReadingsTyped, NEW S \in SUBSET Accounts, S # {}
  PROVE  First(S) \in S /\ \A b \in S \ {First(S)} : Before(First(S), b)
<1>1. PICK R \in SUBSET S :
        /\ R # {}
        /\ \A a \in R, b \in S \ R : a \in Work /\ b \in Reserve
        /\ R \subseteq Work \/ R \subseteq Reserve
  <2>1. CASE S \cap Work # {}
    BY <2>1 DEF Work
  <2>2. CASE S \cap Work = {}
    BY <2>2 DEF Work
  <2> QED
    BY <2>1, <2>2
<1>2. \A a \in S : reading[a].degraded \in BOOLEAN
  BY LeftType
<1>3. PICK H \in SUBSET R :
        /\ H # {}
        /\ \A a \in H, b \in R \ H : ~ reading[a].degraded /\ reading[b].degraded
        /\ \/ \A a \in H : reading[a].degraded
           \/ \A a \in H : ~ reading[a].degraded
  <2> DEFINE healthy == {a \in R : ~ reading[a].degraded}
  <2>1. CASE healthy # {}
    <3> WITNESS healthy \in SUBSET R
    <3> QED
      BY <2>1
  <2>2. CASE healthy = {}
    <3> WITNESS R \in SUBSET R
    <3> QED
      BY <1>1, <2>2
  <2> QED
    BY <2>1, <2>2
<1>4. \E a \in H : \A b \in H \ {a} : Ranked(a, b)
  <2>0. H \in SUBSET Accounts
    OBVIOUS
  <2>1. CASE \A a \in H : ~ reading[a].degraded
    BY <1>3, <2>0, <2>1, FirstPlace DEF Ranked
  <2>2. CASE \A a \in H : reading[a].degraded
    <3> DEFINE full == {a \in H : \A b \in H : Left(b) <= Left(a)}
    <3>1. full # {} /\ full \in SUBSET Accounts
      BY <1>3, <2>0, MostLeft
    <3>2. \A a \in H : Left(a) \in Nat
      BY <2>0, BoundType, LeftType
    <3>3. \A a \in full, b \in H : Left(a) # Left(b) => Left(a) > Left(b)
      BY <3>2
    <3>4. \A b \in H : b \notin full => \A a \in full : Left(a) # Left(b)
      BY <3>2
    <3>5. PICK a \in full : \A b \in full \ {a} : Place(a) < Place(b)
      BY <3>1, FirstPlace
    <3>6. \A b \in H \ {a} : Ranked(a, b)
      BY <2>2, <3>3, <3>4, <3>5 DEF Ranked
    <3> QED
      BY <3>5, <3>6
  <2> QED
    BY <1>3, <2>1, <2>2
<1>5. PICK a \in H : \A b \in H \ {a} : Ranked(a, b)
  BY <1>4
<1>6. ASSUME NEW b \in S \ {a} PROVE Before(a, b)
  <2>1. CASE b \notin R
    BY <1>1, <1>5, <2>1 DEF Before
  <2>2. CASE b \in R \ H
    <3>1. (a \in Reserve) = (b \in Reserve)
      BY <1>1, <1>5, <2>2 DEF Work
    <3> QED
      BY <1>3, <1>5, <2>2, <3>1 DEF Before
  <2>3. CASE b \in H
    <3>1. (a \in Reserve) = (b \in Reserve)
      BY <1>1, <1>5, <2>3 DEF Work
    <3>2. reading[a].degraded = reading[b].degraded
      BY <1>2, <1>3, <1>5, <2>3
    <3> QED
      BY <1>5, <2>3, <3>1, <3>2 DEF Before
  <2> QED
    BY <2>1, <2>2, <2>3
<1>7. \E c \in S : \A b \in S \ {c} : Before(c, b)
  BY <1>6
<1> QED
  BY <1>7 DEF First

(* What is proposed is an account or nobody, and one that is moved to has  *)
(* been read and has something left.                                       *)
LEMMA ProposedIs ==
  ASSUME ReadingsTyped, NEW p \in Accounts, NEW state
  PROVE  LET to == Proposed(p, state) IN
         /\ to \in Accounts \cup {NoAccount}
         /\ to \notin {NoAccount, p} =>
              /\ reading[to].fresh /\ Left(to) > 0
              /\ to \in Reserve =>
                   /\ to \in Eligible(Critical(state))
                   /\ \A b \in Eligible(Critical(state)) \ {to} : Before(to, b)
<1> DEFINE to == Proposed(p, state)
           may == Eligible(Critical(state))
<1>1. may \in SUBSET Accounts
  BY DEF Eligible
<1>2. CASE Critical(state) /\ Candidates # {}
  <2>1. to \in Candidates \/ to = p
    <3>1. to = CriticalChoice(p, state)
      BY <1>2 DEF Proposed
    <3>2. Fullest(p) \in Candidates
      BY <1>2, FullestIs
    <3> QED
      BY <3>1, <3>2 DEF CriticalChoice
  <2>2. \A a \in Candidates : a \in Accounts /\ a \notin Reserve /\ reading[a].fresh /\ Left(a) > 0
    BY DEF Candidates, Known, Work
  <2> HIDE DEF to
  <2> QED
    BY <2>1, <2>2 DEF to
<1>3. CASE ~ (Critical(state) /\ Candidates # {}) /\ may = {}
  BY <1>3 DEF Proposed
<1>4. CASE ~ (Critical(state) /\ Candidates # {}) /\ may # {}
  <2>1. to = p \/ to = First(may)
    BY <1>4 DEF Proposed
  <2>2. First(may) \in may /\ \A b \in may \ {First(may)} : Before(First(may), b)
    BY <1>1, <1>4, FirstIs
  <2>3. \A a \in may : reading[a].fresh /\ Left(a) > 0
    BY DEF Eligible
  <2> HIDE DEF to, may
  <2> QED
    BY <1>1, <2>1, <2>2, <2>3 DEF to, may
<1> QED
  BY <1>2, <1>3, <1>4

(* Critical mode proposes to leave an account that can be used only after  *)
(* the dwell time, and only for more.                                      *)
LEMMA CriticalIs ==
  ASSUME ReadingsTyped, NEW p \in Candidates, NEW state, Critical(state), state.age \in Nat,
         Proposed(p, state) # p
  PROVE  /\ state.known /\ state.age >= Dwell
         /\ Left(Proposed(p, state)) > Left(p)
<1>1. Proposed(p, state) = CriticalChoice(p, state)
  BY DEF Proposed
<1>2. Proposed(p, state) = Fullest(p) /\ ~ TooSoon(Fullest(p), p, state)
  BY <1>1 DEF CriticalChoice
<1>3. state.known /\ ~ (state.age < Dwell)
  BY <1>2 DEF TooSoon
<1>4. Dwell \in Nat
  BY ThresholdsAssumption
<1>5. Ahead(Fullest(p), p, p)
  BY <1>2, FullestIs
<1>6. Left(Fullest(p)) > Left(p)
  BY <1>5 DEF Ahead
<1> QED
  BY <1>2, <1>3, <1>4, <1>6

-----------------------------------------------------------------------------
(* Types *)

WakeType ==
  [at : {"asleep"}] \cup [at : {"switching"}, from : Accounts, to : Accounts, overtaken : BOOLEAN]
  \cup [at : {"saving"}, switched : BOOLEAN]

LEMMA TypeParts == TypeOK => ReadingsTyped /\ wake \in WakeType
  BY DEF TypeOK, ReadingsTyped, WakeType

LEMMA WakeIs ==
  ASSUME wake \in WakeType
  PROVE  /\ wake.at \in {"asleep", "switching", "saving"}
         /\ wake.at = "asleep" => wake = Asleep
         /\ wake.at = "switching" =>
              wake \in [at : {"switching"}, from : Accounts, to : Accounts, overtaken : BOOLEAN]
         /\ wake.at = "saving" => wake \in [at : {"saving"}, switched : BOOLEAN]
  BY DEF WakeType, Asleep

LEMMA OlderType == \A age \in 0 .. Dwell : Older(age) \in 0 .. Dwell /\ Older(age) >= age
  BY ThresholdsAssumption DEF Older

LEMMA InitTypes == Init => TypeOK
<1>1. Dwell \in Nat /\ MaxUpsets \in Nat
  BY ThresholdsAssumption
<1>2. Cardinality({}) <= MaxUpsets
  BY <1>1, FS_EmptySet
<1>3. ASSUME Init PROVE TypeOK
  <2>1. reading \in [Accounts -> Readings] /\ active \in Accounts /\ wake = Asleep
    BY <1>3 DEF Init
  <2>2. record \in [active : BOOLEAN, known : BOOLEAN, age : 0 .. Dwell] /\ since \in 0 .. Dwell
    BY <1>1, <1>3 DEF Init
  <2>3. upsets = {} /\ hold \in BOOLEAN /\ calm \in BOOLEAN
    BY <1>3 DEF Init
  <2>4. upsets \in SUBSET {"switched", "held", "died"} /\ Cardinality(upsets) <= MaxUpsets
    BY <1>2, <2>3
  <2> QED
    BY <2>1, <2>2, <2>3, <2>4 DEF TypeOK, Asleep
<1> QED
  BY <1>3

LEMMA NextTypes == TypeOK /\ [Next]_vars => TypeOK'
<1> SUFFICES ASSUME TypeOK, [Next]_vars PROVE TypeOK'
  OBVIOUS
<1>0. ReadingsTyped /\ wake \in WakeType /\ Dwell \in Nat
  BY TypeParts, ThresholdsAssumption
<1>1. CASE Wake
  <2> DEFINE to == Proposed(active, record)
  <2>1. to \in Accounts \cup {NoAccount}
    BY <1>0, ProposedIs DEF TypeOK
  <2> HIDE DEF to
  <2>2. wake' \in WakeType
    BY <1>1, <2>1 DEF Wake, WakeType, TypeOK, to
  <2> QED
    BY <1>1, <2>2 DEF Wake, TypeOK, WakeType
<1>2. CASE Switch
  <2>1. wake.at = "switching" => wake.to \in Accounts
    BY <1>0, WakeIs
  <2>2. wake' \in WakeType
    <3>1. wake' = [at |-> "asleep"] \/ \E b \in BOOLEAN : wake' = [at |-> "saving", switched |-> b]
      BY <1>2 DEF Switch, Asleep
    <3>2. [at |-> "asleep"] \in WakeType
      BY DEF WakeType
    <3>3. \A b \in BOOLEAN : [at |-> "saving", switched |-> b] \in [at : {"saving"}, switched : BOOLEAN]
      OBVIOUS
    <3> QED
      BY <3>1, <3>2, <3>3 DEF WakeType
  <2>3. active' \in Accounts
    BY <1>2, <2>1 DEF Switch, TypeOK
  <2>4. since' \in 0 .. Dwell
    <3>1. since' = 0 \/ since' = since
      BY <1>2 DEF Switch
    <3> QED
      BY <1>0, <3>1 DEF TypeOK
  <2> QED
    BY <1>2, <2>2, <2>3, <2>4 DEF Switch, TypeOK, WakeType
<1>3. CASE Save
  <2>1. Critical(record) \in BOOLEAN
    BY DEF Critical
  <2>2. \A b : SelectedAt(b) \in 0 .. Dwell
    BY <1>0 DEF SelectedAt, TypeOK
  <2>3. record' \in [active : BOOLEAN, known : BOOLEAN, age : 0 .. Dwell]
    BY <1>3, <2>1, <2>2 DEF Save
  <2> QED
    BY <1>3, <2>3 DEF Save, TypeOK, Asleep
<1>4. CASE Die
  BY <1>4 DEF Die, Upset, TypeOK, Asleep
<1>5. ASSUME NEW a \in Accounts, Observe(a) PROVE TypeOK'
  BY <1>5 DEF Observe, TypeOK
<1>6. CASE Interfere
  <2>1. wake.at = "switching" => [wake EXCEPT !.overtaken = TRUE] \in WakeType
    BY <1>0, WakeIs DEF WakeType
  <2>2. wake' \in WakeType
    BY <1>0, <1>6, <2>1 DEF Interfere
  <2>3. /\ active' \in Accounts
        /\ hold' \in BOOLEAN
        /\ since' \in 0 .. Dwell
    <3>1. active' \in Accounts
      BY <1>6 DEF Interfere, TypeOK
    <3>2. hold' \in BOOLEAN
      BY <1>6, Zenon DEF Interfere, TypeOK
    <3>3. since' = 0
      BY <1>6 DEF Interfere
    <3> QED
      BY <1>0, <3>1, <3>2, <3>3
  <2>4. upsets' \in SUBSET {"switched", "held", "died"} /\ Cardinality(upsets') <= MaxUpsets
    BY <1>6 DEF Interfere, Upset, TypeOK
  <2> QED
    BY <1>6, <2>2, <2>3, <2>4 DEF Interfere, TypeOK, WakeType
<1>7. CASE Tick
  <2>1. record' \in [active : BOOLEAN, known : BOOLEAN, age : 0 .. Dwell]
    BY <1>7, OlderType DEF Tick, TypeOK
  <2>2. since' \in 0 .. Dwell
    BY <1>7, OlderType DEF Tick, Followed, TypeOK
  <2> QED
    BY <1>7, <2>1, <2>2 DEF Tick, TypeOK
<1>8. CASE Settle
  BY <1>8 DEF Settle, TypeOK
<1>9. CASE UNCHANGED vars
  BY <1>9 DEF vars, TypeOK
<1> QED
  BY <1>1, <1>2, <1>3, <1>4, <1>5, <1>6, <1>7, <1>8, <1>9 DEF Next

(* decision.rs, critical.rs: every variable of the wakes, of what they     *)
(* read and of what critical mode remembers has its type; so every choice  *)
(* among the accounts finds one.                                           *)
THEOREM TypeCorrect == Spec => []TypeOK
  BY InitTypes, NextTypes, PTL DEF Spec

-----------------------------------------------------------------------------
(* The dwell time *)

(* While nobody interferes and no wake dies, a wake leaves the account it  *)
(* decided for, and what critical mode remembers of the last selection is  *)
(* no older than it is, unless a wake has just moved and not yet saved.    *)
DwellInv ==
  upsets = {} =>
    /\ wake.at = "switching" => wake.from = active
    /\ \/ ~ record.known \/ record.age <= since
       \/ wake.at = "saving" /\ wake.switched

LEMMA NextDwell == TypeOK /\ DwellInv /\ [Next]_vars => DwellInv'
<1> SUFFICES ASSUME TypeOK, DwellInv, [Next]_vars, upsets' = {} PROVE DwellInv'
  BY DEF DwellInv
<1>0. Dwell \in Nat /\ record.age \in 0 .. Dwell /\ since \in 0 .. Dwell /\ wake \in WakeType
  BY TypeParts, ThresholdsAssumption DEF TypeOK
<1>1. CASE Wake
  BY <1>1 DEF Wake, DwellInv, Asleep
<1>2. CASE Switch
  BY <1>2 DEF Switch, DwellInv, Asleep
<1>3. CASE Save
  <2>1. record' = [active |-> Critical(record), known |-> TRUE, age |-> SelectedAt(wake.switched)]
        /\ wake' = Asleep /\ since' = since /\ upsets' = upsets /\ wake.at = "saving"
    BY <1>3 DEF Save
  <2>2. SelectedAt(wake.switched) <= since
    BY <1>0, <2>1 DEF SelectedAt, DwellInv
  <2> QED
    BY <2>1, <2>2 DEF DwellInv, Asleep
<1>4. CASE Die
  BY <1>4 DEF Die, Upset
<1>5. ASSUME NEW a \in Accounts, Observe(a) PROVE DwellInv'
  BY <1>5 DEF Observe, DwellInv
<1>6. CASE Interfere
  BY <1>6 DEF Interfere, Upset
<1>7. CASE Tick
  <2>1. record'.known = record.known /\ record'.age = Older(record.age)
    BY <1>7 DEF Tick, TypeOK
  <2>2. since' = Older(since)
    BY <1>7 DEF Tick, Followed
  <2>3. record.age <= since => record'.age <= since'
    BY <1>0, <2>1, <2>2 DEF Older
  <2> QED
    BY <1>7, <2>1, <2>3 DEF Tick, DwellInv, Asleep
<1>8. CASE Settle
  BY <1>8 DEF Settle, DwellInv
<1>9. CASE UNCHANGED vars
  BY <1>9 DEF vars, DwellInv
<1> QED
  BY <1>1, <1>2, <1>3, <1>4, <1>5, <1>6, <1>7, <1>8, <1>9 DEF Next

(* A wake that switches leaves the account it decided for. *)
Aimed == wake.at = "switching" => wake.to # wake.from

LEMMA NextAimed == TypeOK /\ Aimed /\ [Next]_vars => Aimed'
<1> SUFFICES ASSUME TypeOK, Aimed, [Next]_vars PROVE Aimed'
  OBVIOUS
<1>0. wake \in WakeType
  BY TypeParts
<1>1. CASE Wake
  BY <1>1 DEF Wake, Aimed
<1>2. CASE Switch
  BY <1>2 DEF Switch, Aimed, Asleep
<1>3. CASE Save \/ Die
  BY <1>3 DEF Save, Die, Aimed, Asleep
<1>4. CASE (\E a \in Accounts : Observe(a)) \/ Tick \/ Settle \/ UNCHANGED vars
  BY <1>4 DEF Observe, Tick, Settle, Aimed, vars
<1>5. CASE Interfere
  <2>1. CASE wake' = wake
    BY <2>1 DEF Aimed
  <2>2. CASE wake.at = "switching" /\ wake' = [wake EXCEPT !.overtaken = TRUE]
    <3>1. wake'.at = wake.at /\ wake'.from = wake.from /\ wake'.to = wake.to
      BY <1>0, <2>2, WakeIs
    <3> QED
      BY <3>1 DEF Aimed
  <2> QED
    BY <1>5, <2>1, <2>2 DEF Interfere
<1> QED
  BY <1>1, <1>2, <1>3, <1>4, <1>5 DEF Next

(* A move is the step of a wake that switches. *)
LEMMA MovesSwitch ==
  ASSUME TypeOK, [Next]_vars, Moves
  PROVE  /\ wake.at = "switching" /\ active' = wake.to /\ active' # active
         /\ Proposed(wake.from, record) = wake.to
         /\ wake.from \in Accounts /\ wake.to \in Accounts
         /\ UNCHANGED <<reading, record, upsets>>
<1>0. wake \in WakeType
  BY TypeParts
<1>1. wake.at = "switching" /\ wake'.at = "saving" /\ active' # active
  BY DEF Moves
<1>2. Switch
  <2>1. ~ Wake /\ ~ Save /\ ~ Die /\ ~ Tick /\ ~ Settle
    BY <1>1 DEF Wake, Save, Die, Tick, Settle, Asleep
  <2>2. \A a \in Accounts : ~ Observe(a)
    BY <1>1 DEF Observe
  <2>3. ~ Interfere
    BY <1>0, <1>1, WakeIs DEF Interfere
  <2>4. ~ UNCHANGED vars
    BY <1>1 DEF vars
  <2> QED
    BY <2>1, <2>2, <2>3, <2>4 DEF Next
<1> QED
  BY <1>0, <1>1, <1>2, WakeIs DEF Switch

(* critical.rs (capacity.md, "Dwell and a required advantage prevent       *)
(* constant bouncing"): while only the wakes switch and none dies before   *)
(* it has saved, critical mode leaves an account that can be used only     *)
(* when it has been active for the dwell time, and only for one that has   *)
(* more left.                                                              *)
THEOREM DwellAlwaysKept == Spec => DwellKept
<1>1. Init => DwellInv
  BY DEF Init, DwellInv, Asleep
<1>2. TypeOK /\ DwellInv /\ [Next]_vars => [upsets = {} => Dwelt]_vars
  <2> SUFFICES ASSUME TypeOK, DwellInv, [Next]_vars, upsets = {},
                      Moves, Critical(record), active \in Candidates
               PROVE  Left(active') > Left(active) /\ since >= Dwell
    BY DEF Dwelt
  <2>1. /\ wake.at = "switching" /\ active' = wake.to /\ active' # active
        /\ Proposed(wake.from, record) = wake.to
    BY MovesSwitch
  <2>2. wake.from = active
    BY <2>1 DEF DwellInv
  <2>3. ReadingsTyped /\ record.age \in 0 .. Dwell /\ since \in 0 .. Dwell /\ Dwell \in Nat
    BY TypeParts, ThresholdsAssumption DEF TypeOK
  <2>4. record.known /\ record.age >= Dwell /\ Left(wake.to) > Left(active)
    BY <2>1, <2>2, <2>3, CriticalIs
  <2>5. record.age <= since
    BY <2>1, <2>4 DEF DwellInv
  <2> QED
    BY <2>1, <2>3, <2>4, <2>5
<1> QED
  BY <1>1, <1>2, InitTypes, NextTypes, NextDwell, PTL DEF Spec, DwellKept

(* decision.rs (architecture.md, "Keep reserve accounts behind work        *)
(* accounts"): an account is moved to only if its reading is fresh and     *)
(* says that something is left, and a reserve account only if no work      *)
(* account may be used.  The floor of critical mode must not be above the  *)
(* ordinary margin, which no check of a policy asks for.                   *)
THEOREM BestTaken ==
  ASSUME Floor <= Margin
  PROVE  Spec => TakenWell
<1> DEFINE Well ==
      /\ reading[active'].fresh /\ Left(active') > 0
      /\ active' \in Reserve =>
           \A a \in Work : ~ (reading[a].fresh /\ Left(a) >= Margin /\ Left(a) > 0)
<1>1. TypeOK /\ Aimed /\ [Next]_vars => [Moves => Well]_vars
  <2> SUFFICES ASSUME TypeOK, Aimed, [Next]_vars, Moves PROVE Well
    OBVIOUS
  <2> DEFINE to == wake.to
             may == Eligible(Critical(record))
  <2>1. /\ wake.at = "switching" /\ active' = to /\ Proposed(wake.from, record) = to
        /\ wake.from \in Accounts /\ to \in Accounts
    BY MovesSwitch
  <2>2. ReadingsTyped
    BY TypeParts
  <2>3. to # NoAccount /\ to # wake.from
    BY <2>1, AccountsAssumption DEF Aimed
  <2>4. /\ reading[to].fresh /\ Left(to) > 0
        /\ to \in Reserve => to \in may /\ \A b \in may \ {to} : Before(to, b)
    BY <2>1, <2>2, <2>3, ProposedIs
  <2>5. ASSUME to \in Reserve, NEW a \in Work,
               reading[a].fresh, Left(a) >= Margin, Left(a) > 0
        PROVE  FALSE
    <3>1. a \in Accounts /\ a \notin Reserve
      BY DEF Work
    <3>2. Left(a) \in Nat /\ Floor \in Nat /\ Margin \in Nat
      BY <2>2, <3>1, BoundType, LeftType, ThresholdsAssumption
    <3>3. a \in may
      BY <2>5, <3>1, <3>2 DEF Eligible
    <3>4. Before(to, a)
      BY <2>4, <2>5, <3>1, <3>3
    <3> QED
      BY <2>5, <3>1, <3>4 DEF Before, Work
  <2> QED
    BY <2>1, <2>4, <2>5
<1>2. Init => Aimed
  BY DEF Init, Aimed, Asleep
<1> QED
  BY <1>1, <1>2, InitTypes, NextTypes, NextAimed, PTL DEF Spec, TakenWell

-----------------------------------------------------------------------------
(* Permission: what any actor may do, under any settings                    *)

LEMMA DistinctRows ==
  ASSUME NEW rows \in Seq(Row)
  PROVE  /\ DOMAIN Distinct(rows) = DOMAIN rows /\ IsFiniteSet(DOMAIN rows)
         /\ \A i \in DOMAIN rows : /\ Distinct(rows)[i].id = rows[i].id
                                   /\ Distinct(rows)[i].identity = rows[i].identity
         /\ \A id : Rows(Distinct(rows), id) = Rows(rows, id)
<1>1. DOMAIN Distinct(rows) = DOMAIN rows
  BY DEF Distinct
<1>2. IsFiniteSet(DOMAIN rows)
  <2>1. DOMAIN rows = 1 .. Len(rows) /\ Len(rows) \in Nat
    OBVIOUS
  <2> QED
    BY <2>1, FS_Interval
<1>3. ASSUME NEW i \in DOMAIN rows
      PROVE  Distinct(rows)[i].id = rows[i].id /\ Distinct(rows)[i].identity = rows[i].identity
  <2>1. rows[i] \in Row
    OBVIOUS
  <2>2. \E reason : Distinct(rows)[i] = [rows[i] EXCEPT !.reason = reason] \/ Distinct(rows)[i] = rows[i]
    BY DEF Distinct
  <2> QED
    BY <2>1, <2>2 DEF Row
<1>4. \A id : Rows(Distinct(rows), id) = Rows(rows, id)
  BY <1>1, <1>3 DEF Rows
<1> QED
  BY <1>1, <1>2, <1>3, <1>4

(* Two different members make a set larger than one.                        *)
LEMMA TwoMembers ==
  ASSUME NEW S, IsFiniteSet(S), NEW i \in S, NEW j \in S, i # j
  PROVE  Cardinality(S) > 1
<1>1. {i, j} \subseteq S /\ IsFiniteSet({i, j}) /\ Cardinality({i, j}) = 2
  <2>1. IsFiniteSet({i}) /\ Cardinality({i}) = 1
    BY FS_Singleton
  <2>2. {i, j} = {i} \cup {j} /\ j \notin {i}
    OBVIOUS
  <2>3. IsFiniteSet({i} \cup {j}) /\ Cardinality({i} \cup {j}) = Cardinality({i}) + 1
    BY <2>1, <2>2, FS_AddElement
  <2> QED
    BY <2>1, <2>2, <2>3
<1>2. Cardinality({i, j}) <= Cardinality(S) /\ Cardinality(S) \in Nat
  BY <1>1, FS_Subset, FS_CardinalityType
<1> QED
  BY <1>1, <1>2

(* An account that is bound is one row, and no other row is of its          *)
(* subscription.                                                            *)
LEMMA BoundAlone ==
  ASSUME NEW rows \in Seq(Row), NEW id, BoundTo(Distinct(rows), id),
         NEW i \in DOMAIN rows, NEW j \in DOMAIN rows, i # j, id \in {rows[i].id, rows[j].id}
  PROVE  /\ rows[i].id # rows[j].id
         /\ rows[i].identity = rows[j].identity => rows[i].identity = Nobody
<1>1. PICK k \in DOMAIN Distinct(rows) : Rows(Distinct(rows), id) = {k} /\ ~ Unbound(Distinct(rows)[k])
  BY DEF BoundTo
<1>2. k \in DOMAIN rows /\ Rows(rows, id) = {k} /\ rows[k] \in Row
  BY <1>1, DistinctRows
<1>3. rows[i].id # rows[j].id
  <2>1. SUFFICES ASSUME rows[i].id = rows[j].id
                 PROVE  FALSE
    OBVIOUS
  <2>2. i \in Rows(rows, id) /\ j \in Rows(rows, id)
    BY <2>1 DEF Rows
  <2> QED
    BY <1>2, <2>2
<1>4. k \in {i, j}
  <2>1. k \in Rows(rows, id)
    BY <1>2
  <2>2. i \in Rows(rows, id) \/ j \in Rows(rows, id)
    BY DEF Rows
  <2> QED
    BY <1>2, <2>2
<1>5. ASSUME rows[i].identity = rows[j].identity, rows[i].identity # Nobody
      PROVE  FALSE
  <2>1. i \in SameIdentity(rows, k) /\ j \in SameIdentity(rows, k)
    BY <1>4, <1>5 DEF SameIdentity
  <2>2. IsFiniteSet(SameIdentity(rows, k))
    <3>1. SameIdentity(rows, k) \subseteq DOMAIN rows
      BY DEF SameIdentity
    <3> QED
      BY <3>1, DistinctRows, FS_Subset
  <2>3. Cardinality(SameIdentity(rows, k)) > 1
    BY <2>1, <2>2, TwoMembers
  <2>4. Distinct(rows)[k].reason \in {"duplicate_observation", "duplicate_subscription"}
    BY <1>2, <2>3 DEF Distinct, Row
  <2> QED
    BY <1>1, <2>4 DEF Unbound
<1> QED
  BY <1>3, <1>5

(* No reason is given only if there is none.                                *)
LEMMA NoReason ==
  ASSUME NEW a, NEW b, NEW c, NEW d, NEW e, FirstReason(<<a, b, c, d, e>>) = Nobody
  PROVE  a = Nobody /\ b = Nobody /\ c = Nobody /\ d = Nobody /\ e = Nobody
<1> DEFINE reasons == <<a, b, c, d, e>>
           Is(i) == reasons[i] # Nobody /\ \A j \in 1 .. i - 1 : reasons[j] = Nobody
<1>1. SUFFICES ASSUME ~ \A i \in DOMAIN reasons : reasons[i] = Nobody
               PROVE  FALSE
  BY DEF reasons
<1>2. \E i \in DOMAIN reasons : Is(i)
  <2>1. DOMAIN reasons = {1, 2, 3, 4, 5}
    OBVIOUS
  <2>2. CASE reasons[1] # Nobody
    BY <2>2
  <2>3. CASE reasons[1] = Nobody /\ reasons[2] # Nobody
    BY <2>3
  <2>4. CASE reasons[1] = Nobody /\ reasons[2] = Nobody /\ reasons[3] # Nobody
    BY <2>4
  <2>5. CASE reasons[1] = Nobody /\ reasons[2] = Nobody /\ reasons[3] = Nobody /\ reasons[4] # Nobody
    BY <2>5
  <2>6. CASE /\ reasons[1] = Nobody /\ reasons[2] = Nobody /\ reasons[3] = Nobody /\ reasons[4] = Nobody
             /\ reasons[5] # Nobody
    BY <2>6
  <2> QED
    BY <1>1, <2>1, <2>2, <2>3, <2>4, <2>5, <2>6
<1>3. reasons[CHOOSE i \in DOMAIN reasons : Is(i)] # Nobody
  <2>1. Is(CHOOSE i \in DOMAIN reasons : Is(i))
    BY <1>2
  <2> QED
    BY <2>1
<1>4. FirstReason(reasons) = reasons[CHOOSE i \in DOMAIN reasons : Is(i)]
  BY <1>1 DEF FirstReason
<1> QED
  BY <1>3, <1>4

(* What a decision that permits is made of.                                 *)
LEMMA PermitShape ==
  ASSUME NEW rows \in Seq(Row), NEW c \in Asking, Permitted(rows, c), c.intent # "control"
  PROVE  /\ ~ c.safetyInvalid
         /\ c.intent = "refresh" => /\ ProviderDecision(rows, c) = Answer(c.previous, Nobody)
                                    /\ BoundTo(Distinct(rows), c.previous)
         /\ c.intent # "refresh" =>
              LET wanted == Wanted(Distinct(rows), c) IN
              /\ ProviderDecision(rows, c) = Answer(wanted.target, Nobody)
              /\ wanted.suppression = Nobody
              /\ c.intent = "rebind" \/ Acting(c) => Settings(c) = Nobody
              /\ c.intent # "observe"
<1> DEFINE decided == ProviderDecision(rows, c)
           wanted == Wanted(Distinct(rows), c)
<1>1. decided.suppression = Nobody
  BY DEF Permitted
<1>2. \A target, suppression : /\ Answer(target, suppression).target = target
                               /\ Answer(target, suppression).suppression = suppression
  BY DEF Answer
<1>3. ~ c.safetyInvalid
  <2>1. SUFFICES ASSUME c.safetyInvalid
                 PROVE  FALSE
    OBVIOUS
  <2>2. decided = Answer(c.proposed, "safety_state_invalid")
    BY <2>1 DEF ProviderDecision
  <2> QED
    BY <1>1, <1>2, <2>2 DEF Nobody
<1>4. CASE c.intent = "refresh"
  <2>1. decided = Refresh(Distinct(rows), c)
    BY <1>3, <1>4 DEF ProviderDecision
  <2>2. BoundTo(Distinct(rows), c.previous) /\ decided = Answer(c.previous, Nobody)
    <3>1. CASE c.previous = Nobody \/ ~ c.identityKnown
      <4>1. decided.suppression = "binding_unknown"
        BY <1>2, <2>1, <3>1 DEF Refresh
      <4> QED
        BY <1>1, <4>1 DEF Nobody
    <3>2. CASE ~ (c.previous = Nobody \/ ~ c.identityKnown) /\ ~ BoundTo(Distinct(rows), c.previous)
      <4>1. decided.suppression = "binding_changed"
        BY <1>2, <2>1, <3>2 DEF Refresh
      <4> QED
        BY <1>1, <4>1 DEF Nobody
    <3>3. CASE ~ (c.previous = Nobody \/ ~ c.identityKnown) /\ BoundTo(Distinct(rows), c.previous)
      BY <2>1, <3>3 DEF Refresh
    <3> QED
      BY <3>1, <3>2, <3>3
  <2> QED
    BY <1>3, <1>4, <2>2
<1>5. CASE c.intent # "refresh"
  <2> DEFINE settings == IF c.intent = "rebind" \/ Acting(c) THEN Settings(c) ELSE Nobody
             unbound == IF c.intent = "rebind" /\ c.previous = Nobody THEN "binding_unknown" ELSE Nobody
             unavailable == IF wanted.target = Nobody THEN "unavailable" ELSE Nobody
             observing == IF c.intent = "observe" THEN "observe_only" ELSE Nobody
             reason == FirstReason(<<settings, wanted.suppression, unbound, unavailable, observing>>)
  <2>1. decided = Answer(wanted.target, reason)
    BY <1>3, <1>5 DEF ProviderDecision
  <2>2. reason = Nobody
    BY <1>1, <1>2, <2>1
  <2>3. settings = Nobody /\ wanted.suppression = Nobody /\ observing = Nobody
    <3> HIDE DEF settings, wanted, unbound, unavailable, observing
    <3> QED
      BY <2>2, NoReason
  <2>4. c.intent # "observe"
    BY <2>3 DEF Nobody
  <2> QED
    BY <1>3, <1>5, <2>1, <2>2, <2>3, <2>4
<1> QED
  BY <1>4, <1>5

(* Nothing against acting has a say in which account is meant.              *)
LEMMA TargetStays ==
  ASSUME NEW rows, NEW c \in Asking, NEW s \in Stricter(c)
  PROVE  /\ s \in Asking
         /\ s.intent = c.intent /\ s.previous = c.previous
         /\ Wanted(rows, s).target = Wanted(rows, c).target
<1>1. /\ s.intent = c.intent /\ s.previous = c.previous /\ s.pin = c.pin /\ s.hold = c.hold
      /\ s.actionSlot = c.actionSlot /\ s.proposed = c.proposed /\ s \in Asking
  <2>0. \/ s = [c EXCEPT !.mode = "monitor"]
        \/ s = [c EXCEPT !.paused = TRUE]
        \/ s = [c EXCEPT !.switching = FALSE]
        \/ s = [c EXCEPT !.actionEnabled = FALSE]
        \/ s = [c EXCEPT !.actionEligible = FALSE]
        \/ s = [c EXCEPT !.actionBlock = TRUE]
        \/ s = [c EXCEPT !.safetyInvalid = TRUE]
        \/ s = [c EXCEPT !.identityKnown = FALSE]
    BY Zenon DEF Stricter
  <2>1. CASE s = [c EXCEPT !.mode = "monitor"]
    BY <2>1 DEF Asking
  <2>2. CASE s = [c EXCEPT !.paused = TRUE]
    BY <2>2 DEF Asking
  <2>3. CASE s = [c EXCEPT !.switching = FALSE]
    BY <2>3 DEF Asking
  <2>4. CASE s = [c EXCEPT !.actionEnabled = FALSE]
    BY <2>4 DEF Asking
  <2>5. CASE s = [c EXCEPT !.actionEligible = FALSE]
    BY <2>5 DEF Asking
  <2>6. CASE s = [c EXCEPT !.actionBlock = TRUE]
    BY <2>6 DEF Asking
  <2>7. CASE s = [c EXCEPT !.safetyInvalid = TRUE]
    BY <2>7 DEF Asking
  <2>8. CASE s = [c EXCEPT !.identityKnown = FALSE]
    BY <2>8 DEF Asking
  <2> QED
    BY <2>0, <2>1, <2>2, <2>3, <2>4, <2>5, <2>6, <2>7, <2>8
<1>2. \A target, suppression : Answer(target, suppression).target = target
  BY DEF Answer
<1>3. ActOn(rows, s).target = c.actionSlot /\ ActOn(rows, c).target = c.actionSlot
  BY <1>1, <1>2 DEF ActOn
<1>4. Pinned(rows, s) = Pinned(rows, c) /\ Held(rows, s) = Held(rows, c) /\ Acting(s) = Acting(c)
  BY <1>1 DEF Pinned, Held, Acting
<1>5. CASE Acting(c)
  <2>1. Wanted(rows, s) = ActOn(rows, s) /\ Wanted(rows, c) = ActOn(rows, c)
    BY <1>1, <1>5 DEF Wanted, Acting
  <2> QED
    BY <1>1, <1>3, <2>1
<1>6. CASE ~ Acting(c)
  <2>1. Wanted(rows, s) = Wanted(rows, c)
    BY <1>1, <1>4, <1>6 DEF Wanted
  <2> QED
    BY <1>1, <2>1
<1> QED
  BY <1>5, <1>6

(* Permission for an operation, or for a pinned admission, is for an        *)
(* account that is bound.                                                   *)
LEMMA WantedBound ==
  ASSUME NEW rows, NEW c \in Asking, Wanted(rows, c).suppression = Nobody,
         Acting(c) \/ (c.intent = "admit" /\ c.pin # Nobody)
  PROVE  BoundTo(rows, Wanted(rows, c).target)
<1>1. \A target, suppression : /\ Answer(target, suppression).target = target
                               /\ Answer(target, suppression).suppression = suppression
  BY DEF Answer
<1>2. CASE Acting(c)
  <2>1. Wanted(rows, c) = ActOn(rows, c)
    BY <1>2 DEF Wanted, Acting
  <2>2. ActOn(rows, c).target = c.actionSlot
    BY <1>1 DEF ActOn
  <2>3. SUFFICES ASSUME ~ BoundTo(rows, c.actionSlot)
                 PROVE  FALSE
    BY <2>1, <2>2
  <2>4. ActOn(rows, c).suppression \in {"action_target_unknown", "binding_changed"}
    BY <1>1, <2>3 DEF ActOn
  <2> QED
    BY <2>1, <2>4 DEF Nobody
<1>3. CASE c.intent = "admit" /\ c.pin # Nobody
  <2>1. Wanted(rows, c) = Pinned(rows, c)
    BY <1>3 DEF Wanted, Acting
  <2>2. BoundTo(rows, c.pin)
    <3>1. SUFFICES ASSUME ~ BoundTo(rows, c.pin)
                   PROVE  FALSE
      OBVIOUS
    <3>2. Wanted(rows, c).suppression = "binding_changed"
      BY <1>1, <2>1, <3>1 DEF Pinned
    <3> QED
      BY <3>2 DEF Nobody
  <2> QED
    BY <1>1, <2>1, <2>2 DEF Pinned
<1> QED
  BY <1>2, <1>3

(* A hold permits an admission to the account in use, and no more.          *)
LEMMA HeldStays ==
  ASSUME NEW rows, NEW c \in Asking, Wanted(rows, c).suppression = Nobody, c.hold,
         c.intent \in {"admit", "rebind"}, c.pin = Nobody \/ c.intent = "rebind"
  PROVE  Wanted(rows, c).target = c.previous /\ c.intent = "admit"
<1>1. \A target, suppression : /\ Answer(target, suppression).target = target
                               /\ Answer(target, suppression).suppression = suppression
  BY DEF Answer
<1>2. Wanted(rows, c) = Held(rows, c)
  BY DEF Wanted, Acting
<1>3. c.previous # Nobody /\ c.previous \in EligibleIds(rows) /\ c.intent # "rebind"
  <2>1. SUFFICES ASSUME c.previous = Nobody \/ c.previous \notin EligibleIds(rows) \/ c.intent = "rebind"
                 PROVE  FALSE
    OBVIOUS
  <2>2. Held(rows, c).suppression \in {"binding_unknown", "held_account_unavailable", "selection_held"}
    BY <1>1, <2>1 DEF Held
  <2> QED
    BY <1>2, <2>2 DEF Nobody
<1> QED
  BY <1>1, <1>2, <1>3 DEF Held

(* Whatever is observed of whichever accounts, and whatever is asked under  *)
(* whatever settings: nothing that speaks against acting opens a way, an    *)
(* ambiguous account is not acted on, a hold moves nobody, and settings     *)
(* that forbid acting leave admissions and a token's refresh.               *)
THEOREM PermissionIsRestrained == TypeOfInputs => PermissionRestrained
<1> SUFFICES ASSUME TypeOfInputs
             PROVE  Restrained(table, context)
  BY DEF PermissionRestrained
<1> DEFINE rows == table
           c == context
           decided == ProviderDecision(rows, c)
           wanted == Wanted(Distinct(rows), c)
<1>0. rows \in Seq(Row) /\ c \in Asking
  BY DEF TypeOfInputs
<1> HIDE DEF rows, c
<1>1. SUFFICES ASSUME Permitted(rows, c), c.intent # "control"
               PROVE  /\ \A s \in Stricter(c) : Permitted(rows, s) => ProviderDecision(rows, s) = decided
                      /\ c.intent \in {"refresh", "warm", "probe"} \/ (c.intent = "admit" /\ c.pin # Nobody) =>
                           \A i, j \in DOMAIN rows :
                             decided.target \in {rows[i].id, rows[j].id} /\ i # j =>
                               /\ rows[i].id # rows[j].id
                               /\ rows[i].identity = rows[j].identity => rows[i].identity = Nobody
                      /\ c.hold /\ c.intent \in {"admit", "rebind"} /\ (c.pin = Nobody \/ c.intent = "rebind") =>
                           decided.target = c.previous /\ c.intent = "admit"
                      /\ c.paused \/ c.mode # "automate" \/ c.actionBlock => c.intent \in {"admit", "refresh"}
  BY DEF Restrained, rows, c
<1>2. \A target, suppression : Answer(target, suppression).target = target
  BY DEF Answer
<1>3. /\ c.intent = "refresh" => decided = Answer(c.previous, Nobody) /\ BoundTo(Distinct(rows), c.previous)
      /\ c.intent # "refresh" =>
           /\ decided = Answer(wanted.target, Nobody) /\ wanted.suppression = Nobody
           /\ c.intent = "rebind" \/ Acting(c) => Settings(c) = Nobody
           /\ c.intent # "observe"
  <2> HIDE DEF decided
  <2> QED
    BY <1>0, <1>1, PermitShape DEF decided
<1>4. ASSUME NEW s \in Stricter(c), Permitted(rows, s)
      PROVE  ProviderDecision(rows, s) = decided
  <2>1. /\ s \in Asking /\ s.intent = c.intent /\ s.previous = c.previous
        /\ Wanted(Distinct(rows), s).target = wanted.target
    BY <1>0, TargetStays
  <2>2. /\ c.intent = "refresh" => ProviderDecision(rows, s) = Answer(s.previous, Nobody)
        /\ c.intent # "refresh" => ProviderDecision(rows, s) = Answer(Wanted(Distinct(rows), s).target, Nobody)
    BY <1>0, <1>1, <1>4, <2>1, PermitShape
  <2> HIDE DEF decided, wanted
  <2> QED
    BY <1>3, <2>1, <2>2
<1>5. ASSUME c.intent \in {"refresh", "warm", "probe"} \/ (c.intent = "admit" /\ c.pin # Nobody),
             NEW i \in DOMAIN rows, NEW j \in DOMAIN rows,
             decided.target \in {rows[i].id, rows[j].id}, i # j
      PROVE  /\ rows[i].id # rows[j].id
             /\ rows[i].identity = rows[j].identity => rows[i].identity = Nobody
  <2>1. BoundTo(Distinct(rows), decided.target)
    <3> HIDE DEF decided
    <3>1. CASE c.intent = "refresh"
      BY <1>2, <1>3, <3>1
    <3>2. CASE c.intent # "refresh"
      <4>1. Acting(c) \/ (c.intent = "admit" /\ c.pin # Nobody)
        BY <1>5, <3>2 DEF Acting
      <4>2. wanted.suppression = Nobody /\ decided.target = wanted.target
        BY <1>2, <1>3, <3>2
      <4> QED
        BY <1>0, <4>1, <4>2, WantedBound
    <3> QED
      BY <3>1, <3>2
  <2> HIDE DEF decided
  <2> QED
    BY <1>0, <1>5, <2>1, BoundAlone
<1>6. ASSUME c.hold, c.intent \in {"admit", "rebind"}, c.pin = Nobody \/ c.intent = "rebind"
      PROVE  decided.target = c.previous /\ c.intent = "admit"
  <2>1. wanted.suppression = Nobody /\ decided.target = wanted.target
    BY <1>2, <1>3, <1>6
  <2> QED
    BY <1>0, <1>6, <2>1, HeldStays
<1>7. ASSUME c.paused \/ c.mode # "automate" \/ c.actionBlock
      PROVE  c.intent \in {"admit", "refresh"}
  <2>1. Settings(c) # Nobody
    BY <1>7 DEF Settings, Nobody
  <2>2. c.intent \in Intents
    BY <1>0 DEF Asking
  <2> QED
    BY <1>1, <1>3, <2>1, <2>2 DEF Intents, Acting
<1> QED
  BY <1>4, <1>5, <1>6, <1>7
=============================================================================
