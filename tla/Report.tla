------------------------------- MODULE Report -------------------------------
(***************************************************************************)
(* What a wake says of the Claude accounts once it has done what it does   *)
(* (native/src/claude_tick.rs, claude.rs, cswap.rs): who has to sign in    *)
(* again, why nothing can be used, why a window was not opened, what the   *)
(* decision makes of every account.  Each is worked out on its own, from   *)
(* what was read at first, some of it after a request that may have taken  *)
(* a minute and a half.                                                    *)
(*                                                                         *)
(* Critical mode is off, one margin stands for several, and the limits of  *)
(* Models are ranked on.  What the last look under the lock permits, and   *)
(* what becomes of a request, is given with the wake (see ControlGate and  *)
(* ClaudeWarming).  A wake whose switch fails says nothing.                *)
(***************************************************************************)
EXTENDS Views

CONSTANTS StaleAfter,          \* staleQuarantineS
          SpentAfter,          \* how many tests may fail: 2
          Floor,               \* warmFloorMin
          Near,                \* SIGN_IN_WARN_SECONDS
          WarmMin, WarmMinWork,    \* warmMin7d, warmMin7dWork
          Cycle, Arc,          \* CYCLE_MINUTES, warmPhaseWindowMin
          Grid                 \* how far from its turn a window may be: 10 minutes

Turns == INSTANCE Phases

-----------------------------------------------------------------------------
(* Sign-ins *)

(* A file is absent, cannot be read, or holds a sign-in, which may state    *)
(* the day it ends.                                                         *)
Mark(file) == IF file.holds \in {"nothing", "odd"} THEN file.holds ELSE file.token
Named(mark) == mark \notin {"nothing", "odd"}
SignInEnd(file) == IF file.holds = "sign-in" THEN file.ends ELSE Unread

(* Claude Code's own copy is the newer one; a Mac shows neither. *)
ActiveEnd(own, stored, mac) ==
  IF mac THEN Unread ELSE IF SignInEnd(own) # Unread THEN SignInEnd(own) ELSE SignInEnd(stored)

(* The session renewed its own copy, which is gone, and the stored one is   *)
(* as it was.                                                               *)
Unrenewed(ok, before, after, cleared) == ok /\ cleared # "absent" /\ Named(before) /\ before = after

-----------------------------------------------------------------------------
(* What the wake makes of an account *)

Slot(a, at) ==
  LET slot == ClaudeSlot0(IF a.off THEN [a.row EXCEPT !.status = "disabled", !.five = Absent, !.seven = Absent]
                          ELSE a.row, at)
  IN [slot EXCEPT !.scoped = IF slot.status \in {"disabled", "unsupported"} THEN <<>> ELSE a.scoped]

(* The limits of the models alone, as a decision would see them. *)
ModelWorth(windows, seen, at) ==
  Worth(ProviderAccount([status |-> "ok", seen |-> seen, blocked |-> Good, enabled |-> TRUE, bound |-> TRUE,
                         windows |-> [m \in Models |-> [windows[m] EXCEPT !.seen = seen]]], {}, at))
ModelReason(slot, at) ==
  LET worth == ModelWorth(ClaudeObservation(slot).windows, IF slot.seen = Unread THEN at ELSE slot.seen, at) IN
  CASE Models = {} \/ worth = "eligible" -> Good
    [] OTHER -> IF worth = "below_margin" THEN "model_below_margin"
                ELSE IF worth = "reset_unconfirmed" THEN "model_reset_unconfirmed" ELSE "model_quota_unknown"

Read(known, slot, model, seen, warmable, ends) ==
  [known |-> known, slot |-> [slot EXCEPT !.fresh = @ /\ seen.reason = Good], model |-> model,
   five |-> seen.shortLeft, seven |-> seen.weeklyLeft, worth |-> Worth(seen), warmable |-> warmable, ends |-> ends]
EntryOf(a, slot, model, ends, at) ==
  Read(a.registered, slot, model, ProviderAccount([ClaudeObservation(slot) EXCEPT !.blocked = model], {}, at),
       slot.fresh /\ Valid([ForWarm(slot) EXCEPT !.blocked = model], {}, at), ends)
Entry(w, n) ==
  LET a == w.accounts[n]
      slot == Slot(a, w.at)
  IN EntryOf(a, slot, ModelReason(slot, w.at),
             IF a.off THEN Unread
             ELSE IF w.active = n THEN ActiveEnd(a.own, a.stored, w.mac) ELSE SignInEnd(a.stored), w.at)

(* Test-Ok *)
TestOk(e) == e.known /\ e.slot.fresh /\ e.model = Good /\ Test(e.five, e.seven, e.slot.unlimited5h)

-----------------------------------------------------------------------------
(* Who is called for *)

NeedsHuman == {"relogin_required", "no_credentials"}
Human(e) == e.known /\ e.slot.status \in NeedsHuman
Unchecked(a) == a.lastGood > StaleAfter       \* quarantine_stale
Dead(a) == a.dead.fails >= SpentAfter /\ a.dead.mark = Mark(a.stored)

Ended(es, now) == {n \in DOMAIN es : es[n].known /\ es[n].ends \in 0 .. now}
Ending(es, now) == {n \in DOMAIN es : es[n].known /\ es[n].ends > now /\ es[n].ends - now <= Near}

(* Slip: an account whose sign-in has ended is called for twice. *)
CallsTwice(w, es) ==
  LET broken == {n \in DOMAIN es : Human(es[n])}
      stuck == {n \in broken : Unchecked(w.accounts[n])}
      spent == {n \in stuck : Dead(w.accounts[n])}
  IN [relogin |-> (broken \ stuck) \union spent, ended |-> Ended(es, w.acting), stale |-> stuck \ spent]

(* A verdict that is merely no longer tested is not yet a broken account;   *)
(* one that failed its tests is.  What has ended is neither.                *)
Calls(w, es) ==
  LET ended == Ended(es, w.acting)
      broken == {n \in DOMAIN es : Human(es[n])}
      stuck == {n \in broken : Unchecked(w.accounts[n])}
      spent == {n \in stuck \ ended : Dead(w.accounts[n])}
  IN [relogin |-> (broken \ (stuck \union ended)) \union spent, ended |-> ended, stale |-> stuck \ (ended \union spent)]
Called(calls) == calls.relogin \union calls.ended \union calls.stale

-----------------------------------------------------------------------------
(* What the wake does *)

First(S) == IF S = {} THEN Nobody ELSE Min(S)
Only(n) == {n} \ {Nobody}
Any(es) == \E n \in DOMAIN es : TestOk(es[n])
Since(at, length, now) == at = Unread \/ now - at >= length
Acting(w, kind) == w.automated /\ kind \in w.enabled

Target(w, es) ==
  LET eligible == {n \in DOMAIN es : es[n].known /\ es[n].worth = "eligible"}
      alike == eligible # {} /\ (Min(eligible) \in w.reserve <=> w.active \in w.reserve)
      proposed == Proposed(eligible, w.active, w.stays /\ alike)
  IN IF proposed = w.active THEN Nobody ELSE proposed
Switched(w, target) == target # Nobody /\ Acting(w, "switch") /\ ~ w.held /\ "switch" \in w.permitted

(* Accounts with no window to open have no turn. *)
Schedule(w, es) ==
  [pattern |-> w.pattern, warmGroup |-> 2, weights |-> [n \in DOMAIN es |-> 1],
   prefer |-> SelectSeq([n \in DOMAIN es |-> n], LAMBDA n : ~ (es[n].known /\ es[n].slot.unlimited5h))]
TurnIn(schedule, n) ==
  IF Turns!Scheduled(schedule) /\ \E i \in DOMAIN schedule.prefer : schedule.prefer[i] = n
  THEN Turns!Offset(schedule, CHOOSE i \in DOMAIN schedule.prefer : schedule.prefer[i] = n) ELSE Unread
Turn(w, es, n) == IF Acting(w, "warm") THEN TurnIn(Schedule(w, es), n) ELSE Unread
Waits(turn, now) == turn # Unread /\ ~ Turns!AtPhase(turn, now)

(* A reserve account keeps the stricter guard. *)
WeekGuard(w, e, n) == e.seven # Unread /\ e.seven < (IF n \in w.reserve THEN WarmMin ELSE WarmMinWork)

Warmable(w, es, n) ==
  LET e == es[n]
      a == w.accounts[n]
  IN /\ e.known /\ e.warmable /\ e.slot.cold
     /\ n \notin Ended(es, w.acting)
     /\ ~ WeekGuard(w, e, n)
     /\ Since(a.warmed, Floor, w.acting)
     /\ Any(es) => ~ Waits(Turn(w, es, n), w.acting)
     /\ e.model = Good /\ "warm" \notin a.blocked /\ ~ a.pending
Warmed(w, es) ==
  IF Acting(w, "warm") /\ "warm" \in w.permitted THEN First({n \in DOMAIN es : Warmable(w, es, n)}) ELSE Nobody

Tested(w, es, calls) ==
  IF Acting(w, "probe") /\ "probe" \in w.permitted
  THEN First({n \in calls.stale : /\ Since(w.accounts[n].tested, StaleAfter, w.acting)
                                  /\ "probe" \notin w.accounts[n].blocked})
  ELSE Nobody

Deed(w, target, warmed, tested) ==
  [switched |-> Switched(w, target),
   target |-> target,
   active |-> IF Switched(w, target) THEN target ELSE w.active,
   warmed |-> warmed, tested |-> tested,
   unrenewed |-> /\ warmed # Nobody
                 /\ Unrenewed("warm" \in w.works, Mark(w.accounts[warmed].stored), w.after, w.cleared)]

-----------------------------------------------------------------------------
(* What it says *)

Part(said, kind, who) == IF said THEN <<[kind |-> kind, who |-> who]>> ELSE <<>>

(* Slip: what was not reported is stale as well. *)
StandsUntold(es) ==
  IF ~ \E n \in DOMAIN es : es[n].known /\ es[n].slot.fresh THEN "stale"
  ELSE IF ~ Any(es) THEN "no headroom" ELSE ""

(* An account that is switched off is not one that is waited for. *)
Stands(es) ==
  LET unreported == {n \in DOMAIN es : es[n].known /\ es[n].slot.unreported}
      registered == {n \in DOMAIN es : es[n].known /\ es[n].slot.status # "disabled"}
  IN IF ~ \E n \in DOMAIN es : es[n].known /\ es[n].slot.fresh
     THEN IF unreported # {} /\ unreported = registered THEN "unreported" ELSE "stale"
     ELSE IF ~ Any(es) THEN "no headroom" ELSE ""

(* A call for a person comes before everything else. *)
Verdict(w, es, calls, deed) ==
  (IF Called(calls) # {}
   THEN Part(calls.relogin # {}, "relogin", calls.relogin) \o Part(calls.ended # {}, "ended", calls.ended)
          \o Part(calls.stale # {}, "quarantine", calls.stale)
   ELSE Part(Stands(es) # "", Stands(es), {}))
  \o Part(w.held, "held", Only(deed.target))
  \o Part(Ending(es, w.acting) # {}, "ending", Ending(es, w.acting))
  \o Part(deed.switched, "switched", {deed.active})
  \o Part(deed.warmed # Nobody /\ "warm" \in w.works, "requested", {deed.warmed})
  \o Part(deed.warmed # Nobody /\ "warm" \notin w.works, "failed", {deed.warmed})
  \o Part(deed.unrenewed, "unrenewed", Only(deed.warmed))
  \o Part(deed.tested # Nobody, IF "probe" \in w.works THEN "revived" ELSE "still dead", {deed.tested})

(* Slip: the account that waits for its turn is told as one that has none. *)
WhyColdUnphased(w, e, n, turn) ==
  IF "warm" \notin w.enabled THEN "warming off" ELSE IF WeekGuard(w, e, n) THEN "7d guard" ELSE "warming next tick"

WhyCold(w, e, n, turn) ==
  IF "warm" \notin w.enabled THEN "warming off"
  ELSE IF WeekGuard(w, e, n) THEN "7d guard"
  ELSE IF Waits(turn, w.saying) THEN "held for phase" ELSE "warming next tick"

(* What stands beside an account: anything that is not "ok" is named. *)
Flag(w, es, calls, n) ==
  LET e == es[n] IN
  IF ~ e.known THEN "not registered"
  ELSE IF Human(e) /\ Unchecked(w.accounts[n]) /\ ~ (n \in calls.relogin) THEN "unchecked"
  ELSE IF Human(e) THEN "relogin"
  ELSE IF e.slot.status # "ok" THEN e.slot.status
  ELSE IF e.slot.unreported THEN "incomplete"
  ELSE IF ~ e.slot.fresh THEN "stale"
  ELSE IF e.slot.cold THEN WhyCold(w, e, n, Turn(w, es, n)) ELSE ""

(* Slip: the way round the cycle is not taken. *)
ApartOneWay(one, other) == IF one > other THEN one - other ELSE other - one
Apart(one, other) ==
  LET distance == IF one > other THEN one - other ELSE other - one IN
  IF distance > Cycle \div 2 THEN Cycle - distance ELSE distance
OffPhase(w, es) ==
  IF Acting(w, "warm") /\ Turns!Scheduled(Schedule(w, es))
  THEN {n \in DOMAIN es : /\ es[n].known /\ es[n].slot.reset5h # Unread
                          /\ Apart(es[n].slot.reset5h % Cycle, Max({0, Turn(w, es, n)})) > Grid}
  ELSE {}

Reason(w, e, n) ==
  IF ~ e.known THEN "not_observed"
  ELSE IF e.slot.unreported THEN "five_hour_not_reported"
  ELSE IF ~ e.slot.fresh THEN "stale_or_unavailable"
  ELSE IF e.model # Good THEN e.model
  ELSE IF ~ TestOk(e) THEN "below_margin_or_unknown"
  ELSE IF n \in w.reserve THEN "eligible_reserve" ELSE "eligible_work"

Why(w, deed) ==
  IF w.held THEN "switch held"
  ELSE IF ~ Acting(w, "switch") THEN "switching disabled"
  ELSE IF deed.switched THEN "switched" ELSE "retained"

(* status.json, of an account *)
Payload(w, es, n) ==
  LET e == es[n]
      a == w.accounts[n]
  IN IF ~ e.known THEN [registered |-> FALSE]
     ELSE [registered |-> TRUE, slot |-> e.slot, signInEndsAt |-> e.ends, modelBlock |-> e.model,
           lastGoodAt |-> IF a.lastGood = Unread THEN Unread ELSE w.at - a.lastGood,
           warmOutcome |-> a.pending /\ ~ e.slot.unlimited5h,
           actionBlock |-> "warm" \in a.blocked /\ ~ e.slot.unlimited5h]

Telling(w, es, calls, deed) ==
  [entries |-> es, calls |-> calls, deed |-> deed, verdict |-> Verdict(w, es, calls, deed),
   flags |-> [n \in DOMAIN es |-> Flag(w, es, calls, n)], offPhase |-> OffPhase(w, es),
   reasons |-> [n \in DOMAIN es |-> Reason(w, es[n], n)], why |-> Why(w, deed),
   slots |-> [n \in DOMAIN es |-> Payload(w, es, n)],
   acted |-> deed.switched \/ deed.warmed # Nobody \/ deed.unrenewed]
Done(w, es, calls) == Telling(w, es, calls, Deed(w, Target(w, es), Warmed(w, es), Tested(w, es, calls)))
Reported(w, es) == Done(w, es, Calls(w, es))

-----------------------------------------------------------------------------
(* Properties *)

Says(r, kind) == \E i \in DOMAIN r.verdict : r.verdict[i].kind = kind
Eligible(r) == {n \in DOMAIN r.reasons : r.reasons[n] \in {"eligible_work", "eligible_reserve"}}

(* A person is called for once, for every account only a person can mend,   *)
(* before anything else is said; and such an account is sent nothing.  What *)
(* stands beside it calls for the same.                                     *)
PersonCalled(w, r) ==
  LET calls == r.calls
      lost == calls.relogin \union calls.ended
  IN /\ Called(calls) = {n \in DOMAIN r.entries : Human(r.entries[n])} \union Ended(r.entries, w.acting)
     /\ lost \intersect calls.stale = {} /\ calls.relogin \intersect calls.ended = {}
     /\ (Only(r.deed.warmed) \union Only(r.deed.tested)) \intersect lost = {}
     /\ Only(r.deed.tested) \subseteq calls.stale
     /\ Called(calls) # {} => r.verdict[1].kind \in {"relogin", "ended", "quarantine"}
     /\ \A n \in DOMAIN r.flags :
          /\ n \in calls.relogin => r.flags[n] = "relogin"
          /\ n \in calls.stale => r.flags[n] = "unchecked"
          /\ r.flags[n] \in {"relogin", "unchecked"} => n \in Called(calls)

(* The reasons name as eligible the accounts the decision took for it, and  *)
(* whoever decides again on the snapshot takes the same; nothing is said to *)
(* be in the way just when there is one.                                    *)
HeadroomTold(w, r) ==
  LET eligible == Eligible(r)
      there == {n \in DOMAIN r.entries : r.entries[n].known /\ r.entries[n].slot.status # "disabled"}
  IN /\ eligible = {n \in DOMAIN r.entries : r.entries[n].known /\ r.entries[n].worth = "eligible"}
     /\ eligible = {n \in DOMAIN r.entries : r.slots[n].registered /\ ClaudeReason(r.slots[n].slot, w.at) = "eligible"}
     /\ Called(r.calls) = {} =>
          /\ (\E kind \in {"unreported", "stale", "no headroom"} : Says(r, kind)) <=> eligible = {}
          /\ Says(r, "unreported") <=>
               there # {} /\ \A n \in there : r.reasons[n] = "five_hour_not_reported"
     /\ r.deed.switched => r.deed.active \in eligible /\ r.why = "switched"
     /\ r.why = "switched" => r.deed.active # w.active /\ r.acted

(* The account as the report shows it, with nothing in the way that the     *)
(* report does not name, on a wake at the moment of the report.             *)
Again(w, n) ==
  [w EXCEPT !.acting = w.saying, !.accounts[n].warmed = Unread, !.accounts[n].blocked = {}, !.accounts[n].pending = FALSE]

(* What is said of a cold account is what would be done with it.            *)
ColdTold(w, r) ==
  \A n \in DOMAIN r.flags :
    /\ r.flags[n] \in {"7d guard", "warming off", ""} => r.deed.warmed # n
    /\ r.flags[n] = "held for phase" /\ Any(r.entries) => ~ Warmable(Again(w, n), r.entries, n)
    /\ r.flags[n] = "held for phase" /\ ~ Any(r.entries) /\ n \notin Ended(r.entries, w.saying) =>
         Warmable(Again(w, n), r.entries, n)
    /\ r.flags[n] = "warming next tick" /\ n \notin Ended(r.entries, w.saying) => Warmable(Again(w, n), r.entries, n)
    /\ r.deed.warmed = n => r.flags[n] \in {"held for phase", "warming next tick", "stale"}

(* An account without a five-hour limit is not spoken of as if it had one;  *)
(* a window that began within Grid of its turn is in phase.                 *)
WindowsTold(w, r) ==
  \A n \in DOMAIN r.entries :
    LET e == r.entries[n]
        turn == Turn(w, r.entries, n)
        opened == (e.slot.reset5h - turn) % Cycle     \* a cycle before its reset
    IN /\ e.known /\ e.slot.unlimited5h =>
            /\ r.deed.warmed # n /\ n \notin r.offPhase
            /\ ~ r.slots[n].warmOutcome /\ ~ r.slots[n].actionBlock
            /\ turn = Unread
       /\ e.known /\ turn # Unread /\ e.slot.reset5h # Unread =>
            (n \in r.offPhase <=> opened \in Grid + 1 .. Cycle - Grid - 1)

ReportTrue(w, r) == PersonCalled(w, r) /\ HeadroomTold(w, r) /\ ColdTold(w, r) /\ WindowsTold(w, r)

=============================================================================
