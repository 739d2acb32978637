------------------------------- MODULE Notices -------------------------------
(***************************************************************************)
(* What a person is told without asking: the announcements of the tray     *)
(* (native/src/tray.rs, src/tray.ps1) and the accounts offered for parking *)
(* (native/src/overview.rs).  Both are worked out from the snapshot some   *)
(* time after a wake wrote it, by code that shares little with the wake's  *)
(* own report (Report) and the other views (Views).                        *)
(*                                                                         *)
(* Of a pace it is given whether it runs out; of the collector, its health *)
(* (Insights).  Owners who asked for no announcements, and the hours they  *)
(* do not work in, are told alike.                                         *)
(***************************************************************************)
EXTENDS Report

CONSTANT Away      \* how long an account is unread before it is offered: seven days

-----------------------------------------------------------------------------
(* What the snapshot holds of an account, of either kind *)

Seen(status, vouched, seen, ends, lastGood, stream) ==
  [status |-> status, vouched |-> vouched, seen |-> seen, ends |-> ends, lastGood |-> lastGood, stream |-> stream]
NotRegistered == Seen("", FALSE, Unread, Unread, Unread, 0)

ReportView(w, r) ==
  [family |-> "claude", generated |-> w.saying, active |-> r.deed.active, health |-> "collector healthy", incomplete |-> 0,
   disabled |-> {n \in DOMAIN r.slots : w.accounts[n].off}, runsOut |-> DOMAIN r.slots, free |-> {},
   judged |-> DOMAIN r.reasons, eligible |-> Eligible(r),
   slots |-> [n \in DOMAIN r.slots |->
     LET p == r.slots[n] IN
     IF p.registered THEN Seen(p.slot.status, p.slot.fresh, p.slot.seen, p.signInEndsAt, p.lastGoodAt, n) ELSE NotRegistered]]

CodexView(d, tray, at) ==
  [family |-> "codex", generated |-> d.generated, active |-> d.active, health |-> tray.health, incomplete |-> tray.incomplete,
   disabled |-> {i \in DOMAIN d.accounts : d.accounts[i].disabled}, runsOut |-> tray.runsOut, free |-> tray.free,
   judged |-> DOMAIN d.accounts,
   eligible |-> {i \in DOMAIN d.accounts : ~ d.accounts[i].disabled /\ CodexReason(d.accounts[i].slot, at) = "eligible"},
   slots |-> [i \in DOMAIN d.accounts |->
     LET s == d.accounts[i].slot IN Seen(s.status, s.status = "ok", s.seen, Unread, s.seen, d.accounts[i].stream)]]

Lost(family) == IF family = "claude" THEN NeedsHuman ELSE {"authentication_required", "subscription_login_required"}

-----------------------------------------------------------------------------
(* Announcements, by what each is about *)

SignInNotice(ends, now) == ends # Unread /\ ends - now <= Near
Ailing(v) == \/ v.health \in {"collector stalled", "collector overdue"}
             \/ v.health = "provider checks incomplete" /\ v.incomplete >= 2

(* Slip: a sign-in that ends is announced of accounts that are lost only. *)
SignInEndsLost(v, n, now) == v.slots[n].status \in Lost(v.family) /\ SignInNotice(v.slots[n].ends, now)

SignInEnds(v, n, now) == v.slots[n].status \notin Lost(v.family) /\ SignInNotice(v.slots[n].ends, now)
Pacing(v, n, now) == n \in v.runsOut /\ v.slots[n].vouched /\ ~ Stale(v.slots[n].seen, now)

(* view_alerts *)
Announced(v, now) ==
  {<<"collector">> : x \in {y \in {v} : Ailing(y)}}
    \union {<<v.family, "auth", n>> : n \in {m \in DOMAIN v.slots : v.slots[m].status \in Lost(v.family)}}
    \union {<<v.family, "sign-in-end", n>> : n \in {m \in DOMAIN v.slots : SignInEnds(v, m, now)}}
    \union {<<v.family, "weekly", v.slots[n].stream>> : n \in {m \in DOMAIN v.slots : Pacing(v, m, now)}}
    \union {<<v.family, "no-eligible">> :
              x \in {y \in {v} : ~ Stale(y.generated, now) /\ y.judged # {} /\ y.eligible = {}}}

(* Of each provider under its own name; of the collector once. *)
Renamed(key, id) == IF key = <<"collector">> THEN key ELSE <<id>> \o Tail(key)
AllAnnounced(views, now) == UNION {{Renamed(key, id) : key \in Announced(views[id], now)} : id \in DOMAIN views}

(* Select-Hotpl8NewAlerts: what was not announced before, and what will     *)
(* have been.  Slip: what was announced once is never forgotten.            *)
SelectNewForGood(candidates, previous) ==
  [deliver |-> candidates \ previous, state |-> candidates \union previous]
SelectNew(candidates, previous) == [deliver |-> candidates \ previous, state |-> candidates]

(* Show-Hotpl8Tray, every five seconds: in a quiet hour the record is not   *)
(* looked at.  Who dies in between has announced what is not recorded.      *)
Refreshed(step, recorded) ==
  LET new == SelectNew(step.candidates, recorded) IN
  IF ~ step.notify THEN [deliver |-> {}, state |-> recorded]
  ELSE IF step.dies THEN [new EXCEPT !.state = recorded] ELSE new
Refreshes(steps) ==
  LET after[i \in 0 .. Len(steps)] ==
        IF i = 0 THEN [deliver |-> {}, state |-> {}] ELSE Refreshed(steps[i], after[i - 1].state)
  IN [i \in DOMAIN steps |-> after[i].deliver]

-----------------------------------------------------------------------------
(* Get-Hotpl8ParkCandidates *)

(* The login in use is never offered; no recorded reading is no evidence of *)
(* a long absence.  Slip: the login in use is offered as well.              *)
DormantInUse(v, n, now) ==
  v.slots[n].status \in Lost(v.family) /\ v.slots[n].lastGood # Unread /\ now - v.slots[n].lastGood >= Away
Dormant(v, n, now) ==
  /\ v.family = "claude" => n # v.active
  /\ v.slots[n].status \in Lost(v.family)
  /\ v.slots[n].lastGood # Unread /\ now - v.slots[n].lastGood >= Away
Canceled(v, n, now) ==
  v.family = "codex" /\ v.slots[n].status = "ok" /\ n \in v.free /\ ~ Stale(v.slots[n].seen, now)
Offered(v, now) ==
  IF Stale(v.generated, now) THEN {}
  ELSE {n \in DOMAIN v.slots \ v.disabled : Dormant(v, n, now) \/ Canceled(v, n, now)}

-----------------------------------------------------------------------------
(* Properties *)

(* Whom the wake called for, or warned of, is announced for as long as the  *)
(* snapshot stands, once; who is announced is one it would call for now.    *)
CalledAndAnnounced(w, r, v, announced, now) ==
  LET told == {n \in DOMAIN v.slots : {<<"claude", "auth", n>>, <<"claude", "sign-in-end", n>>} \intersect announced # {}}
      due == [w EXCEPT !.acting = now]
  IN /\ Called(r.calls) \union Ending(r.entries, w.acting) \subseteq told
     /\ told \subseteq Called(Calls(due, r.entries)) \union Ending(r.entries, now)
     /\ \A n \in told : Cardinality({<<"claude", "auth", n>>, <<"claude", "sign-in-end", n>>} \intersect announced) = 1
     /\ \A n \in DOMAIN v.slots : <<"claude", "weekly", n>> \in announced => <<"claude", "auth", n>> \notin announced

(* An account that is offered for parking is not the one in use, nor one    *)
(* that may be used: a person is called for, and told so.                   *)
OfferedWell(w, r, offered, announced) ==
  /\ offered \subseteq Called(r.calls) \ {r.deed.active}
  /\ offered \intersect (Eligible(r) \union Only(r.deed.warmed)) = {}
  /\ \A n \in offered : <<"claude", "auth", n>> \in announced

LookedAtAfter(w, r, v, now) ==
  /\ CalledAndAnnounced(w, r, v, Announced(v, now), now)
  /\ OfferedWell(w, r, Offered(v, now), Announced(v, now))
  /\ ~ Stale(w.saying, now) /\ Called(r.calls) = {} =>
       (<<"claude", "no-eligible">> \in Announced(v, now) <=> \E kind \in {"unreported", "stale", "no headroom"} : Says(r, kind))
HeardTruly(w, r, looks) == ReportTrue(w, r) /\ \A now \in looks : LookedAtAfter(w, r, ReportView(w, r), now)
SaidTruly(w, es, looks) == HeardTruly(w, Reported(w, es), looks)       \* es: the entries of its accounts

(* Of Codex: what is announced or offered is shown as such by the other     *)
(* views, which look at the same moment.                                    *)
ToldWithout(d, v, answer, announced, offered, now) ==
  /\ \A i \in DOMAIN v.slots \ v.disabled :
       /\ <<"codex", "auth", i>> \in announced =>
            ~ answer.rows[i].eligible /\ DashboardRow(d, i, now).badge = v.slots[i].status
       /\ i \in offered /\ i \notin v.free => ~ answer.rows[i].eligible /\ <<"codex", "auth", i>> \in announced
       /\ i \in offered => DashboardRow(d, i, now).badge \notin {"STALE", "READ RETRYING"}
  /\ \A i \in v.runsOut : <<"codex", "weekly", v.slots[i].stream>> \in announced =>
       \E j \in v.runsOut : /\ v.slots[j].stream = v.slots[i].stream
                            /\ j \notin v.disabled => DashboardRow(d, j, now).badge \notin {"STALE", "READ RETRYING"}
(* The same accounts under two providers: neither hides what the other's    *)
(* are announced for.                                                       *)
NobodyHidden(announced, both) ==
  Cardinality(both) = 2 * Cardinality(announced \ {<<"collector">>}) + Cardinality(announced \intersect {<<"collector">>})
CodexToldWithout(d, tray, at, now) ==
  LET v == CodexView(d, tray, at) IN
  /\ NobodyHidden(Announced(v, now), AllAnnounced([id \in {"codex", "fictional"} |-> v], now))
  /\ ToldWithout(d, v, Answer(d, now), Announced(v, now), Offered(v, now), now)
  /\ <<"codex", "no-eligible">> \in Announced(v, at) => \A i \in DOMAIN d.accounts : ~ Answer(d, at).rows[i].eligible

(* What goes on is announced when it comes up, whoever was told of what     *)
(* before, and not again until it was seen to be over.                      *)
ToldAt(steps, delivered, key, i) ==
  LET told(j) == key \in delivered[j] /\ ~ steps[j].dies
      over(j) == steps[j].notify /\ ~ steps[j].dies /\ key \notin steps[j].candidates
      standing == \E j \in 1 .. i - 1 : told(j) /\ \A k \in j + 1 .. i - 1 : ~ over(k)
  IN key \in delivered[i] <=> steps[i].notify /\ key \in steps[i].candidates /\ ~ standing
ToldOnce(steps, keys) ==
  \A key \in keys, i \in DOMAIN steps : ToldAt(steps, Refreshes(steps), key, i)

=============================================================================
