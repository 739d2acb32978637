-------------------------------- MODULE Views --------------------------------
(***************************************************************************)
(* What is shown of an account (native/src/overview.rs, agent.rs,          *)
(* dashboard.rs, tray.rs): the overview, the answer to an agent, the row   *)
(* of the dashboard and the line of the tray are each worked out from the  *)
(* snapshot, some time after the collector wrote it, and each by code of   *)
(* its own.                                                                *)
(*                                                                         *)
(* One margin stands for the policy's several, and maxUsageAgeS has its    *)
(* default, which is what the views without that setting use.  Critical    *)
(* mode is off.  Which of several eligible accounts is preferred is        *)
(* decided elsewhere (Selection); here it is the first.                    *)
(***************************************************************************)
EXTENDS Readings, Sequences

CONSTANT Margin      \* what automation leaves of every window

Nobody == 0
Percent(used) == used \in 0 .. Whole
Absent == [used |-> Unread, resetAt |-> Unread]     \* a window that is not reported

-----------------------------------------------------------------------------
(* What the collector writes *)

(* Claude: a row of cswap's, as the snapshot will have it.  An account      *)
(* whose plan has no five-hour limit is told from one that did not report   *)
(* it; that the reading is fresh is decided once, at the collection.        *)
ClaudeSlot0(row, at) ==
  LET valid == \A w \in {row.five, row.seven} : w.used = Unread \/ Percent(w.used)
      five == IF valid THEN row.five ELSE Absent
      seven == IF valid THEN row.seven ELSE Absent
      status == IF valid THEN row.status ELSE "unsupported"
      aged == row.age \in 0 .. MaxAge
      rowAbsent == status = "ok" /\ seven.used # Unread /\ five.used = Unread
  IN [status |-> status,
      fresh |-> status = "ok" /\ aged,
      cold |-> five.used # Unread /\ five.resetAt = Unread,
      seen |-> IF valid /\ row.age # Unread THEN at - row.age ELSE Unread,
      unlimited5h |-> rowAbsent /\ row.unlimited,
      unreported |-> rowAbsent /\ ~ row.unlimited /\ aged,
      used5h |-> five.used, reset5h |-> five.resetAt,
      used7d |-> seven.used, reset7d |-> seven.resetAt, scoped |-> <<>>]
Published(row, at) ==
  LET slot == ClaudeSlot0(row, at) IN [slot EXCEPT !.fresh = @ /\ Valid(ClaudeObservation(slot), {}, at)]

(* Codex: what a limit's own words make of it. *)
LimitState(row) ==
  IF row.allowed = "false" THEN "blocked"
  ELSE IF row.spend = "odd" \/ row.allowed = "odd" THEN "unsupported"
  ELSE IF row.spend = "null" THEN "constraint_unknown"
  ELSE IF row.spend = "true" \/ row.reached # "null" THEN "blocked"
  ELSE "observed"

Limits(row, at) ==
  LET names == {name \in {"300", "10080"} : row[name].used # Unread}
      supported == names # {} /\ \A name \in names : Percent(row[name].used) /\ row[name].resetAt # Invalid
  IN [bucket |-> IF supported THEN LimitState(row) ELSE "unsupported",
      windows |-> [name \in IF supported THEN names ELSE {} |->
                     [used |-> row[name].used, remaining |-> Whole - row[name].used,
                      resetsAt |-> row[name].resetAt, seen |-> at,
                      active |-> row[name].resetAt > at /\ row.confirmed]]]

(* A home that could not be read keeps what was read before. *)
CodexSlotAt(row, at) ==
  LET limits == Limits(row, at) IN
  [status |-> row.status, seen |-> at, bucket |-> limits.bucket, windows |-> limits.windows]

-----------------------------------------------------------------------------
(* The decision every view asks for *)

Leftovers(left) == left > 0 /\ left >= Margin

Worth(account) ==
  IF account.reason # Good THEN account.reason
  ELSE IF Leftovers(account.bindingLeft) THEN "eligible" ELSE "below_margin"

ClaudeReason(slot, now) == Worth(ProviderAccount(ClaudeObservation(slot), {}, now))

PublicCode(reason) ==
  CASE reason \in {"window_unknown", "model_quota_unknown"} -> "unknown"
    [] reason = "window_stale" -> "stale"
    [] OTHER -> reason

CodexReason(slot, now) == PublicCode(Worth(ProviderAccount(CodexObservation(slot), {"meter"}, now)))

(* The account in use stays while it may be used and the policy's           *)
(* hysteresis speaks for it.                                                *)
Proposed(eligible, previous, stays) ==
  IF eligible = {} THEN Nobody
  ELSE IF stays /\ previous \in eligible THEN previous ELSE Min(eligible)

(* Get-ClaudeSelection, over the accounts a view hands to it: the account to *)
(* move to, and whether the one in use may stay.                            *)
Selected(eligible, previous, stays) ==
  [target |-> Proposed(eligible, previous, stays), activeOk |-> previous \in eligible]
Selection(slots, previous, stays, now) ==
  Selected({i \in DOMAIN slots : ClaudeReason(slots[i], now) = "eligible"}, previous, stays)

Test(left5, left7, unlimited) == (unlimited \/ Leftovers(left5)) /\ Leftovers(left7)     \* Test-Ok

(* Slip: a window is taken as it was read, whether or not it was reset.     *)
ResolvedNever(used, resetAt, seen, now) == [used |-> used, resetAt |-> resetAt, rolled |-> FALSE]

Resolved(used, resetAt, seen, now) ==
  IF RolledOver([used |-> used, resetAt |-> resetAt, seen |-> seen], now)
  THEN [used |-> 0, resetAt |-> Unread, rolled |-> TRUE]
  ELSE [used |-> used, resetAt |-> resetAt, rolled |-> FALSE]

Week(slot, now) == Resolved(slot.used7d, slot.reset7d, slot.seen, now)
Short(slot, now) == Resolved(slot.used5h, slot.reset5h, slot.seen, now)
Left(w) == IF Percent(w.used) THEN Whole - w.used ELSE Unread
Dated(w, now) == Percent(w.used) /\ (w.rolled \/ w.resetAt > now)
Begun(slot, w, now) ==       \* or not begun, and nothing used
  Percent(w.used) /\ (w.rolled \/ w.resetAt > now \/ (slot.cold /\ slot.used5h = 0 /\ slot.reset5h = Unread))

-----------------------------------------------------------------------------
(* The overview *)

(* Get-Hotpl8NativeOverview: of the accounts that share a subscription the  *)
(* first counts, whatever its reading is worth by now.                      *)
Members(accounts) ==
  {i \in DOMAIN accounts :
     /\ ~ accounts[i].disabled
     /\ \A j \in 1 .. i - 1 :
          ~ accounts[j].disabled /\ {accounts[i].slot.status, accounts[j].slot.status} \subseteq {"ok", "duplicate_subscription"}
            => accounts[j].stream # accounts[i].stream}

ClaudeMember(slot, fresh, weekly, short, w5, w7) ==
  LET measured == (short \/ slot.unlimited5h) /\ weekly
      eligible == measured /\ Test(w5, w7, slot.unlimited5h)
  IN [left |-> IF weekly THEN w7 ELSE Unread,
      eligible |-> eligible,
      reason |-> CASE fresh /\ eligible -> "eligible"
                   [] fresh /\ ~ eligible -> IF measured THEN "below_margin" ELSE "window_unmeasured"
                   [] ~ fresh /\ slot.unreported -> "window_unmeasured"
                   [] OTHER -> IF slot.status = "ok" THEN "stale" ELSE slot.status]

ClaudeRead(slot, w5, w7, now) ==
  LET fresh == slot.status = "ok" /\ ~ Stale(slot.seen, now) /\ slot.fresh IN
  ClaudeMember(slot, fresh, fresh /\ Dated(w7, now), fresh /\ ~ slot.unlimited5h /\ Begun(slot, w5, now),
               Left(w5), Left(w7))

CodexMember(slot, w, rolled, reason, now) ==
  LET shown == /\ slot.status = "ok" /\ ~ Stale(slot.seen, now)
               /\ slot.bucket = "observed" \/ (slot.bucket = "blocked" /\ w.used = Whole)
               /\ Dated(rolled, now)
  IN [left |-> IF shown THEN Whole - rolled.used ELSE Unread, eligible |-> reason = "eligible", reason |-> reason]

Member(family, slot, now) ==
  IF family = "claude" THEN ClaudeRead(slot, Short(slot, now), Week(slot, now), now)
  ELSE LET w == IF "10080" \in DOMAIN slot.windows THEN slot.windows["10080"]
                ELSE [used |-> Unread, resetsAt |-> Unread, seen |-> Unread] IN
       CodexMember(slot, w, Resolved(w.used, w.resetsAt, w.seen, now), CodexReason(slot, now), now)

(* Under a hold or a pause, and where the policy does not switch, only the  *)
(* account in use is named.  A held Codex account is named or none is.      *)
ClaudeChosen(d, found) ==
  IF ~ d.restricted /\ found.target # Nobody THEN found.target
  ELSE IF found.activeOk THEN d.active ELSE Nobody
CodexChosen(d, eligible) ==
  IF ~ d.restricted THEN Proposed(eligible, d.active, d.stays)
  ELSE IF d.active \in eligible THEN d.active ELSE Nobody

OverviewSelected(d, members, now) ==
  IF d.family = "claude"
  THEN ClaudeChosen(d, Selection([i \in members |-> d.accounts[i].slot], d.active, d.stays, now))
  ELSE CodexChosen(d, {i \in members : CodexReason(d.accounts[i].slot, now) = "eligible"})

Overviewed(rows, selected) ==
  [members |-> rows, selected |-> selected,
   availability |-> IF DOMAIN rows = {} THEN "none enabled"
                    ELSE IF \A i \in DOMAIN rows : rows[i].reason = "stale" THEN "stale"
                    ELSE IF \A i \in DOMAIN rows : ~ rows[i].eligible THEN "unavailable"
                    ELSE IF selected = Nobody THEN "selection needed" ELSE "ready"]
Overview(d, now) ==
  Overviewed([i \in Members(d.accounts) |-> Member(d.family, d.accounts[i].slot, now)],
             OverviewSelected(d, Members(d.accounts), now))

-----------------------------------------------------------------------------
(* The answer to an agent *)

(* What keeps a row from being looked at more closely.  A subscription that *)
(* was seen on an earlier account counts there, if that account was         *)
(* looked at.                                                               *)
LookedAt(a, now) == ~ a.disabled /\ a.slot.status = "ok" /\ ~ Stale(a.slot.seen, now)
Gate(accounts, i, now) ==
  LET a == accounts[i] IN
  IF a.disabled THEN "disabled"
  ELSE IF a.slot.status # "ok" THEN a.slot.status
  ELSE IF Stale(a.slot.seen, now) THEN "stale"
  ELSE IF \E j \in 1 .. i - 1 : LookedAt(accounts[j], now) /\ accounts[j].stream = a.stream THEN "duplicate_subscription"
  ELSE Good

ClaudeAnswer(slot, w5, w7, short, week) ==
  LET eligible == /\ slot.fresh /\ short /\ week
                  /\ slot.unlimited5h \/ w5 # 0
                  /\ w7 # 0 /\ Test(w5, w7, slot.unlimited5h)
  IN [eligible |-> eligible,
      reason |-> IF ~ slot.fresh THEN "stale" ELSE IF ~ short \/ ~ week THEN "window_unmeasured"
                 ELSE IF eligible THEN "eligible" ELSE "below_margin",
      left |-> [name \in (IF slot.unlimited5h THEN {} ELSE {"300"}) \union {"10080"} |-> IF name = "300" THEN w5 ELSE w7]]
ClaudeSeen(slot, w5, w7, now) ==
  ClaudeAnswer(slot, Left(w5), Left(w7), slot.unlimited5h \/ Begun(slot, w5, now), Dated(w7, now))

(* Test-Hotpl8AgentCodexObservation *)
Observed(slot) == slot.bucket = "observed" => slot.windows # <<>> /\ \A name \in DOMAIN slot.windows : Percent(slot.windows[name].remaining)

CodexAnswer(slot, reason, now) ==
  LET rolled(w) == Resolved(w.used, w.resetsAt, w.seen, now).rolled IN
  IF ~ Observed(slot) THEN [eligible |-> FALSE, reason |-> "malformed", left |-> <<>>]
  ELSE [eligible |-> reason = "eligible", reason |-> reason,
        left |-> [name \in DOMAIN slot.windows |->
                    IF rolled(slot.windows[name]) THEN Whole ELSE slot.windows[name].remaining]]

Row(family, slot, gate, now) ==
  IF gate # Good THEN [eligible |-> FALSE, reason |-> gate, left |-> <<>>]
  ELSE IF family = "claude" THEN ClaudeSeen(slot, Short(slot, now), Week(slot, now), now)
  ELSE CodexAnswer(slot, CodexReason(slot, now), now)

(* The selectors decide; an account whose row failed above is not named.    *)
Confirmed(choice, rows) == IF choice # Nobody /\ rows[choice].eligible THEN choice ELSE Nobody

(* Get-Hotpl8NativeAgentReadiness *)
Chosen(d, handed, now) ==
  IF d.family = "claude"
  THEN ClaudeChosen(d, Selection([i \in handed |-> d.accounts[i].slot], d.active, d.stays, now))
  ELSE CodexChosen(d, {i \in handed : Observed(d.accounts[i].slot) /\ CodexReason(d.accounts[i].slot, now) = "eligible"})
Answered(rows, chosen) == [rows |-> rows, selected |-> Confirmed(chosen, rows)]
Answer(d, now) ==
  Answered([i \in DOMAIN d.accounts |-> Row(d.family, d.accounts[i].slot, Gate(d.accounts, i, now), now)],
           Chosen(d, {i \in DOMAIN d.accounts : Gate(d.accounts, i, now) = Good}, now))

-----------------------------------------------------------------------------
(* The dashboard and the tray *)

(* New-DashboardQuotaRow: a stale reading is drawn as it was read. *)
Drawn(w, stale, now) ==
  [left |-> Left(w), believed |-> Left(w) # Unread /\ ~ stale,
   reset |-> IF Left(w) = Unread THEN "no reading"
             ELSE IF w.rolled THEN "awaiting read"
             ELSE IF w.resetAt = Unread THEN IF Left(w) = Whole THEN "idle" ELSE "?"
             ELSE IF w.resetAt = Invalid THEN "?"
             ELSE IF w.resetAt <= now THEN "due" ELSE "ahead"]
QuotaRow(used, resetAt, seen, stale, now) ==
  Drawn(IF stale THEN [used |-> used, resetAt |-> resetAt, rolled |-> FALSE] ELSE Resolved(used, resetAt, seen, now),
        stale, now)

ClaudeBadge(slot, active, generated, now) ==
  LET snapshotStale == Stale(generated, now)
      stale == snapshotStale \/ ~ slot.fresh \/ (slot.seen # Unread /\ Stale(slot.seen, now))
  IN [stale |-> stale,
      badge |-> IF slot.status # "ok" THEN slot.status
                ELSE IF slot.unreported /\ ~ snapshotStale THEN "INCOMPLETE"
                ELSE IF stale THEN "STALE"
                ELSE IF active THEN "ACTIVE" ELSE "MONITORED"]

(* Get-Hotpl8CodexAccountState *)
Retrying(slot, now) == slot.status \in {"home_busy", "timeout"} /\ ~ Stale(slot.seen, now)
Exhausted(slot) == \E name \in DOMAIN slot.windows : slot.windows[name].remaining = 0
CodexState(slot, reason, recommended, now) ==
  CASE Retrying(slot, now) -> "READ RETRYING"
    [] slot.status # "ok" /\ ~ Retrying(slot, now) -> slot.status
    [] OTHER -> IF Stale(slot.seen, now) THEN "STALE"
                ELSE IF Exhausted(slot) THEN "EXHAUSTED"
                ELSE IF reason = "eligible" THEN IF recommended THEN "NEXT LAUNCH" ELSE "AVAILABLE"
                ELSE IF reason = "below_margin" THEN "LOW BALANCE"
                ELSE IF reason = "blocked" THEN "BLOCKED" ELSE "LIMIT UNCONFIRMED"

(* An account that is switched off shows no balance. *)
ClaudeRows(s, claude, now) ==
  [badge |-> claude.badge,
   quota |-> [name \in (IF s.unlimited5h THEN {} ELSE {"300"}) \union {"10080"} |->
                IF name = "300" THEN QuotaRow(s.used5h, s.reset5h, s.seen, claude.stale, now)
                ELSE QuotaRow(s.used7d, s.reset7d, s.seen, claude.stale, now)]]
CodexRows(s, badge, now) ==
  [badge |-> badge,
   quota |-> [name \in DOMAIN s.windows |->
                QuotaRow(s.windows[name].used, s.windows[name].resetsAt, s.windows[name].seen, Stale(s.seen, now), now)]]
DashboardRow(d, i, now) ==
  LET a == d.accounts[i] IN
  IF a.disabled THEN [badge |-> "DISABLED", quota |-> <<>>]
  ELSE IF d.family = "claude" THEN ClaudeRows(a.slot, ClaudeBadge(a.slot, d.active = i, d.generated, now), now)
  ELSE CodexRows(a.slot, CodexState(a.slot, CodexReason(a.slot, now), d.active = i, now), now)

TrayStale(slot, now) == ~ slot.fresh \/ Stale(slot.seen, now)

-----------------------------------------------------------------------------
(* Properties *)

(* An earlier account has the subscription and was read too long ago to be  *)
(* looked at: the overview still counts the subscription there.             *)
Shadowed(d, i, now) == \E j \in 1 .. i - 1 : d.accounts[j].stream = d.accounts[i].stream /\ ~ LookedAt(d.accounts[j], now)

(* Whoever asks is told the same: of an account that may be used, and of    *)
(* how much of it is left.                                                  *)
ToldAlike(d, i, overview, row, shown, now) ==
  LET slot == d.accounts[i].slot
  IN /\ row.eligible => \/ shown.badge \in {"ACTIVE", "MONITORED", "NEXT LAUNCH", "AVAILABLE"}
                        \/ d.family = "codex" /\ Exhausted(slot)
                        \/ Stale(d.generated, now)
     /\ d.family = "codex" /\ shown.badge \in {"NEXT LAUNCH", "AVAILABLE"} => row.reason \in {"eligible", "duplicate_subscription"}
     /\ d.family = "claude" /\ shown.badge \in {"ACTIVE", "MONITORED"} => ~ TrayStale(slot, now)
     /\ \A name \in DOMAIN row.left \intersect DOMAIN shown.quota :
          shown.quota[name].believed /\ row.reason # "stale" =>
            /\ shown.quota[name].left = row.left[name]
            /\ shown.quota[name].reset = "due" => ~ row.eligible
     /\ i \in DOMAIN overview.members /\ ~ Shadowed(d, i, now) =>
          LET member == overview.members[i] IN
          /\ member.eligible <=> row.eligible
          /\ member.left # Unread => "10080" \in DOMAIN row.left /\ row.left["10080"] = member.left

(* The account that is named can be used, in the eyes of the same view; and *)
(* the views name the same one.                                             *)
ShownAlike(d, overview, answer, now) ==
  /\ \A i \in DOMAIN d.accounts : ToldAlike(d, i, overview, answer.rows[i], DashboardRow(d, i, now), now)
  /\ overview.selected # Nobody => overview.members[overview.selected].eligible
  /\ answer.selected # Nobody => answer.rows[answer.selected].eligible
  /\ overview.availability = "ready" => overview.selected # Nobody
  /\ (\A i \in DOMAIN d.accounts : ~ Shadowed(d, i, now)) => overview.selected = answer.selected
NamedAlike(d, now) == ShownAlike(d, Overview(d, now), Answer(d, now), now)

=============================================================================
