------------------------------ MODULE Readings ------------------------------
(***************************************************************************)
(* What a provider reported of an account, and what it is worth some time  *)
(* later (native/src/observation.rs, contract.rs).                         *)
(*                                                                         *)
(* Claude's and Codex's shapes become one: an observation, with a window   *)
(* for every limit.  The shared rules then resolve each window against the *)
(* clock - one whose reset has passed since it was read is full again -    *)
(* and say whether the account may be chosen on it, or why not.            *)
(***************************************************************************)
EXTENDS Integers, FiniteSets, FiniteSetsExt

CONSTANTS Whole,     \* a full window: 100 %
          MaxAge,    \* maxUsageAgeS
          Ahead,     \* how far a stamp may be ahead of the clock: 5 s
          Models     \* the limits of single models the policy counts

Unread == -1                 \* a number or an instant that is missing
Invalid == -2                \* one that is there and is none: for an instant, a blank text
Good == "none"               \* no reason against
Min0(S) == IF S = {} THEN Unread ELSE Min(S)

-----------------------------------------------------------------------------
(* Windows *)

(* Slip: a window is not full yet at the very instant of its reset. *)
RolledOverAfter(w, now) ==
  /\ w.resetAt \in 0 .. now - 1
  /\ w.used \in 0 .. Whole
  /\ w.seen >= 0 /\ w.seen < w.resetAt

(* Resolve-Hotpl8Window *)
RolledOver(w, now) ==
  /\ w.resetAt \in 0 .. now
  /\ w.used \in 0 .. Whole
  /\ w.seen >= 0 /\ w.seen < w.resetAt

Stale(seen, now) == seen < 0 \/ now - seen < - Ahead \/ now - seen > MaxAge

(* ConvertTo-Hotpl8ProviderWindow: of several reasons the last one is given. *)
(* A blank reset is malformed; any other text that is no timestamp makes the *)
(* whole decision unreadable (time.rs parse), and is in no reading here.     *)
WindowReason(w, now) ==
  IF w.state = "not_applicable" THEN IF w.required THEN "window_required" ELSE Good
  ELSE IF w.state = "unknown" THEN "window_unknown"
  ELSE IF w.used \notin 0 .. Whole \/ w.resetAt = Invalid THEN "window_malformed"
  ELSE IF w.resetAt \in 0 .. now /\ ~ RolledOver(w, now) THEN "reset_unconfirmed"
  ELSE IF w.resetRequired /\ w.resetAt = Unread THEN "reset_unconfirmed"
  ELSE IF Stale(w.seen, now) THEN "window_stale"
  ELSE Good

ProviderWindow(w, now) ==
  LET read == w.state = "observed" /\ w.used \in 0 .. Whole IN
  [role |-> w.role, scope |-> w.scope, state |-> w.state, required |-> w.required,
   reason |-> WindowReason(w, now),
   left |-> IF ~ read THEN Unread ELSE IF RolledOver(w, now) THEN Whole ELSE Whole - w.used,
   resetAt |-> IF read /\ w.resetAt > now /\ w.confirmed THEN w.resetAt ELSE Unread]

-----------------------------------------------------------------------------
(* Observations *)

Window(role, scope, state, required, used, resetAt, seen, confirmed, resetRequired) ==
  [role |-> role, scope |-> scope, state |-> state, required |-> required, used |-> used,
   resetAt |-> resetAt, seen |-> seen, confirmed |-> confirmed, resetRequired |-> resetRequired]

Measured(used) == IF used = Unread THEN "unknown" ELSE "observed"

(* ConvertTo-Hotpl8ClaudeObservation: a short window nothing was used of    *)
(* need not have begun; every other one has a reset.                        *)
ClaudeObservation(slot) ==
  [status |-> IF slot.status # "ok" THEN slot.status ELSE IF ~ slot.fresh THEN "stale" ELSE "ok",
   seen |-> slot.seen, blocked |-> Good, enabled |-> TRUE, bound |-> TRUE,
   windows |->
     [name \in {"300", "10080"} \union Models |->
        CASE name = "300" /\ slot.unlimited5h ->
               Window("short", "", "not_applicable", FALSE, Unread, Unread, slot.seen, FALSE, FALSE)
          [] name = "300" /\ ~ slot.unlimited5h ->
               Window("short", "", Measured(slot.used5h), TRUE, slot.used5h, slot.reset5h, slot.seen,
                      slot.reset5h # Unread, slot.used5h # 0)
          [] name = "10080" ->
               Window("weekly", "", Measured(slot.used7d), TRUE, slot.used7d, slot.reset7d, slot.seen,
                      slot.reset7d # Unread, TRUE)
          [] OTHER ->
               Window("scoped", name, IF name \in DOMAIN slot.scoped THEN "observed" ELSE "unknown", TRUE,
                      IF name \in DOMAIN slot.scoped THEN slot.scoped[name].used ELSE Unread,
                      IF name \in DOMAIN slot.scoped THEN slot.scoped[name].resetAt ELSE Unread,
                      slot.seen, name \in DOMAIN slot.scoped, TRUE)]]

(* ConvertTo-Hotpl8ClaudeEntryObservation: to open a window that has not    *)
(* begun its reset is not asked for; opening it is what will set it.        *)
ForWarm(slot) ==
  LET observation == ClaudeObservation(slot) IN
  IF ~ slot.cold \/ slot.reset5h # Unread THEN observation
  ELSE [observation EXCEPT
         !.windows = [name \in DOMAIN @ |->
            IF @[name].role = "short" /\ @[name].scope = "" /\ @[name].resetAt = Unread
            THEN [@[name] EXCEPT !.resetRequired = FALSE] ELSE @[name]]]

(* ConvertTo-Hotpl8CodexObservation: used and remaining have to be the two  *)
(* halves of one reading.  A window without a stamp of its own was read     *)
(* when its account was.                                                    *)
Mirrored(w) == w.used \in 0 .. Whole /\ w.remaining \in 0 .. Whole /\ w.used + w.remaining = Whole

CodexObservation(slot) ==
  [status |-> slot.status, seen |-> slot.seen, enabled |-> TRUE, bound |-> TRUE,
   blocked |-> IF slot.bucket = "unknown" THEN "meter_unknown"
               ELSE IF slot.bucket # "observed" THEN slot.bucket
               ELSE IF \E name \in DOMAIN slot.windows : ~ Mirrored(slot.windows[name]) THEN "window_malformed"
               ELSE Good,
   windows |->
     [name \in DOMAIN slot.windows |->
        LET w == slot.windows[name] IN
        Window(IF name = "300" THEN "short" ELSE IF name = "10080" THEN "weekly" ELSE "scoped",
               "meter", "observed", TRUE, w.used, w.resetsAt,
               IF w.seen = Unread THEN slot.seen ELSE w.seen, w.active, FALSE)]]

-----------------------------------------------------------------------------
(* Accounts *)

AccountReason(account, now) ==
  CASE ~ account.enabled -> "disabled"
    [] account.enabled /\ ~ account.bound -> "binding_changed"
    [] account.enabled /\ account.bound /\ account.status # "ok" -> account.status
    [] OTHER -> IF account.blocked # Good THEN account.blocked
                ELSE IF Stale(account.seen, now) THEN "stale" ELSE Good

(* The windows that count for the scopes that are asked about: a window     *)
(* without a scope always counts.                                           *)
Counting(account, scopes) ==
  {name \in DOMAIN account.windows : scopes = {} \/ account.windows[name].scope \in scopes \union {""}}

Missing(account, scopes) ==
  \E scope \in scopes : ~ \E name \in DOMAIN account.windows :
     account.windows[name].scope = scope /\ account.windows[name].state = "observed"

(* ConvertTo-Hotpl8ProviderAccount *)
ProviderAccount(account, scopes, now) ==
  LET resolved == [name \in DOMAIN account.windows |-> ProviderWindow(account.windows[name], now)]
      counting == Counting(account, scopes)
      observed == {name \in counting : resolved[name].state = "observed"}
      of(role) == {name \in observed : resolved[name].role = role}
      reasons == {resolved[name].reason : name \in counting} \ {Good}
      left(names) == Min0({resolved[name].left : name \in names})
      first(names) == Min0({resolved[name].resetAt : name \in names} \ {Unread})
  IN [reason |-> IF AccountReason(account, now) # Good THEN AccountReason(account, now)
                 ELSE IF Missing(account, scopes) THEN "model_quota_unknown"
                 ELSE IF \E name \in DOMAIN resolved : resolved[name].reason = "window_malformed" THEN "window_malformed"
                 ELSE IF reasons # {} THEN CHOOSE reason \in reasons : TRUE
                 ELSE IF observed = {} THEN "window_unknown" ELSE Good,
      shortLeft |-> left(of("short")),
      weeklyLeft |-> left(of("weekly")),
      bindingLeft |-> left(observed),
      resetAt |-> first(IF of("short") = {} THEN of("weekly") ELSE of("short")),
      weeklyResetAt |-> first(of("weekly"))]

Valid(account, scopes, now) == ProviderAccount(account, scopes, now).reason = Good

-----------------------------------------------------------------------------
(* Properties *)

(* What is so: a window of a limit, with how much of it is used and when it *)
(* is reset; nothing of it is used for the time being.                      *)
TrueUsed(truth, t) == IF t >= truth.resetAt THEN 0 ELSE truth.used
TrueReset(truth, t) == IF t >= truth.resetAt THEN Unread ELSE truth.resetAt

(* Codex, read at one instant, kept, and used at another.                   *)
CodexSlot(short, week, seen) ==
  LET read(truth) == [used |-> TrueUsed(truth, seen), remaining |-> Whole - TrueUsed(truth, seen),
                      resetsAt |-> TrueReset(truth, seen), seen |-> seen, active |-> TRUE]
  IN [status |-> "ok", seen |-> seen, bucket |-> "observed",
      windows |-> [name \in {"300", "10080"} |-> read(IF name = "300" THEN short ELSE week)]]

ClaudeSlot(short, week, seen) ==
  [status |-> "ok", fresh |-> TRUE, seen |-> seen, unlimited5h |-> FALSE, cold |-> TrueUsed(short, seen) = 0,
   used5h |-> TrueUsed(short, seen), reset5h |-> TrueReset(short, seen),
   used7d |-> TrueUsed(week, seen), reset7d |-> week.resetAt,
   scoped |-> [m \in Models |-> [used |-> TrueUsed(week, seen), resetAt |-> week.resetAt]]]

(* An account that was read in time is believed, and what it is believed to *)
(* have left is what it has - whichever resets have passed since.           *)
Told(account, short, week, seen, now) ==
  LET found == ProviderAccount(account, {}, now) IN
  /\ found.reason = Good <=> now - seen \in - Ahead .. MaxAge
  /\ found.reason = Good =>
       /\ found.shortLeft = Whole - TrueUsed(short, now)
       /\ found.weeklyLeft = Whole - TrueUsed(week, now)
       /\ found.bindingLeft = Min({found.shortLeft, found.weeklyLeft})

(* One field of the reading is not what it was when it was read. *)
Tampered(slot, name, field, value) == [slot EXCEPT !.windows[name][field] = value]

(* A kept reading tells the truth later, or nothing: with every window that *)
(* is reset, early or late, and a reading half of which was changed is not  *)
(* believed.  Opening a window asks for less than choosing an account, in   *)
(* no other way than for the reset that is missing.                         *)
ToldTrue(short, week, seen, now) ==
  LET codex == CodexSlot(short, week, seen)
      claude == ClaudeSlot(short, week, seen)
  IN /\ now >= seen => Told(CodexObservation(codex), short, week, seen, now)
     /\ now >= seen /\ week.resetAt > seen => Told(ClaudeObservation(claude), short, week, seen, now)
     /\ \A name \in {"300", "10080"}, value \in {Unread, Invalid} \union 0 .. Whole + 1 :
          value # codex.windows[name].remaining =>
            ~ Valid(CodexObservation(Tampered(codex, name, "remaining", value)), {}, now)
     /\ Valid(ClaudeObservation(claude), {}, now) => Valid(ForWarm(claude), {}, now)
     /\ \A gone \in {"used5h", "used7d", "reset7d"}, how \in {Unread, Invalid} :
          ~ Valid(ForWarm([claude EXCEPT ![gone] = how]), {}, now)

=============================================================================
