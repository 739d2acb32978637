-------------------------------- MODULE Frame --------------------------------
(***************************************************************************)
(* One frame of the dashboard (native/src/dashboard.rs): which rows there  *)
(* are, which of them a terminal of that size shows, and what gives way    *)
(* where words do not fit.  A word is its width in cells, and a row what   *)
(* it is about; what the rows say of an account is in Views.               *)
(***************************************************************************)
EXTENDS Integers, Sequences, FiniteSets, SequencesExt

CONSTANTS Tall,          \* rows from which the optional lines are shown
          Recent         \* how long an event stays

Least == [width |-> 48, height |-> 17]
Widest == 110
Bounded(n, low, high) == IF n < low THEN low ELSE IF n > high THEN high ELSE n
AtLeast(n, low) == IF n < low THEN low ELSE n
Added(widths) == FoldLeft(LAMBDA sum, n : sum + n, 0, widths)
Digits(n) == IF n < 10 THEN 1 ELSE IF n < 100 THEN 2 ELSE 3
Optional(here, row) == IF here THEN <<row>> ELSE <<>>

-----------------------------------------------------------------------------
(* The title *)

(* What HotPl8 does on its own: as the collector last applied it, or as the *)
(* policy says when no action was recorded.                                 *)
Switching(s) ==
  LET acting == s.configured /\ ~ s.monitor
      does == IF s.recorded = "no" THEN acting ELSE s.recorded = "switching"
  IN CASE s.pause \in {"invalid", "future"} /\ acting -> "paused"
       [] ~ (s.pause \in {"invalid", "future"} /\ acting) /\ ~ does -> "off"
       [] OTHER -> IF s.hold = "future" THEN "held" ELSE "on"

StateWidth == [on |-> 2, off |-> 3, held |-> 4, paused |-> 6]
Mascot == 17

(* The words on the right, each with what it shortens to.                   *)
Word(kind, text, short, last, age) == [kind |-> kind, text |-> text, short |-> short, last |-> last, age |-> age]
Words(t) ==
  Optional(t.preview, Word("preview", 14, 7, 0, FALSE))
    \o Optional(t.frozen, Word("frozen", 6, 0, 0, FALSE))
    \o <<CASE t.reading = "none" -> Word("reading", 10, 0, 7, FALSE)
           [] t.reading = "early" -> Word("reading", 14, 5, 0, FALSE)
           [] t.reading = "stale" -> Word("reading", 6 + t.span, 5, 0, FALSE)
           [] t.reading = "read" -> Word("reading", 9 + t.span, t.span, 0, TRUE)>>
Taken(words) == Added([i \in DOMAIN words |-> words[i].text + 3]) - 3

(* Slip: no reading does not shorten. *)
NeverLast(word, level) ==
  IF word.short # 0 /\ (IF word.age THEN level >= 2 ELSE level >= 5) THEN word.short ELSE word.text

(* How long a word is once that much has given way. *)
Shortened(word, level) ==
  IF word.last # 0 /\ level >= 7 THEN word.last
  ELSE IF word.short # 0 /\ (IF word.age THEN level >= 2 ELSE level >= 5) THEN word.short
  ELSE word.text
Shown(words, level) ==
  LET kept == IF level >= 4 /\ Len(words) > 1 THEN SelectSeq(words, LAMBDA w : ~ w.age) ELSE words
  IN [i \in DOMAIN kept |-> [kept[i] EXCEPT !.text = Shortened(kept[i], level)]]
StateTaken(t, level) ==
  2 + (IF level >= 6 THEN 5 ELSE 12) + StateWidth[t.switching]
    + (IF t.left # 0 /\ t.switching \in {"paused", "held"} /\ level < 3 THEN 1 + t.left ELSE 0)
    + (IF t.warming /\ level < 1 THEN 15 ELSE 0)

(* Content gives way step by step, first with every word, then without      *)
(* FROZEN, then without PREVIEW POLICY too; each if there was such a word.  *)
Without == <<{}, {"frozen"}, {"frozen", "preview"}>>
Kept(t, i) == SelectSeq(Words(t), LAMBDA w : w.kind \notin Without[i])
Rounds(t) == SelectSeq(<<1, 2, 3>>, LAMBDA i : i = 1 \/ Len(Kept(t, i)) # Len(Kept(t, i - 1)))
Round(words) == [n \in 1 .. 8 |-> [words |-> Shown(words, n - 1), level |-> n - 1]]
Attempts(t, rounds) == FlattenSeq([r \in DOMAIN rounds |-> Round(Kept(t, rounds[r]))])
Fits(t, attempt) == t.inside - 2 - Mascot - Taken(attempt.words) - (3 + StateTaken(t, attempt.level)) >= 2
Found(t, attempts) == SelectSeq(attempts, LAMBDA a : Fits(t, a))
Title(t) ==
  IF t.switching = "none" THEN <<[words |-> Words(t), level |-> 0]>> ELSE Found(t, Attempts(t, Rounds(t)))
TitleTaken(t, title) ==
  LET left == Mascot + (IF t.switching = "none" THEN 0 ELSE 3 + StateTaken(t, title.level))
  IN left + AtLeast(t.inside - 2 - left - Taken(title.words), 2) + Taken(title.words)

(* The first chips go last, unless a muted one goes first.                  *)
RECURSIVE Chips(_, _, _)
Chips(chips, name, width) ==
  LET taken == Added([i \in DOMAIN chips |-> chips[i].text + 2]) - 2
      muted == SelectLastInSeq(chips, LAMBDA c : c.muted)
  IN IF chips = <<>> \/ 2 + name + 2 + taken + 2 <= width THEN chips
     ELSE Chips(RemoveAt(chips, IF muted = 0 THEN Len(chips) ELSE muted), name, width)

(* The bar of a provider: what an unread account would add is not promised, *)
(* and a refill that is more than a day away is told in words alone.        *)
Half == 1                  \* a percent is two
Coming(c, amount, at) == IF c.complete /\ amount # -1 /\ at # 0 THEN amount ELSE 0
Refill(c) ==
  CASE Coming(c, c.gain, c.next) >= Half -> 6 + Digits(c.gain \div 2) + c.next
    [] Coming(c, c.gain, c.next) < Half /\ Coming(c, c.later, c.laterAt) >= Half ->
         6 + Digits(c.later \div 2) + c.laterAt
    [] OTHER -> IF c.complete /\ c.next # 0 THEN 6 + c.next ELSE IF c.complete /\ ~ c.projected THEN 18 ELSE 0
Percent(c) == IF c.complete THEN (IF c.estimate THEN 1 ELSE 0) + Digits(c.usable) + 5 ELSE 0
Apart(c) == IF c.remaining > c.value THEN c.remaining - c.value ELSE c.value - c.remaining
Weekly(c) ==
  IF c.remaining # -1 /\ ((c.estimate /\ ~ c.weeklyOnly) \/ Apart(c) >= Half) THEN 4 + Digits(c.remaining \div 2) ELSE 0
Behind(n, width) == IF width = 0 THEN 0 ELSE n + width

(* Slip: the row is made longer by its weekly figure. *)
AllWeekly(c, room) == [weekly |-> Weekly(c), size |-> IF room < 40 THEN room ELSE 40]

(* The weekly figure gives way to a bar that is too short beside it. *)
BarSize(c, room) ==
  LET beside == room - Behind(3, Weekly(c)) IN
  IF beside < 12 THEN [weekly |-> 0, size |-> IF room < 40 THEN room ELSE 40]
  ELSE [weekly |-> Weekly(c), size |-> IF beside < 40 THEN beside ELSE 40]
BarTaken(c, bar) ==
  2 + 2 + AtLeast(bar.size, 8) + Behind(2, Percent(c)) + Behind(2, Refill(c)) + Behind(3, bar.weekly)

-----------------------------------------------------------------------------
(* The rows *)

Row(is, of) == [is |-> is, of |-> of]
Times(n, row) == [i \in 1 .. n |-> row]

Warnings(s) ==
  Optional(~ s.generated \/ s.stale, Row("warning", "reading"))
    \o Optional(s.unavailable > 0 /\ s.dormant >= s.unavailable, Row("warning", "dormant"))
    \o Optional(s.ended > 0, Row("warning", "ended"))
    \o Times(s.ending, Row("warning", "sign-in")) \o Times(s.readable, Row("notice", "unpark"))
    \o Optional(s.ailing, Row("warning", "health"))

(* Before the first reading every account labelled or enrolled is listed.   *)
Listed(claude) ==
  IF claude.slots # <<>> THEN claude.slots
  ELSE LET ids == claude.labels \o SelectSeq(claude.prefer, LAMBDA id : ~ Contains(claude.labels, id))
       IN [i \in DOMAIN ids |-> [id |-> ids[i], enabled |-> TRUE, five |-> TRUE, remark |-> FALSE, notes |-> FALSE]]

ClaudeAccount(a, compact) ==
  <<Row("account", a.id)>>
    \o (IF ~ a.enabled THEN <<>>
        ELSE Optional(a.five, Row("5h", a.id)) \o <<Row("7d", a.id)>>
               \o (IF compact THEN <<>>
                   ELSE Optional(a.remark, Row("remark", a.id)) \o Optional(a.notes, Row("notes", a.id)) \o <<Row("", a.id)>>))

CodexBucket(a, bucket, compact) ==
  Optional(~ bucket.main, Row("meter", a.id))
    \o (IF bucket.windows = 0 THEN <<Row("no quota yet", a.id)>> ELSE Times(bucket.windows, Row("window", a.id)))
    \o (IF compact THEN <<>> ELSE Optional(bucket.remark, Row("remark", a.id)) \o Optional(a.plan, Row("plan", a.id)))
CodexAccount(a, compact) ==
  <<Row("account", a.id)>>
    \o (IF ~ a.enabled THEN <<>>
        ELSE Optional(a.buckets = <<>>, Row("no reading yet", a.id))
               \o FlattenSeq([i \in DOMAIN a.buckets |-> CodexBucket(a, a.buckets[i], compact)])
               \o Optional(~ compact, Row("", a.id)))

Section(accounts, heading, Of(_)) ==
  IF accounts = <<>> THEN <<>> ELSE heading \o FlattenSeq([i \in DOMAIN accounts |-> Of(accounts[i])])

(* A Codex collection that failed is told of under the heading, shortened or not. *)
CodexHeading(s) == <<Row("heading", "codex")>> \o Optional(s.failed, Row("failure", "codex"))

(* An event nobody dated may be new. *)
Latest(s) == SelectSeq(s.events, LAMBDA e : e.age <= Recent)

FirstRun == Times(5, Row("first run", ""))
Rows(s, compact, lone) ==
  LET claude == Section(Listed(s.claude), <<Row("heading", "claude")>>, LAMBDA a : ClaudeAccount(a, compact))
      codex == Section(s.codex, CodexHeading(s), LAMBDA a : CodexAccount(a, compact))
      events == Latest(s)
      first == AtLeast(Len(events) - 2, 1)
  IN IF Listed(s.claude) = <<>> /\ s.codex = <<>> /\ ~ s.read THEN FirstRun
     ELSE Warnings(s) \o claude \o codex \o (IF claude \o codex = <<>> THEN FirstRun ELSE <<>>)
            \o (IF ~ compact /\ (Len(events) > 1 \/ (Len(events) = 1 /\ lone))
                THEN <<Row("recent", "")>> \o Times(Len(events) - first + 1, Row("event", ""))
                ELSE <<>>)

-----------------------------------------------------------------------------
(* The frame *)

(* A heading and a bar for each provider with an enabled account. *)
Summary(s) == 2 * Cardinality({i \in DOMAIN s.providers : s.providers[i] # 0})

(* The scene needs four rows of accounts below it. *)
Scene(s, inside, summary) ==
  LET budget == s.height - 7 - summary - 4 IN
  IF s.nyan = "none" THEN 0
  ELSE IF s.nyan = "indexed"
  THEN IF inside >= 100 /\ budget >= 18 THEN 18 ELSE IF inside >= 66 /\ budget >= 10 THEN 10 ELSE 0
  ELSE IF budget < 5 THEN 0
  ELSE IF s.nyan = "plain" THEN 3 ELSE IF inside >= 82 /\ s.height >= 36 /\ budget >= 9 THEN 9 ELSE 5

PageOf(count, at, available) ==
  IF count > available THEN <<at + 1, IF count < at + available THEN count ELSE at + available, count>> ELSE <<>>
PageWidth(page) == IF page = <<>> THEN 0 ELSE 4 + Digits(page[1]) + Digits(page[2]) + Digits(page[3])

(* Slip: the keys are never dropped. *)
AllKeys(inside, page) == 39

(* Narrow frames drop the hints before they crowd the page. *)
Keys(inside, page) ==
  IF 39 + PageWidth(page) + 4 <= inside THEN 39 ELSE IF 22 + PageWidth(page) + 4 <= inside THEN 22 ELSE 10

Footer(s, inside, page) ==
  LET gap == AtLeast(inside - 2 - Keys(inside, page) - PageWidth(page), 2)
      events == Latest(s)
      paged == IF page = <<>> THEN 0 ELSE 2
      event == events # <<>> /\ Last(events).width + 4 <= gap
  IN [event |-> event,
      taken |-> Keys(inside, page) + PageWidth(page)
                  + (IF event THEN (gap - Last(events).width - paged) + Last(events).width + paged ELSE gap)]

Resolved(offset, count, available) == IF offset + available < count THEN offset ELSE AtLeast(count - available, 0)

(* Half a row goes to the even one. *)
RoundedEven(n, d) ==
  LET down == n \div d
      twice == 2 * (n % d)
  IN IF twice > d \/ (twice = d /\ down % 2 = 1) THEN down + 1 ELSE down
Thumb(count, at, available) ==
  IF count <= available THEN [size |-> 0, at |-> 0]
  ELSE LET size == AtLeast((available * available) \div count, 1)
       IN [size |-> size, at |-> RoundedEven(at * (available - size), count - available)]

(* Slip: the compact list takes the place of the other though it does not fit. *)
Cramped(s, rows, available) == s.height >= Tall /\ Len(rows) > available

(* Whether every account is shown instead of the optional lines. *)
Compacted(s, rows, available) ==
  s.height >= Tall /\ Len(rows) > available /\ Len(Rows(s, TRUE, FALSE)) <= available

(* A lone event is listed if the footer has no room for it. *)
Roomless(s, inside, available, rows) ==
  /\ s.height >= Tall /\ Len(Latest(s)) = 1
  /\ ~ Footer(s, inside, PageOf(Len(rows), Resolved(s.offset, Len(rows), available), available)).event
Listing(s, inside, available, rows) == IF Roomless(s, inside, available, rows) THEN Rows(s, FALSE, TRUE) ELSE rows
Chosen(s, available, rows) ==
  IF Compacted(s, rows, available) THEN [compacted |-> TRUE, rows |-> Rows(s, TRUE, FALSE)]
  ELSE [compacted |-> FALSE, rows |-> rows]

Rule == <<"rule">>
Laid(s, shown, cat) ==
  Rule \o <<"title">> \o Times(cat, "cat") \o Rule
    \o (IF Summary(s) = 0 THEN <<>> ELSE Times(Summary(s), "summary") \o Rule)
    \o shown \o Rule \o <<"footer">> \o Rule
Filled(s, inside, cat, available, chosen, at, page, shown) ==
  [rows |-> chosen.rows, compacted |-> chosen.compacted, available |-> available, cat |-> cat, offset |-> at,
   shown |-> shown, page |-> page, footer |-> Footer(s, inside, page),
   thumb |-> Thumb(Len(chosen.rows), at, available), inside |-> inside, lines |-> Laid(s, shown, cat)]
Placed(s, inside, cat, available, chosen, at) ==
  Filled(s, inside, cat, available, chosen, at, PageOf(Len(chosen.rows), at, available),
         SubSeq(chosen.rows, at + 1, IF Len(chosen.rows) < at + available THEN Len(chosen.rows) ELSE at + available))
Scrolling(s, inside, cat, available, chosen) ==
  Placed(s, inside, cat, available, chosen, Resolved(s.offset, Len(chosen.rows), available))
Choosing(s, inside, cat, available) ==
  Scrolling(s, inside, cat, available,
            Chosen(s, available, Listing(s, inside, available, Rows(s, s.height < Tall, FALSE))))
Spared(s, inside, cat) ==
  Choosing(s, inside, cat, AtLeast(s.height - (IF Summary(s) = 0 THEN 6 ELSE 7) - Summary(s) - cat, 1))
Drawn(s, inside) == Spared(s, inside, Scene(s, inside, Summary(s)))

(* A terminal too small for it is told so, in as many lines as it has.      *)
TooSmall(s) == s.width < Least.width \/ s.height < Least.height
Frame(s) == IF TooSmall(s) THEN [lines |-> Times(Bounded(s.height, 1, 3), "words"), offset |-> 0] ELSE Drawn(s, Bounded(s.width, 1, Widest) - 2)

(* watch.rs scrolled: a key moves on from what the last frame showed.       *)
Far == 999
Scrolled(offset, key) ==
  CASE key = "home" -> 0
    [] key = "end" -> Far
    [] key = "up" -> AtLeast(offset - 1, 0)
    [] key = "down" -> offset + 1
    [] key = "page up" -> AtLeast(offset - 10, 0)
    [] key = "page down" -> offset + 10
    [] OTHER -> offset

-----------------------------------------------------------------------------
(* Properties *)

(* When the two sides of the title cannot both be shown, neither what       *)
(* HotPl8 does nor a warning about the reading is lost, FROZEN goes before  *)
(* PREVIEW POLICY, and no word is cut: at every width a frame is drawn in.  *)
TitleKeeps(t) ==
  \E found \in {Title(t)} :
    /\ found # <<>>
    /\ TitleTaken(t, found[1]) <= t.inside
    /\ \E kinds \in {{found[1].words[i].kind : i \in DOMAIN found[1].words}} :
         /\ t.reading # "read" => "reading" \in kinds
         /\ t.preview /\ "preview" \notin kinds => "frozen" \notin kinds

(* The bar of a provider and its figures stay within their row, in every    *)
(* frame that is drawn.                                                     *)
BarFits(c, inside) ==
  \E bar \in {BarSize(c, inside - 8 - Percent(c) - Behind(2, Refill(c)))} : BarTaken(c, bar) <= inside

(* The words beside a provider's name too; and none is dropped for nothing. *)
HeaderFits(chips, name, inside) ==
  \E kept \in {Chips(chips, name, inside)} :
    LET row(words) == 2 + name + 2 + Added([i \in DOMAIN words |-> words[i].text + 2]) IN
    /\ kept = <<>> \/ row(kept) <= inside
    /\ kept = chips \/ row(chips) > inside

(* A frame fits its terminal as long as the summary leaves room for one     *)
(* row; the scene never takes the accounts' last four.                      *)
FrameFits(s, f) ==
  /\ Len(f.lines) <= s.height \/ s.height < 8 + Summary(s)
  /\ ~ TooSmall(s) => /\ f.footer.taken <= f.inside
                      /\ f.cat > 0 => f.available >= 4

(* Every row can be scrolled to, the page and the thumb say where one is,   *)
(* and past the end the first key back moves.                               *)
Scrolls(s, f, Moved(_)) ==
  LET count == Len(f.rows) IN
  /\ f.page = <<>> => f.shown = f.rows
  /\ f.page # <<>> =>
       /\ f.shown = SubSeq(f.rows, f.page[1], f.page[2])
       /\ f.thumb.at + f.thumb.size <= f.available
       /\ f.offset = 0 => f.thumb.at = 0
       /\ f.page[2] = count => f.thumb.at + f.thumb.size = f.available
  /\ \E down \in {Moved("down")} : down.rows = f.rows =>
       f.offset + Len(f.shown) = count \/ (Len(f.shown) = f.available /\ down.offset = f.offset + 1)
  /\ \E end \in {Moved("end")} : end.rows = f.rows => Last(end.shown) = Last(f.rows)
  /\ \E up \in {Moved("up")} : up.rows = f.rows => up.offset = AtLeast(f.offset - 1, 0)

(* However the list is shortened, no account, no quota of one and no        *)
(* warning is left out; a list made compact is shown whole; a lone event is *)
(* somewhere, unless the compact list took its place.                       *)
Lasting(rows) == SelectSeq(rows, LAMBDA r : r.is \in {"account", "5h", "7d", "window", "warning", "notice", "failure"})
NobodyLeftOut(s, f, ids) ==
  /\ Lasting(f.rows) = Lasting(Rows(s, FALSE, FALSE))
  /\ \A id \in ids : Cardinality({i \in DOMAIN f.rows : f.rows[i] = Row("account", id)}) = 1
  /\ s.claude.slots = <<>> => ToSet(s.claude.prefer) \subseteq ids
  /\ f.compacted => f.page = <<>>
  /\ s.height >= Tall /\ Len(Latest(s)) = 1 /\ ~ f.compacted =>
       f.footer.event \/ \E i \in DOMAIN f.rows : f.rows[i].is = "event"

ScreenTrue(s) ==
  \E f \in {Frame(s)}, listed \in {Listed(s.claude)} :
    /\ FrameFits(s, f)
    /\ ~ TooSmall(s) =>
         /\ Scrolls(s, f, LAMBDA key : Frame([s EXCEPT !.offset = Scrolled(f.offset, key)]))
         /\ NobodyLeftOut(s, f, {listed[i].id : i \in DOMAIN listed} \union {s.codex[i].id : i \in DOMAIN s.codex})

=============================================================================
