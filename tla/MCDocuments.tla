----------------------------- MODULE MCDocuments -----------------------------
(* The documents the program reads, each rule over a bounded set of them: a  *)
(* state is one document, and the invariants hold of what is made of it.     *)
EXTENDS Integers, Sequences, FiniteSets, SequencesExt, TLC

(* Settings, for a catalogue: two definitions are shipped, two more would    *)
(* register the same drivers again.                                          *)
SlotNames == {"1", "2", "a", "b", "codex"}
Numerals == {"1", "2"}
Labels == {"", "-1", "0", "1", "2", "101", "a", "b", "odd", "monitor", "balanced", "True", "False"}
Exclusions == ("claude:1" :> <<"claude", "1">>) @@ ("claude:a" :> <<"claude", "a">>)
                @@ ("codex:a" :> <<"codex", "a">>) @@ ("other:a" :> <<"other", "a">>)
Homes == ("/a" :> "/a") @@ ("/A" :> "/a") @@ ("/b" :> "/b") @@ ("/c" :> "/c")
Profiles == {"plus"}
Times == {"08:00"}
ProviderIds == {"claude", "codex", "fictional", "second"}
O == INSTANCE Settings WITH Catalog <- <<>>     \* for the shape of values alone

Fields(fields) == O!Object(fields)
Window(id, minutes, required) ==
  Fields([id |-> O!Text(id), minutes |-> O!Number(minutes), required |-> O!Bool(required)])
Definition(id, driver, meters, required, incapable, t3) ==
  Fields([schemaVersion |-> O!Number(1), id |-> O!Text(id), name |-> O!Text("a"), driver |-> O!Text(driver),
          defaultMeter |-> meters[1], meters |-> O!List(meters),
          windows |-> O!List(<<Window("300", 300, required), Window("10080", 10080, required)>>),
          policyDefaults |-> Fields([order |-> O!Text("prefer"), margin5h |-> O!Number(25), margin7d |-> O!Number(20),
                                     hysteresis |-> O!Number(10), resetLeadMin |-> O!Number(10)]),
          capabilities |-> Fields([c \in O!Capabilities |-> O!Bool(c \notin incapable)]),
          integrations |-> Fields([native |-> O!Text(IF required THEN "claude" ELSE "codex"), t3 |-> O!Text(t3)]),
          display |-> Fields([order |-> O!Number(10)])])
ClaudeLike(id) ==
  Definition(id, "claude-cswap", <<O!Text("claude")>>, TRUE, {"nativeLaunch", "t3Rollover"}, "claudeAgent")
CodexLike(id) ==
  Definition(id, "codex-app-server", <<O!Text("codex"), O!Text("codex_bengalfox")>>, FALSE,
             {"warming", "recoveryProbe"}, "codex")
Shipped == ("claude" :> ClaudeLike("claude")) @@ ("codex" :> CodexLike("codex"))
Catalog == Shipped @@ ("fictional" :> CodexLike("fictional")) @@ ("second" :> ClaudeLike("second"))
P == INSTANCE Settings
Of(catalog) == INSTANCE Settings WITH Catalog <- catalog

(* A document with something else, or nothing, in one of its places. *)
Gone == <<"gone">>
RECURSIVE With(_, _, _)
With(v, path, to) ==
  IF path = <<>> THEN to
  ELSE IF to = Gone /\ Len(path) = 1 THEN O!Without(v, {path[1]})
  ELSE O!Put(v, path[1], With(O!Get(v, path[1]), Tail(path), to))
RECURSIVE Reaches(_, _)
Reaches(v, path) == Len(path) <= 1 \/ (O!IsObject(O!Get(v, path[1])) /\ Reaches(O!Get(v, path[1]), Tail(path)))

Slot(id, home) == Fields([id |-> O!Text(id), home |-> O!Text(home)])
ClaudePart == Fields([prefer |-> O!List(<<O!Number(1), O!Number(2)>>), reserve |-> O!List(<<O!Number(2)>>)])
CodexPart == Fields([slots |-> O!List(<<Slot("a", "/a"), Slot("b", "/b")>>), prefer |-> O!List(<<O!Text("a")>>)])
Automate == Fields([mode |-> O!Text("automate"), switchEnabled |-> O!Bool(TRUE), warm |-> O!Bool(TRUE)])
Unversioned == O!Over(ClaudePart, Fields([codex |-> CodexPart]))
V1 == O!Put(O!Over(Automate, Unversioned), "schemaVersion", O!Number(1))
V2 == O!Put(V1, "schemaVersion", O!Number(2))
V3 == O!Put(O!Put(Automate, "schemaVersion", O!Number(3)), "providers",
            Fields([claude |-> ClaudePart, codex |-> CodexPart]))
Policies == {Unversioned, V1, V2, V3}

Odd == {Gone, O!Null, O!Bool(TRUE), O!Bool(FALSE), O!Number(-1), O!Number(0), O!Number(1), O!Half(0), O!Number(101),
        O!Text("odd"), O!Text("monitor"), O!Text("balanced"), O!List(<<>>), Fields(<<>>)}
Anywhere == P!V1Fields \union P!V2Fields \union {"providers", "other"}
Edits ==
  {<<<<f>>, v>> : f \in Anywhere, v \in Odd}
    \union {<<place \o <<f>>, v>> : place \in {<<"providers", "claude">>, <<"providers", "codex">>, <<"codex">>},
                                    f \in {"mode", "warm", "margin5h", "order", "slots", "prefer", "reserve", "disabled",
                                           "defaultMeter", "other"}, v \in Odd}
    \union {<<<<"critical", f>>, v>> : f \in {"enabled", "enterPercent", "exitPercent", "floorPercent", "dwellSeconds"},
                                       v \in Odd}
    \union {<<<<"automation", f>>, v>> : f \in {"continue", "dailyAttemptLimit", "warmExcluded", "schedule"}, v \in Odd}

(* Changes a person makes, and mistakes that are made with them. *)
Numbered(ns) == O!List([i \in DOMAIN ns |-> O!Number(ns[i])])
Changes ==
  {<<<<>>, Unversioned>>, <<<<"mode">>, O!Text("monitor")>>, <<<<"mode">>, O!Text("")>>, <<<<"switchEnabled">>, Gone>>,
   <<<<"switchEnabled">>, O!Bool(FALSE)>>, <<<<"warm">>, O!Null>>, <<<<"probeEnabled">>, O!Bool(FALSE)>>,
   <<<<"margin5h">>, O!Number(30)>>, <<<<"margin7dWork">>, O!Number(5)>>, <<<<"margin7d">>, O!Null>>,
   <<<<"hysteresis">>, O!Number(3)>>, <<<<"order">>, O!Text("weekly-expiry")>>, <<<<"codex", "order">>, O!Text("balanced")>>,
   <<<<"prefer">>, O!Number(1)>>, <<<<"prefer">>, Numbered(<<1, 1>>)>>, <<<<"prefer">>, O!List(<<O!Number(1), O!Null>>)>>,
   <<<<"prefer">>, Gone>>, <<<<"reserve">>, O!Text("1")>>, <<<<"disabled">>, Numbered(<<1>>)>>,
   <<<<"codex">>, Gone>>, <<<<"codex">>, O!Null>>, <<<<"codex", "margin5h">>, O!Number(0)>>,
   <<<<"codex", "disabled">>, O!List(<<O!Text("a")>>)>>, <<<<"codex", "critical">>, Fields([enabled |-> O!Bool(TRUE)])>>,
   <<<<"automation">>, Fields([continue |-> O!Bool(FALSE), warmExcluded |-> O!List(<<O!Text("claude:1")>>)])>>,
   <<<<"automation">>, Fields([schedule |-> Fields([start |-> O!Text("08:00"), end |-> O!Text("08:00"),
                                                    days |-> Numbered(<<1, 2>>)])])>>,
   <<<<"automation">>, Fields([warmExcluded |-> O!List(<<O!Text("claude:a")>>)])>>,
   <<<<"critical">>, Fields([enterPercent |-> O!Number(25)])>>,
   <<<<"capacity">>, Fields("1" :> Fields([profile |-> O!Text("plus"), weekly |-> O!Half(0)]))>>,
   <<<<"display">>, Fields([noColor |-> O!Bool(TRUE)])>>, <<<<"schemaVersion">>, O!Null>>, <<<<"schemaVersion">>, O!Number(4)>>,
   <<<<"providers", "fictional">>, Fields([slots |-> O!List(<<Slot("a", "/A")>>)])>>,
   <<<<"providers", "fictional">>, Fields([slots |-> O!List(<<Slot("a", "/c")>>), margin5h |-> O!Number(1)])>>,
   <<<<"providers", "second">>, ClaudePart>>, <<<<"providers", "second">>, Fields([reserve |-> O!List(<<>>)])>>,
   <<<<"providers", "second">>, Fields([mode |-> O!Text("automate")])>>,
   <<<<"providers", "claude", "switchEnabled">>, O!Bool(TRUE)>>, <<<<"providers", "claude", "mode">>, O!Text("automate")>>,
   <<<<"providers", "claude", "automation">>, Fields(<<>>)>>, <<<<"providers", "codex", "defaultMeter">>, O!Text("claude")>>,
   <<<<"providers", "codex", "slots">>, O!List(<<Slot("a", "/a"), Slot("b", "/A")>>)>>,
   <<<<"providers", "codex", "slots">>, O!List(<<Slot("a", "/a"), Slot("a", "/b")>>)>>}
Made(v, edit) == IF Reaches(v, edit[1]) THEN With(v, edit[1], edit[2]) ELSE v
Definitions == {ClaudeLike("claude"), CodexLike("codex"), CodexLike("fictional"), ClaudeLike("second")}
Defaults == {<<<<"policyDefaults", f>>, v>> : f \in {"order", "margin5h", "resetLeadMin", "other"}, v \in Odd}
Defined ==
  Defaults \union {<<<<f>>, v>> : f \in {"id", "driver", "defaultMeter", "meters", "windows", "modelMeters", "other"},
                                  v \in Odd}
    \union {<<<<"driver">>, O!Text("codex-app-server")>>, <<<<"defaultMeter">>, O!Text("codex_bengalfox")>>,
            <<<<"meters">>, O!List(<<O!Text("codex_bengalfox")>>)>>, <<<<"integrations", "t3">>, Gone>>}
    \union {<<<<"capabilities", c>>, v>> : c \in O!Capabilities, v \in {Gone, O!Bool(TRUE), O!Bool(FALSE)}}

(* Texts of JSON: what is written of a value, with one token put in, left    *)
(* out or exchanged.                                                         *)
J == INSTANCE Json WITH MaxDepth <- 2, AskedDepth <- 1, MaxForeign <- 3, Forbidden <- {<<"b", "b">>},
                        MostInt <- 7, MostLong <- 500000, MostMantissa <- 999999, MostPlaces <- 6,
                        MostPower <- 6, LeastPower <- -9, Precision <- 5, Smallest <- -2
Numbers ==
  {J!Int32(-7), J!Int32(0), J!Int64(8), J!Int64(500000), J!Decimal(FALSE, 0, 1), J!Decimal(TRUE, 5, 2), J!Decimal(FALSE, 40, 1),
   J!Double(TRUE, 0, 0), J!Double(FALSE, 0, 0), J!Double(FALSE, 3, 0), J!Double(FALSE, 25, -1), J!Double(TRUE, 2, -4),
   J!Double(FALSE, 5, -10), J!Double(FALSE, 10101, -2), J!Double(FALSE, 10101, -6),
   J!Double(FALSE, 9, 4), J!Double(FALSE, 32, 0), J!Double(FALSE, 12, 5)}
Strings == {<<>>, <<"a">>, <<"e'", "cat">>, <<"\n", "\"">>, <<"date">>}
Leaves == Numbers \union {J!Null, J!Bool(TRUE)} \union {J!Text(t) : t \in Strings}
Nested == {J!List(<<>>), J!Object(<<>>), J!List(<<J!Null, J!Bool(FALSE)>>), J!List(<<J!List(<<>>)>>),
           J!Object(<<[name |-> <<"b">>, value |-> J!List(<<>>)]>>), J!List(<<J!List(<<J!List(<<>>)>>)>>)}
Called(name, value) == [name |-> <<name>>, value |-> value]
Values ==
  {J!Object(<<Called("a", v)>>) : v \in Leaves \union Nested}
    \union {J!Object(<<[name |-> n, value |-> J!Null], Called("b", v)>>) :
              n \in Strings \union {<<"b">>, <<"b", "b">>}, v \in {J!Int64(8), J!List(<<J!Null>>), J!List(<<J!List(<<>>)>>)}}
    \union Nested \union {J!Null}
Number(neg, whole, point, fraction, powered, power) ==
  <<"number", [neg |-> neg, whole |-> whole, point |-> point, fraction |-> fraction, powered |-> powered, power |-> power]>>
Spelled ==       \* no more digits than a double keeps
  {Number(neg, digits[1], point, IF point THEN digits[2] ELSE <<>>, powered, IF powered THEN power ELSE <<>>) :
     neg \in BOOLEAN, point \in BOOLEAN, powered \in BOOLEAN, power \in {<<>>, <<0>>, <<3>>, <<-10>>},
     digits \in ({<<>>, <<0>>, <<0, 1>>, <<3>>, <<3, 2>>} \X {<<>>, <<0>>, <<5>>})
                  \union ({<<7, 0, 0, 0, 0, 0>>, <<1, 0, 0, 0, 0, 0, 0>>} \X {<<>>, <<0>>})
                  \union ({<<>>, <<0>>} \X {<<0, 0, 0, 0, 0, 0, 1>>})}
Tokens ==
  {<<"{">>, <<"}">>, <<"[">>, <<"]">>, <<":">>, <<",">>, <<"word", "null">>, <<"word", "true">>, <<"word", "nul">>}
    \union {<<"string", pieces>> :
              pieces \in {<<>>, <<<<"plain", "A">>>>, <<<<"plain", "b">>, <<"plain", "b">>>>, <<<<"plain", "\n">>>>,
                         <<<<"plain", "cat">>>>, <<<<"escape", "a">>>>, <<<<"unit", "high">>>>,
                         <<<<"unit", "low">>>>, <<<<"unit", "high">>, <<"unit", "low">>>>, <<<<"unit", "date">>>>}}
    \union Spelled
Replaced(text, i, tokens) == SubSeq(text, 1, i - 1) \o tokens \o SubSeq(text, i + 1, Len(text))
Text(v) == J!Written(v, 9, "core")

(* What is shown of two accounts: one read in every way beside one that is   *)
(* as it should be, and two of a few kinds, whichever is used.               *)
V == INSTANCE Views WITH Whole <- 4, MaxAge <- 4, Ahead <- 0, Models <- {}, Margin <- 2
At == 10           \* the accounts are read then, and looked at later
Looks == {10, 13, 15}
Reads(used) == {V!Absent} \union [used : used, resetAt : {V!Unread, 9, 12, 20}]
Read(used, resetAt) == [used |-> used, resetAt |-> resetAt]
ClaudeRow(status, age, five, seven, unlimited) ==
  V!Published([status |-> status, age |-> age, five |-> five, seven |-> seven, unlimited |-> unlimited], At)
CodexRow(status, at, words, confirmed, short, week) ==
  V!CodexSlotAt([status |-> status, allowed |-> words[1], spend |-> words[2], reached |-> words[3],
                 confirmed |-> confirmed] @@ ("300" :> short) @@ ("10080" :> week), at)
Plain == <<"absent", "false", "null">>
Restraints == {Plain, <<"false", "false", "null">>, <<"odd", "false", "null">>, <<"absent", "null", "null">>,
               <<"absent", "true", "null">>, <<"absent", "odd", "null">>, <<"absent", "false", "rate_limit">>}
ClaudeRich ==
  {ClaudeRow("ok", age, five, seven, unlimited) :
     age \in {V!Unread, 0, 3, 6}, five \in Reads({0, 2, 3, 4, 5}), seven \in Reads({0, 3, 4}), unlimited \in BOOLEAN}
CodexRich ==
  {CodexRow(status, At, words, confirmed, short, week) :
     status \in {"ok", "home_busy"}, words \in Restraints, confirmed \in BOOLEAN,
     short \in Reads({0, 3, 4}), week \in Reads({0, 2, 4})}
Enrolled(slot, stream, disabled) == [slot |-> slot, stream |-> stream, disabled |-> disabled]
Shown(family, accounts, active, restricted, stays, generated) ==
  [family |-> family, accounts |-> accounts, active |-> active, restricted |-> restricted, stays |-> stays,
   generated |-> generated]
Ordinary(family) ==
  IF family = "claude"
  THEN {ClaudeRow("ok", 0, Read(0, V!Unread), Read(1, 20), FALSE), ClaudeRow("ok", 3, Read(4, 12), Read(1, 20), FALSE),
        ClaudeRow("ok", 0, Read(3, 20), Read(1, 20), FALSE), ClaudeRow("relogin_required", 0, V!Absent, V!Absent, FALSE)}
  ELSE {CodexRow("ok", At, Plain, TRUE, Read(0, 12), Read(1, 20)), CodexRow("ok", 7, Plain, TRUE, Read(4, 12), Read(1, 20)),
        CodexRow("ok", At, Plain, TRUE, Read(3, 20), Read(1, 20)), CodexRow("timeout", At, Plain, TRUE, V!Absent, V!Absent)}
Signed == {CodexRow("authentication_required", at, Plain, TRUE, V!Absent, V!Absent) : at \in {6, At}}
Sound(family) == IF family = "claude" THEN ClaudeRow("ok", 0, Read(1, 20), Read(1, 20), FALSE)
                 ELSE CodexRow("ok", At, Plain, TRUE, Read(1, 20), Read(1, 20))
Families == {"claude", "codex"}
Snapshots ==
  {Shown(family, <<Enrolled(slot, "one", FALSE), Enrolled(Sound(family), "two", FALSE)>>, active, FALSE, TRUE, At) :
     family \in {"claude"}, slot \in ClaudeRich, active \in {1, 2}}
    \union {Shown(family, <<Enrolled(slot, "one", FALSE), Enrolled(Sound(family), "two", FALSE)>>, 1, FALSE, TRUE, At) :
              family \in {"codex"}, slot \in CodexRich}
    \union UNION {{Shown(family, <<Enrolled(one, "one", off), Enrolled(other, stream, FALSE)>>, active, restricted, stays, at) :
                     one \in Ordinary(family), other \in Ordinary(family), stream \in {"one", "two"}, off \in BOOLEAN,
                     active \in 0 .. 2, restricted \in BOOLEAN, stays \in BOOLEAN, at \in {3, At}} : family \in Families}

(* What a Codex program may be looked for in, and what one may print. *)
C == INSTANCE CodexProgram WITH LineLimit <- 3
Directory(name, exe, plain, shim, package) ==
  [name |-> name, exe |-> exe, plain |-> plain, shim |-> shim,
   package |-> {[kind |-> kind, at |-> at] : kind \in package, at \in {1}}
                 \union (IF package = {} /\ shim THEN {[kind |-> "arm", at |-> at] : at \in {1, 2}} ELSE {})]
Empty == Directory("empty", FALSE, FALSE, FALSE, {})
Directories(name) ==
  {Directory(name, exe, plain, shim, package) :
     exe \in BOOLEAN, plain \in BOOLEAN, shim \in BOOLEAN, package \in SUBSET {"arm", "x86"}}
Searches ==
  [named : {"", "missing", "script", "file"}, managed : BOOLEAN, windows : BOOLEAN, machine : {"arm", "x86"},
   path : {<<d>> : d \in Directories("one")} \union {<<d, e>> : d \in Directories("one"), e \in Directories("two")},
   libraries : {<<>>}]
    \union [named : {""}, managed : {FALSE}, windows : {FALSE}, machine : {"arm", "x86"},
            path : {<<>>} \union {<<d>> : d \in Directories("one")}, libraries : {<<d>> : d \in Directories("two")}]
Printed == UNION {[1 .. n -> {"a", "\r", "\n"}] : n \in 0 .. 6}

(* What the dashboard is drawn from, on terminals of several sizes.          *)
F == INSTANCE Frame WITH Tall <- 32, Recent <- 24
Account(id, enabled, five, remark, notes) ==
  [id |-> id, enabled |-> enabled, five |-> five, remark |-> remark, notes |-> notes]
Full == Account("1", TRUE, TRUE, TRUE, TRUE)
Claudes ==
  {[slots |-> <<>>, labels |-> labels, prefer |-> prefer] : labels \in {<<>>, <<"2">>}, prefer \in {<<>>, <<"1", "2">>}}
    \union {[slots |-> slots, labels |-> <<"1">>, prefer |-> <<"1">>] :
              slots \in {<<Full>>, <<Full, Account("2", FALSE, TRUE, TRUE, FALSE), Account("3", TRUE, FALSE, FALSE, FALSE)>>,
                         [i \in 1 .. 4 |-> Account(ToString(i), TRUE, TRUE, i < 4, i = 1)]}}
Bucket(main, windows, remark) == [main |-> main, windows |-> windows, remark |-> remark]
CodexAccount(id, enabled, buckets, plan) == [id |-> id, enabled |-> enabled, buckets |-> buckets, plan |-> plan]
Codexes ==
  {<<>>, <<CodexAccount("a", TRUE, <<>>, FALSE), CodexAccount("b", FALSE, <<>>, TRUE)>>,
   <<CodexAccount("a", TRUE, <<Bucket(TRUE, 2, TRUE), Bucket(FALSE, 1, TRUE)>>, TRUE),
     CodexAccount("b", TRUE, <<Bucket(TRUE, 0, FALSE)>>, TRUE), CodexAccount("c", TRUE, <<Bucket(TRUE, 2, FALSE)>>, FALSE)>>}
Event(age, width) == [age |-> age, width |-> width]
Histories ==
  {<<>>, <<Event(25, 20)>>, <<Event(-1, 20)>>, <<Event(24, 60)>>, <<Event(25, 20), Event(3, 12)>>,
   [i \in 1 .. 5 |-> Event(5 - i, 20)]}
Warned(stale, unavailable, dormant, ended, ending, ailing, failed) ==
  [generated |-> TRUE, stale |-> stale, unavailable |-> unavailable, dormant |-> dormant, ended |-> ended,
   ending |-> ending, readable |-> ending, ailing |-> ailing, failed |-> failed]
Unwarned == Warned(FALSE, 0, 0, 0, 0, FALSE, FALSE)
Warneds == {Unwarned, Warned(TRUE, 2, 2, 1, 1, TRUE, TRUE), Warned(FALSE, 2, 1, 0, 2, FALSE, FALSE), [Unwarned EXCEPT !.failed = TRUE]}
Terminals ==
  [width : {47, 60, 80}, height : {16, 17, 31, 32, 34, 38}, offset : {0, 3, F!Far}, nyan : {"none"}, providers : {<<>>, <<2, 0, 1>>}]
    \union [width : {48, 70, 110}, height : {24, 35, 36, 44}, offset : {0}, nyan : {"plain", "true", "indexed"}, providers : {<<1>>, <<1, 1, 1, 1, 1, 1>>}]
Contents(warneds, claudes, codexes, histories) ==
  {warned @@ [claude |-> claude, codex |-> codex, events |-> events, read |-> TRUE] :
     warned \in warneds, claude \in claudes, codex \in codexes, events \in histories}
Screens ==
  {terminal @@ content : terminal \in Terminals,
     content \in Contents(Warneds, Claudes, Codexes, {<<Event(3, 60)>>})
                  \union Contents({Unwarned}, {c \in Claudes : Len(c.slots) # 1}, Codexes, Histories)}
States ==
  {F!Switching(s) : s \in [configured : BOOLEAN, monitor : BOOLEAN, recorded : {"no", "none", "switching"},
                            pause : {"none", "invalid", "future", "past"}, hold : {"none", "future", "past"}]}
Titles ==
  [inside : 46 .. 60 \union {72, 90, 108}, switching : States, left : {0, 3, 7}, warming : BOOLEAN, preview : BOOLEAN, frozen : BOOLEAN,
   reading : {"none", "early", "stale", "read"}, span : {2, 7, 9}]
    \union [inside : 46 .. 108, switching : {"none"}, left : {0}, warming : {FALSE}, preview : {FALSE}, frozen : BOOLEAN,
            reading : {"none"}, span : {2}]
Bars ==            \* percents by halves, spans by their widths
  [inside : {46, 47, 58, 108},
   bar : [complete : BOOLEAN, gain : {-1, 0, 1, 20, 200}, next : {0, 2, 8}, later : {-1, 200}, laterAt : {0, 8},
          projected : BOOLEAN, estimate : BOOLEAN, usable : {0, 100}, remaining : {-1, 0, 1, 200}, value : {0, 200},
          weeklyOnly : BOOLEAN]]
Chip(text, muted) == [text |-> text, muted |-> muted]
Headers ==
  [inside : {46, 58}, name : {5, 30},
   chips : UNION {[1 .. n -> {Chip(8, FALSE), Chip(28, FALSE), Chip(12, TRUE)}] : n \in 0 .. 3}]

(* Command lines: for the program as it is asked, and as a user types them.  *)
H == INSTANCE Handover WITH Odd <- "odd",
       Dashed <- {"-", "--", "-x", "-AsJson", "-asjson", "-StateDirectory", "-statedirectory", "-PreviewPolicy",
                  "-CodexExecutable", "-ReducedMotion", "-NoColor", "-once", "-slot", "-provider", "-model"}
Lines(groups, most) == UNION {[1 .. n -> groups] : n \in 1 .. most}
RequestGroups ==
  {<<"--root", "/r">>, <<"--root", "">>, <<"--state", "/s">>, <<"--policy", "--dump">>, <<"--shell", "core">>, <<"--zone", "900">>,
   <<"--now", "utc">>, <<"--size", "60x18">>, <<"--offset", "2">>, <<"-AsJson">>, <<"--dump">>, <<"--no-color">>,
   <<"--plain">>, <<"--ansi">>, <<"-asjson">>}
LaunchGroups ==
  {<<"--root", "/r">>, <<"--state", "/s">>, <<"--slot", "a">>, <<"--slot", "--root">>, <<"--model", "odd">>, <<"--directory", "">>,
   <<"--codex", "odd">>, <<"--provider", "a">>}
OtherGroups ==
  {<<"--root", "/r">>, <<"--state", "/s">>, <<"--codex", "/c">>, <<"--powershell", "odd">>, <<"--scheduled">>, <<"--strict">>,
   <<"--core">>, <<"--root", "--core">>, <<"x">>}
Orders ==
  {<<"request", command, groups>> : command \in {"version", "Status", "nyan"}, groups \in Lines(RequestGroups, 3)}
    \union {<<"launch", "", groups>> : groups \in Lines(LaunchGroups, 3)}
    \union {<<by, "", groups>> : by \in {"route", "collect", "rule"}, groups \in Lines(OtherGroups, 3)}
OrderFree(by, command, groups) ==
  CASE by = "request" -> H!OrderFree(groups, LAMBDA words : H!Explicit(<<command>> \o words))
    [] by = "launch" -> H!OrderFree(groups, H!Launch)
    [] by = "route" -> H!OrderFree(groups, H!Route)
    [] by = "collect" -> H!OrderFree(groups, H!Collect)
    [] by = "rule" -> H!OrderFree(groups, LAMBDA words : H!Rule(<<"fresh">> \o words))
TypedGroups ==
  {<<"-AsJson">>, <<"-asjson">>, <<"-StateDirectory", "/s">>, <<"-statedirectory", "-AsJson">>, <<"-StateDirectory", "">>,
   <<"-PreviewPolicy", "/p">>, <<"-PreviewPolicy">>, <<"-CodexExecutable", "/c">>, <<"-ReducedMotion">>, <<"-NoColor">>,
   <<"-once">>, <<"-slot", "a">>, <<"-provider", "b">>, <<"-model", "odd">>, <<"--", "-slot", "odd">>, <<"--", "">>,
   <<"--", "-AsJson", "a">>, <<"x">>}
Typed ==
  {first \o FlattenSeq(groups) :
     first \in {<<>>, <<"Status">>, <<"version">>, <<"tray">>, <<"nyan">>, <<"codex">>}, groups \in {<<>>} \union Lines(TypedGroups, 3)}
Inner == {H!Ended("not mine", "", FALSE), H!Ended("done", "whole", FALSE), H!Ended("failed", "part", FALSE)}
Starts ==
  [first : {"wake", "ask", "collect", "route", "rule", "codex", "user", "status"}, inner : Inner,
   started : {"done", "short", "refused"}, status : {"done", "failed"}, relayed : BOOLEAN, attended : BOOLEAN,
   opened : {"no dashboard", "no terminal", "stopped", "done", "handed off"},
   answer : {"not mine", "refused", "answer"}, written : {"", "part", "whole"}]

(* Wakes, on two accounts: what claude-swap reports of them, what is known   *)
(* of their sign-ins and requests, and what becomes of what the wake does.   *)
R == INSTANCE Notices WITH Whole <- 4, MaxAge <- 4, Ahead <- 0, Models <- {"m"}, Margin <- 2, StaleAfter <- 3,
       SpentAfter <- 2, Floor <- 2, Near <- 3, WarmMin <- 3, WarmMinWork <- 1, Cycle <- 6, Arc <- 3, Grid <- 1, Away <- 4
Row(status, age, five, seven, unlimited) ==
  [status |-> status, age |-> age, five |-> five, seven |-> seven, unlimited |-> unlimited]
File(holds, token, ends) == [holds |-> holds, token |-> token, ends |-> ends]
Stored == File("sign-in", "one", 20)
Listed(row, scoped, off) ==
  [registered |-> TRUE, off |-> off, row |-> row, scoped |-> scoped, lastGood |-> V!Unread, stored |-> Stored,
   own |-> File("nothing", "", V!Unread), dead |-> [mark |-> "", fails |-> 0], warmed |-> V!Unread, tested |-> V!Unread,
   blocked |-> {}, pending |-> FALSE]
Modest == "m" :> Read(1, 20)
Fit == Listed(Row("ok", 0, Read(1, 14), Read(1, 20), FALSE), Modest, FALSE)
Cold == Listed(Row("ok", 0, Read(0, V!Unread), Read(1, 20), FALSE), Modest, FALSE)
Low == Listed(Row("ok", 0, Read(4, 14), Read(1, 20), FALSE), Modest, FALSE)
Lost == Listed(Row("relogin_required", V!Unread, V!Absent, V!Absent, FALSE), <<>>, FALSE)
Untested == [Lost EXCEPT !.lastGood = 5]
Unknown == [Fit EXCEPT !.registered = FALSE]
Unlimited == Listed(Row("ok", 0, V!Absent, Read(1, 20), TRUE), Modest, FALSE)
Unreported == Listed(Row("ok", 0, V!Absent, Read(1, 20), FALSE), Modest, FALSE)
Few == {Fit, Cold, [Fit EXCEPT !.off = TRUE], Low, Untested, Unknown, Unlimited, Unreported}
Measurements ==
  {Listed(Row("ok", age, five, seven, unlimited), Modest, off) :
     age \in {V!Unread, 0, 6}, five \in {V!Absent} \union [used : {0, 1, 4, 5}, resetAt : {V!Unread, 11, 12, 15}],
     seven \in {V!Absent, Read(1, 20), Read(4, 20)}, unlimited \in BOOLEAN, off \in {FALSE}}
    \union {Listed(row, scoped, off) :
              row \in {Fit.row, Cold.row, Row("unauthorized", 0, V!Absent, V!Absent, FALSE)}, off \in BOOLEAN,
              scoped \in {<<>>, "m" :> Read(1, V!Unread), "m" :> Read(3, 20), "m" :> Read(4, 20), "m" :> Read(5, 20)}}
SignIns ==
  {[Lost EXCEPT !.lastGood = age, !.stored = file, !.own = own, !.dead = dead, !.tested = tested, !.blocked = blocked] :
     age \in {V!Unread, 5},
     file \in {File("nothing", "", V!Unread), File("odd", "", V!Unread)}
                \union {File("sign-in", "one", ends) : ends \in {V!Unread, 10, 11, 13, 20}},
     own \in {File("odd", "", V!Unread), File("sign-in", "two", 11)},
     dead \in {[mark |-> "", fails |-> 0], [mark |-> "one", fails |-> 1], [mark |-> "one", fails |-> 2],
               [mark |-> "two", fails |-> 2]},
     tested \in {V!Unread, 8}, blocked \in {{}, {"probe"}}}
Colds ==
  {[Cold EXCEPT !.row.seven = seven, !.stored = file, !.warmed = warmed, !.blocked = blocked, !.pending = pending] :
     seven \in {V!Absent, Read(0, 20), Read(2, 20), Read(3, 20)}, file \in {Stored, File("sign-in", "one", 11), File("odd", "", V!Unread)},
     warmed \in {V!Unread, 7, 9}, blocked \in {{}, {"warm"}}, pending \in BOOLEAN}
Kinds == {"switch", "warm", "probe"}
Wake(accounts, active, pattern, held, enabled, may, works, acting, saying) ==
  [accounts |-> accounts, at |-> At, acting |-> acting, saying |-> saying, active |-> active, mac |-> FALSE, reserve |-> {2},
   pattern |-> pattern, held |-> held, automated |-> may # "paused", enabled |-> enabled, stays |-> TRUE,
   permitted |-> IF may = "act" THEN Kinds ELSE {}, works |-> works, after |-> "one", cleared |-> "cleared"]
Spans == {<<10, 10>>, <<11, 13>>, <<12, 12>>}
WakesInAll ==
  {[Wake(<<one, other>>, active, pattern, held, enabled, may, Kinds, span[1], span[2]) EXCEPT !.stays = stays] :
     one \in Few, other \in Few, active \in 0 .. 2, pattern \in {"maintain", "staggered"}, held \in BOOLEAN,
     enabled \in {Kinds, {"switch", "probe"}}, may \in {"act", "refused", "paused"}, stays \in BOOLEAN, span \in Spans}
WakesOnLost ==
  {[Wake(accounts, active, "staggered", FALSE, Kinds, "act", works, span[1], span[2]) EXCEPT !.mac = mac] :
     accounts \in {<<one, Fit>> : one \in SignIns} \union {<<Lost, one>> : one \in SignIns},
     active \in {1, 2}, works \in {Kinds, {}}, span \in {<<10, 10>>, <<11, 13>>}, mac \in BOOLEAN}
WakesOnRead ==
  {Wake(accounts, 1, pattern, FALSE, Kinds, "act", {}, span[1], span[2]) :
     accounts \in ((Colds \union Measurements) \X {Fit, Low, Unlimited}) \union ({Low, Cold} \X (Colds \union Measurements)),
     pattern \in {"maintain", "staggered"}, span \in Spans}

(* What the tray has besides, and what it comes upon one time after another. *)
Trays ==
  {[shown |-> Shown("codex", <<Enrolled(one, "one", off), Enrolled(other, stream, FALSE)>>, 1, FALSE, TRUE, at),
    health |-> health, incomplete |-> 2, runsOut |-> out, free |-> free] :
     one \in Ordinary("codex") \union Signed, other \in Ordinary("codex") \union Signed, stream \in {"one", "two"},
     off \in BOOLEAN, at \in {3, At}, health \in {"collector overdue", "collector healthy"},
     out \in SUBSET {1, 2}, free \in {{}, {1}}}
Refreshings ==
  UNION {[1 .. n -> [candidates : SUBSET keys, notify : BOOLEAN, dies : BOOLEAN]] :
           n \in 1 .. 4, keys \in {{"auth"}}}
    \union [1 .. 3 -> [candidates : SUBSET {"auth", "weekly"}, notify : BOOLEAN, dies : BOOLEAN]]

VARIABLES rule,      \* which document it is
          document
vars == <<rule, document>>

Init ==
  \/ rule = "policy base" /\ document \in Policies
  \/ rule = "definition base" /\ document \in Definitions
  \/ rule = "value" /\ document \in Values
  \/ rule = "view" /\ document \in Snapshots
  \/ rule = "wake" /\ (document \in WakesInAll \/ document \in WakesOnLost \/ document \in WakesOnRead)
  \/ rule = "tray" /\ document \in Trays
  \/ rule = "refreshing" /\ document \in Refreshings
  \/ rule = "output" /\ document \in Printed
  \/ rule = "search" /\ document \in Searches
  \/ rule = "screen" /\ document \in Screens
  \/ rule = "title" /\ document \in Titles
  \/ rule = "bar" /\ document \in Bars
  \/ rule = "order" /\ document \in Orders
  \/ rule = "typed" /\ document \in Typed
  \/ rule = "start" /\ document \in Starts
  \/ rule = "rule" /\ document \in {"answer", "refusal"} \X {"before", "within", "after"}
  \/ rule = "header" /\ document \in Headers

Write(written) == document' = written
WritePolicy ==
  /\ rule = "policy base" /\ rule' = "policy"
  /\ \/ \E edit \in Edits : Write(Made(document, edit))
     \/ \E one, other \in Changes : Write(Made(Made(document, one), other))
WriteDefinition ==
  /\ rule = "definition base" /\ rule' = "definition"
  /\ \E one, other \in Defined : Write(Made(Made(document, one), other))
WriteText ==
  /\ rule = "value" /\ rule' = "text"
  /\ \E i \in DOMAIN Text(document) :
       \/ Write(Replaced(Text(document), i, <<>>))
       \/ \E token \in Tokens : Write(Replaced(Text(document), i, <<token>>))
       \/ \E token \in Tokens \ Spelled : Write(Replaced(Text(document), i, <<Text(document)[i], token>>))

Next == WritePolicy \/ WriteDefinition \/ WriteText
Spec == Init /\ [][Next]_vars

-----------------------------------------------------------------------------
PolicyHonoured ==
  /\ rule = "policy" => P!Honoured(document) /\ P!Migrated(document)
  /\ rule = "definition" /\ O!IsText(O!Get(document, "id")) =>
       Of(O!Get(document, "id")[2] :> document)!Enrollable(O!Put(Automate, "schemaVersion", O!Number(3)))

(* Who looks at a snapshot is told the same of it, wherever he looks.       *)
(* codex_read.rs: a program is found wherever it is, for this machine.      *)
ViewsAgree ==
  /\ rule = "view" => \A now \in Looks : V!NamedAlike(document, now)
  /\ rule = "wake" => R!SaidTruly(document, <<R!Entry(document, 1), R!Entry(document, 2)>>, Looks)
  /\ rule = "tray" => \A now \in Looks : R!CodexToldWithout(document.shown, document, At, now)
  /\ rule = "refreshing" => R!ToldOnce(document, {"auth", "weekly"})
  /\ rule = "search" => \A i \in 0 .. Len(document.path) : C!FoundAlike(document, i, Empty)
  /\ rule = "screen" => F!ScreenTrue(document)
  /\ rule = "title" => F!TitleKeeps(document)
  /\ rule = "bar" => F!BarFits(document.bar, document.inside)
  /\ rule = "header" => F!HeaderFits(document.chips, document.name, document.inside)

(* door.rs, main.rs, native.ps1: whoever a user's words reach first, what   *)
(* they ask for is the same.                                                *)
WordsKept ==
  /\ rule = "order" => OrderFree(document[1], document[2], document[3])
  /\ rule = "typed" => H!HandedOver(document, "/r") /\ H!EntryTaken(document, "/r", "/d")
  /\ rule = "start" => H!EndsTruly(document)
  /\ rule = "rule" => H!RuleHeard(document[1], document[2])

(* json.rs: what is written is read again as it was, and a text is read the *)
(* same whoever is taken to have written it.  codex_read.rs: the lines of   *)
(* a program's output do not depend on when they are read.  What is handed  *)
(* from one program to the next in words stays what it was.                 *)
TextsKept ==
  /\ \A edition \in J!Editions : /\ rule = "value" => J!ReadAgain(document, edition)
                                /\ rule = "text" => J!ReadAlike(document, edition)
  /\ rule = "output" => \A cut \in 0 .. Len(document) : C!ReadWhole(document, cut)
  /\ WordsKept

=============================================================================
