------------------------------- MODULE Handover -------------------------------
(***************************************************************************)
(* Who answers what a user typed: the compiled program (native/src/door.rs *)
(* and main.rs) or the PowerShell entry (hotpl8.ps1, src/native.ps1), which *)
(* spells the request again for the same program (native/src/request.rs,   *)
(* launch.rs, route.rs, rule.rs, wake.rs).  A command line is a sequence    *)
(* of words; only what a word is taken for matters.                        *)
(***************************************************************************)
EXTENDS Integers, Sequences, FiniteSets, SequencesExt, TLC

CONSTANTS Dashed,        \* words that begin with one of PowerShell's dashes
          Odd            \* a word that is no text

Refused == <<>>
Full(word) == word # ""                 \* a path that can be made full
Spelt(word) == word # Odd
Lowered == [w \in {"-AsJson", "-StateDirectory", "-PreviewPolicy", "-CodexExecutable", "-ReducedMotion", "-NoColor",
                   "Status"} |->
              CASE w = "-AsJson" -> "-asjson" [] w = "-StateDirectory" -> "-statedirectory"
                [] w = "-PreviewPolicy" -> "-previewpolicy" [] w = "-CodexExecutable" -> "-codexexecutable"
                [] w = "-ReducedMotion" -> "-reducedmotion" [] w = "-NoColor" -> "-nocolor" [] w = "Status" -> "status"]
Lower(word) == IF word \in DOMAIN Lowered THEN Lowered[word] ELSE word

-----------------------------------------------------------------------------
(* Words in any order: names that take the next word, and flags, each once  *)

(* Slip: said twice, the later one counts. *)
TwiceTaken(line, name, taken) == TRUE

Once(line, name, taken) == name \notin taken

(* A name in whatever case, where its reader ignores that.                  *)
Known(word, names) == IF word \in names THEN word ELSE Lower(word)

Take(line, word, names, flags, rest) ==
  CASE line.refused -> line
    [] ~ line.refused /\ line.over -> [line EXCEPT !.rest = Append(@, word)]
    [] ~ line.refused /\ ~ line.over /\ line.awaiting # "" ->
         [line EXCEPT !.values = (line.awaiting :> word) @@ @, !.awaiting = ""]
    [] OTHER -> IF rest /\ word = "--" THEN [line EXCEPT !.over = TRUE]
                ELSE IF Known(word, names) \in names /\ Once(line, Known(word, names), DOMAIN line.values)
                THEN [line EXCEPT !.awaiting = Known(word, names)]
                ELSE IF Known(word, flags) \in flags /\ Once(line, Known(word, flags), line.flags)
                THEN [line EXCEPT !.flags = @ \union {Known(word, flags)}]
                ELSE [line EXCEPT !.refused = TRUE]
Blank == [refused |-> FALSE, awaiting |-> "", over |-> FALSE, values |-> <<>>, flags |-> {}, rest |-> <<>>]
Line(words, names, flags, rest) == FoldLeft(LAMBDA line, word : Take(line, word, names, flags, rest), Blank, words)
Whole(line) == ~ line.refused /\ line.awaiting = ""
Given(line, name, usual) == IF name \in DOMAIN line.values THEN line.values[name] ELSE usual
Has(line, names) == DOMAIN line.values \intersect names # {}
Each(line, names, Fits(_)) == \A name \in names \intersect DOMAIN line.values : Fits(line.values[name])

-----------------------------------------------------------------------------
(* What the program is asked *)

Commands == {"version", "status", "explain", "tray", "watch", "nyan"}
Draws(command) == command \in {"watch", "nyan"}
Numbers == {"2", "300", "900"}

RequestNames ==
  {"--root", "--state", "--policy", "--shell", "--now", "--zone", "--size", "--offset", "--at", "--colours"}
RequestFlags == {"-AsJson", "--dump", "--reduced-motion", "--no-color", "--frozen", "--plain", "--ansi"}
RequestWords(line) ==
  /\ Whole(line) /\ "--root" \in DOMAIN line.values
  /\ Each(line, {"--root", "--state", "--policy"}, Full)
  /\ Each(line, {"--shell"}, LAMBDA w : w \in {"desktop", "core"})
  /\ Each(line, {"--now"}, LAMBDA w : w = "utc")
  /\ Each(line, {"--zone"}, LAMBDA w : w \in {"2", "300"})
  /\ Each(line, {"--size"}, LAMBDA w : w = "60x18")
(* What one option needs of the others: the dump is of JSON, a version reads *)
(* no state, a frame is asked for by its size, and only a dashboard's.       *)
RequestTogether(command, line) ==
  LET shot == "--size" \in DOMAIN line.values
      still == {"--frozen", "--plain", "--ansi"} \intersect line.flags # {} \/ Has(line, {"--offset", "--at", "--colours"})
  IN /\ "--dump" \in line.flags => "-AsJson" \in line.flags
     /\ command = "version" => ~ Has(line, {"--state", "--policy", "--now", "--zone"}) /\ "--dump" \notin line.flags
     /\ shot => /\ Each(line, {"--offset", "--at"}, LAMBDA w : w \in Numbers)
                /\ Each(line, {"--colours"}, LAMBDA w : w \in {"true", "indexed"})
     /\ still => shot
     /\ ~ {"--plain", "--ansi"} \subseteq line.flags
     /\ shot \/ {"--reduced-motion", "--no-color"} \intersect line.flags # {} => Draws(command)
     /\ Draws(command) => "-AsJson" \notin line.flags
Request(command, root, state, policy, flags, tested) ==
  [command |-> command, root |-> root, state |-> state, policy |-> policy, flags |-> flags, tested |-> tested]
Requested(command, line) ==
  IF command \in Commands /\ RequestWords(line) /\ RequestTogether(command, line)
  THEN <<Request(command, line.values["--root"], Given(line, "--state", ""), Given(line, "--policy", ""), line.flags,
                 [name \in DOMAIN line.values \ {"--root", "--state", "--policy"} |-> line.values[name]])>>
  ELSE Refused
Explicit(words) ==
  IF words = <<>> THEN Refused
  ELSE Requested(Lower(words[1]), Line(Tail(words), RequestNames, RequestFlags, FALSE))

(* A launch; what follows -- is Codex's, whatever it looks like.            *)
LaunchNames == {"--root", "--state", "--codex", "--provider", "--slot", "--model", "--directory"}
Launching(line) ==
  IF /\ Whole(line) /\ "--root" \in DOMAIN line.values
     /\ Each(line, {"--root", "--state", "--directory"}, Full)
     /\ Each(line, LaunchNames \ {"--root", "--state", "--directory"}, Spelt)
     /\ \A i \in DOMAIN line.rest : Spelt(line.rest[i])
  THEN <<[provider |-> Given(line, "--provider", "codex"), slot |-> Given(line, "--slot", ""),
          model |-> Given(line, "--model", ""), state |-> Given(line, "--state", ""), codex |-> Given(line, "--codex", ""),
          directory |-> Given(line, "--directory", ""), words |-> line.rest]>>
  ELSE Refused
Launch(words) == Launching(Line(words, LaunchNames, {}, TRUE))

Routing(line) ==
  IF Whole(line) /\ {"--root", "--state"} \subseteq DOMAIN line.values /\ Each(line, {"--root", "--state"}, Full)
     /\ Each(line, {"--codex"}, Spelt)
  THEN <<line.values>> ELSE Refused
Route(words) == Routing(Line(words, {"--root", "--state", "--codex"}, {}, FALSE))

Waking(line) ==
  IF Whole(line) /\ "--root" \in DOMAIN line.values /\ Each(line, {"--root", "--state"}, Full)
     /\ Each(line, {"--cswap", "--codex", "--powershell"}, Spelt)
  THEN <<line.values, line.flags>> ELSE Refused
Collect(words) ==
  Waking(Line(words, {"--root", "--state", "--cswap", "--codex", "--powershell"},
              {"--scheduled", "--observe-only", "--strict"}, FALSE))

Ruling(question, line) ==
  IF Whole(line) /\ "--root" \in DOMAIN line.values /\ Full(line.values["--root"]) /\ Spelt(question)
  THEN <<question, line.flags>> ELSE Refused
Rule(words) ==
  IF words = <<>> THEN Refused ELSE Ruling(words[1], Line(Tail(words), {"--root"}, {"--core"}, FALSE))

-----------------------------------------------------------------------------
(* What a user typed *)

(* The door: plain spellings alone.  Everything else is not its to refuse.  *)
DoorNames == {"-statedirectory", "-previewpolicy", "-codexexecutable"}
DoorFlags(command) == IF Draws(command) THEN {"-reducedmotion", "-nocolor"} ELSE {"-asjson"}

(* Slip: any word is a value. *)
AnyValue(word) == Spelt(word)

(* A word PowerShell binds to the parameter before it as it stands.         *)
Value(word) == Spelt(word) /\ word # "" /\ word \notin Dashed

Flagged(flags) ==
  {CASE f = "-asjson" -> "-AsJson" [] f = "-reducedmotion" -> "--reduced-motion" [] f = "-nocolor" -> "--no-color" : f \in flags}
DoorLine(words, command) == Line(words, DoorNames, DoorFlags(command), FALSE)
DoorRequest(command, line, root) ==
  IF /\ command \in Commands \ {"tray"} /\ Whole(line) /\ Each(line, DoorNames, Value)
     /\ command = "version" => ~ Has(line, {"-statedirectory", "-previewpolicy"})
  THEN <<Request(command, root, Given(line, "-statedirectory", ""), Given(line, "-previewpolicy", ""),
                 Flagged(line.flags), <<>>)>>
  ELSE Refused
Door(words, root) ==
  IF words # <<>> /\ words[1] \notin Dashed
  THEN DoorRequest(Lower(words[1]), DoorLine(Tail(words), Lower(words[1])), root)
  ELSE DoorRequest("watch", DoorLine(words, "watch"), root)

(* PowerShell's own reading of them, by whole names: any switch of the      *)
(* entry, whichever the command, and what stands after --.                  *)
EntrySwitches == {"-asjson", "-reducedmotion", "-nocolor", "-once"}
EntryNames == DoorNames \union {"-slot", "-model", "-provider"}
Binding(command, line) ==
  IF /\ Whole(line) /\ Each(line, EntryNames, LAMBDA w : Spelt(w) /\ w \notin Dashed)
     /\ \A i \in DOMAIN line.rest : Spelt(line.rest[i])
  THEN <<[command |-> command, line |-> line, keys |-> DOMAIN line.values \union line.flags]>>
  ELSE Refused
BoundLine(words) == Line(words, EntryNames, EntrySwitches, TRUE)
Bound(words) ==
  IF words # <<>> /\ words[1] \notin Dashed THEN Binding(Lower(words[1]), BoundLine(Tail(words)))
  ELSE Binding("watch", BoundLine(words))

Optional(name, value) == IF value = "" THEN <<>> ELSE <<name, value>>
Switched(line, switch, flag) == IF switch \in line.flags THEN <<flag>> ELSE <<>>
State(line) == Optional("--state", Given(line, "-statedirectory", ""))
Policy(line) == Optional("--policy", Given(line, "-previewpolicy", ""))

(* What the entry asks the program for, of a plain request; the rest it     *)
(* looks into itself.                                                       *)
Plain ==
  [version |-> {"-asjson", "-codexexecutable"}, tray |-> {"-once", "-statedirectory", "-codexexecutable"},
   status |-> {"-asjson", "-statedirectory", "-previewpolicy", "-codexexecutable"},
   explain |-> {"-asjson", "-statedirectory", "-previewpolicy", "-codexexecutable"}]
IsPlain(b) ==
  /\ b.command \in DOMAIN Plain /\ b.line.rest = <<>> /\ b.keys \subseteq Plain[b.command]
  /\ b.command = "tray" => "-once" \in b.keys
EntryRead(b, root) ==
  <<b.command, "--root", root>> \o State(b.line) \o Policy(b.line)
    \o (IF b.command = "tray" THEN <<"-AsJson">> ELSE Switched(b.line, "-asjson", "-AsJson"))
EntryDraws(b, root) ==
  <<b.command, "--root", root>> \o State(b.line) \o Policy(b.line)
    \o Switched(b.line, "-reducedmotion", "--reduced-motion") \o Switched(b.line, "-nocolor", "--no-color")
Entry(b, root) == IF Draws(b.command) THEN EntryDraws(b, root) ELSE EntryRead(b, root)

(* The entry of the release that took this one's place is given them again. *)
Again(b) ==
  <<b.command>> \o Optional("-StateDirectory", Given(b.line, "-statedirectory", ""))
    \o Optional("-PreviewPolicy", Given(b.line, "-previewpolicy", ""))
    \o Switched(b.line, "-reducedmotion", "-ReducedMotion") \o Switched(b.line, "-nocolor", "-NoColor")

(* Words that come to nothing are left out: a list of one empty word too.   *)
Handed(words) == IF words = <<"">> THEN <<>> ELSE words

(* Slip: the words for Codex follow the launch's own at once. *)
Unparted(b, root, directory) ==
  <<"--root", root, "--provider", Given(b.line, "-provider", "codex"), "--directory", directory>> \o State(b.line)
    \o Optional("--codex", Given(b.line, "-codexexecutable", "")) \o Optional("--slot", Given(b.line, "-slot", ""))
    \o Optional("--model", Given(b.line, "-model", "")) \o Handed(b.line.rest)

EntryCodex(b, root, directory) ==
  <<"--root", root, "--provider", Given(b.line, "-provider", "codex"), "--directory", directory>> \o State(b.line)
    \o Optional("--codex", Given(b.line, "-codexexecutable", "")) \o Optional("--slot", Given(b.line, "-slot", ""))
    \o Optional("--model", Given(b.line, "-model", "")) \o <<"--">> \o Handed(b.line.rest)

-----------------------------------------------------------------------------
(* How it ends *)

Ended(exit, out, err) == [exit |-> exit, out |-> out, err |-> err]

(* A caller that received part of an answer must not use it.                *)
Answered(s) ==
  CASE s.answer = "not mine" -> Ended("not mine", "", FALSE)
    [] s.answer = "refused" -> Ended("failed", "", TRUE)
    [] s.answer = "answer" -> IF s.written = "whole" THEN Ended("done", "whole", FALSE) ELSE Ended("failed", s.written, FALSE)

(* With someone at a terminal the dashboard stays open on it.               *)
Attended(s) ==
  CASE ~ s.attended \/ s.opened \in {"no dashboard", "no terminal"} -> Answered(s)
    [] s.attended /\ s.opened = "stopped" -> Ended("failed", "", TRUE)
    [] s.attended /\ s.opened \in {"done", "handed off"} -> Ended(s.opened, "drawn", FALSE)

Started(s) ==
  CASE s.started = "done" -> Ended("done", "line", FALSE)
    [] s.started = "short" -> Ended("failed", "line", FALSE)
    [] s.started = "refused" -> Ended("failed", "", TRUE)

(* main: who the program was started by, and what for.                      *)
Main(s) ==
  CASE s.first \in {"wake", "ask"} -> s.inner
    [] s.first \in {"collect", "route", "rule"} -> Started(s)
    [] s.first = "codex" -> IF s.started = "refused" THEN Ended("failed", "", TRUE) ELSE Ended(s.status, "codex", FALSE)
    [] s.first = "user" -> IF s.relayed THEN s.inner ELSE Attended(s)
    [] OTHER -> Attended(s)

-----------------------------------------------------------------------------
(* A rule's answer *)

(* rule.rs line: one line, an answer or why there is none.                  *)
RuleLine(outcome) ==
  IF outcome = "answer" THEN [holds |-> "value", done |-> TRUE] ELSE [holds |-> "error", done |-> FALSE]

(* What PowerShell makes of what was printed: nothing is answered in the    *)
(* program's place.                                                         *)
Printed(outcome, died) ==
  IF died = "before" THEN "nothing" ELSE IF died = "within" THEN "part" ELSE RuleLine(outcome).holds

(* Slip: how a program ended says that it answered. *)
HeardByEnd(printed, done) == IF done THEN "value" ELSE "throws"

Heard(printed, done) == IF printed = "value" THEN "value" ELSE IF printed = "error" THEN "throws" ELSE "throws no program"

-----------------------------------------------------------------------------
(* Properties *)

(* The order of the options says nothing, for any of the commands.          *)
OrderFree(groups, Parse(_)) ==
  \A i \in 1 .. Len(groups) - 1 :
    Parse(FlattenSeq(groups))
      = Parse(FlattenSeq([j \in DOMAIN groups |-> groups[IF j = i THEN i + 1 ELSE IF j = i + 1 THEN i ELSE j]]))

(* What the door answers is what PowerShell would have asked the program    *)
(* for with the same words; and a dashboard that is opened again is the     *)
(* same one.                                                                *)
HandedOver(words, root) ==
  \A request \in ToSet(Door(words, root)) :
    /\ Bound(words) # Refused
    /\ \A b \in ToSet(Bound(words)) :
         /\ IsPlain(b) \/ Draws(b.command)
         /\ Explicit(Entry(b, root)) = <<request>>
         /\ Draws(b.command) => \A again \in ToSet(Bound(Again(b))) : Explicit(Entry(again, root)) = <<request>>

(* What is plain to the entry the program takes, and Codex is launched with *)
(* the words that are its own, for the account that was named.              *)
EntryTaken(words, root, directory) ==
  \A b \in ToSet(Bound(words)) :
    /\ IsPlain(b) => Explicit(Entry(b, root)) # Refused
    /\ b.command = "codex" /\ "-previewpolicy" \notin b.keys =>
         \A launch \in {Launch(EntryCodex(b, root, directory))} :
           /\ launch # Refused
           /\ launch[1].words = b.line.rest \/ b.line.rest = <<"">>
           /\ launch[1].slot = Given(b.line, "-slot", "") /\ launch[1].provider = Given(b.line, "-provider", "codex")

(* The words are left to PowerShell only by a program that said nothing     *)
(* itself, and an answer that was not written whole is no answer.           *)
EndsTruly(s) ==
  \A ended \in {Main(s)} :
    /\ ended.exit = "not mine" => ended.out = "" /\ ~ ended.err
    /\ ended.exit = "done" => ended.out # "part"

(* A rule's answer is taken only from a program that gave it.               *)
RuleHeard(outcome, died) ==
  \A heard \in {Heard(Printed(outcome, died), RuleLine(outcome).done)} :
    /\ heard = "value" => outcome = "answer" /\ died \notin {"before", "within"}
    /\ heard = "throws" => outcome = "refusal"

=============================================================================
